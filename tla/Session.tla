------------------------------ MODULE Session ------------------------------
(***************************************************************************)
(* A user at the prompt: src/main.c, src/simulator.c, opening and closing  *)
(* the file (src/fsop/fs_common.c), format (src/commands/format.c, one     *)
(* fwrite a step), load and cd.  What other commands do to the filesystem  *)
(* is in Links, Namespace and Stream.                                      *)
(***************************************************************************)
EXTENDS Layout, PromptPath

CONSTANTS FsSizes,      \* the sizes format is asked for, in MB
          Directories,  \* directories cd goes to: the names above each
          MaxKills      \* bound on SIGINTs

ASSUME SessionAssumption ==
    /\ FsSizes \subseteq 1 .. FsSizeMax
    /\ Directories \subseteq Seq(Nat \ {0})
    /\ MaxKills \in Nat

VARIABLES host,       \* the file on the host
          sb,         \* disk_size of the cached superblock, 0 before there is one
          open,       \* filesystem # NULL
          formatted,  \* is_formatted
          at,         \* where the program is
          i,          \* loop counter of the part being formatted
          script,     \* load is running
          stale,      \* isoverflow() of the last but one byte of buff_in
          input,      \* the last line: its length, and whether it was scanned
          cwd,        \* names above inode_actual
          pwd,        \* buff_pwd: the directory it was made for, and how
          torn,       \* history: no format has been completed since one began
          moved,      \* history: mv or fsck changed what is above cwd
          kills       \* SIGINTs so far

hostVars == <<host, sb, open, formatted, i, torn>>
placeVars == <<pathVars, cwd, pwd, moved>>
vars == <<hostVars, placeVars, at, script, stale, input, kills>>

Parts == {"superblock", "bm_inodes", "bm_data", "inodes", "blocks", "root"}

NoFile == [exists |-> FALSE, size |-> 0, bytes |-> 0, ids |-> TRUE, root |-> FALSE]

\* A file format did not make, or none.
Unformatted == {NoFile, [NoFile EXCEPT !.exists = TRUE]}

AtTheRoot == [dir |-> <<>>, text |-> "whole"]

TypeOK ==
    /\ host \in [exists : BOOLEAN, size : {0} \union FsSizes, bytes : Nat,
                 ids : BOOLEAN, root : BOOLEAN]
    /\ host.bytes > 0 /\ host.size > 0 => host.bytes <= Bytes(host.size)
    /\ sb \in {0} \union FsSizes
    /\ {open, formatted, script, stale, torn, moved} \subseteq BOOLEAN
    /\ at \in Parts \union {"off", "prompt", "discard", "climb", "script"}
    /\ i \in Nat /\ kills \in 0 .. MaxKills
    /\ input \in [line : {"short", "long", "none"}, scanned : BOOLEAN]
    /\ cwd \in Directories \union {<<>>}
    /\ pwd \in [dir : Directories \union {<<>>}, text : Texts]
    /\ PathTypeOK

\* The program has not run; the file is not there, or not one format made.
Init ==
    /\ host \in Unformatted
    /\ sb = 0 /\ open = FALSE /\ formatted = FALSE /\ i = 0
    /\ at = "off" /\ script = FALSE /\ stale = FALSE
    /\ input = [line |-> "none", scanned |-> FALSE]
    /\ cwd = <<>> /\ pwd = AtTheRoot
    /\ torn = TRUE /\ moved = FALSE /\ kills = 0
    /\ PathInit

\* main(), init_simulation(), init_filesystem(): whatever file there is gets
\* opened, its superblock read if it is long enough, and counts as formatted.
\* The path given may lead to another directory, where format writes nothing: it
\* opens the base name of the path in the working directory.
Launch ==
    /\ at = "off"
    /\ at' = "prompt"
    /\ \/ UNCHANGED <<host, torn>>
       \/ host' \in Unformatted /\ torn' = TRUE
    /\ open' = host'.exists /\ formatted' = host'.exists
    /\ sb' = host'.size
    /\ script' = FALSE /\ stale' = FALSE
    /\ input' = [line |-> "none", scanned |-> FALSE]
    /\ cwd' = <<>> /\ pwd' = AtTheRoot /\ moved' = FALSE
    /\ UNCHANGED <<i, kills, pathVars>>

------------------------------------------------------------------------------
(* handle_input()                                                          *)

\* What the test of the last but one byte of buff_in says of a line that fits:
\* fgets() does not reach that byte, so it is what an earlier line left there.
Overflows == stale

\* A line that fits the buffer is scanned.
Scans ==
    /\ at = "prompt" /\ ~Overflows
    /\ input' = [line |-> "short", scanned |-> TRUE]

\* A line that ends just at that byte puts its newline there.
FullLine ==
    /\ at = "prompt"
    /\ stale' = FALSE
    /\ input' = [line |-> "short", scanned |-> TRUE]
    /\ UNCHANGED <<hostVars, placeVars, at, script, kills>>

\* A line that does not fit: its rest is discarded.
LongLine ==
    /\ at = "prompt"
    /\ stale' = TRUE
    /\ input' = [line |-> "long", scanned |-> FALSE]
    /\ UNCHANGED <<hostVars, placeVars, at, script, kills>>

\* A line that fits, taken for one that does not.
ShortLineRefused ==
    /\ at = "prompt" /\ Overflows
    /\ at' = "discard"
    /\ input' = [line |-> "short", scanned |-> FALSE]
    /\ UNCHANGED <<hostVars, placeVars, script, stale, kills>>

\* The rest of a line already read whole is the next line.
NextLineDiscarded ==
    /\ at = "discard"
    /\ at' = "prompt"
    /\ \E l \in {"short", "long"} : input' = [line |-> l, scanned |-> FALSE]
    /\ UNCHANGED <<hostVars, placeVars, script, stale, kills>>

------------------------------------------------------------------------------
(* format                                                                  *)

\* Faulty: a failed format leaves is_formatted alone.
AfterRefusalKept == formatted

\* is_formatted after a format that failed, in sim_format_().
AfterRefusal == FALSE

\* parse_filesystem_size() refuses the argument.
FormatRefused ==
    /\ Scans
    /\ formatted' = AfterRefusal
    /\ UNCHANGED <<host, sb, open, i, torn, placeVars, at, script, stale, kills>>

\* The file cannot be opened; filesystem is NULL.
FormatCannotOpen ==
    /\ Scans
    /\ open' = FALSE /\ formatted' = AfterRefusal
    /\ UNCHANGED <<host, sb, i, torn, placeVars, at, script, stale, kills>>

\* fopen(path, "wb+") empties the file.  The size is what will be written.
FormatOpens ==
    /\ Scans
    /\ \E mb \in FsSizes : sb' = mb
    /\ host' = [NoFile EXCEPT !.exists = TRUE]
    /\ open' = TRUE /\ torn' = TRUE
    /\ at' = "superblock"
    /\ UNCHANGED <<formatted, i, placeVars, script, stale, kills>>

WriteSuperblock ==
    /\ at = "superblock"
    /\ host' = [host EXCEPT !.size = sb, !.bytes = SuperblockSize]
    /\ at' = "bm_inodes" /\ i' = 0
    /\ UNCHANGED <<sb, open, formatted, torn, placeVars, script, stale, input, kills>>

\* Faulty: every turn writes all that the cache holds.
BatchFull(total, capacity) == capacity

\* Records written by turn i of 'for (i = 0; i <= loops; ++i)'.
BatchOf(total, capacity) ==
    IF i < total \div capacity THEN capacity ELSE total % capacity

\* One turn, and on to the next part after the last.
WriteBatch(total, capacity, recordSize, next) ==
    /\ host' = [host EXCEPT
                  !.bytes = @ + BatchOf(total, capacity) * recordSize,
                  !.ids = @ /\ (at = "inodes" =>
                       host.bytes = SeekInode(BlockCnt(sb), FirstId(BlockCnt(sb), i)))]
    /\ IF i < total \div capacity THEN i' = i + 1 /\ UNCHANGED at
                                  ELSE i' = 0 /\ at' = next
    /\ UNCHANGED <<sb, open, formatted, torn, placeVars, script, stale, input, kills>>

WritePart ==
    LET n == BlockCnt(sb)
        remaining == Bytes(sb) - (host.bytes - i * CacheSize)
    IN  \/ at = "bm_inodes" /\ WriteBatch(n, CacheSize, 1, "bm_data")
        \/ at = "bm_data" /\ WriteBatch(n, CacheSize, 1, "inodes")
        \/ at = "inodes" /\ WriteBatch(n, InodesInCache, InodeSize, "blocks")
        \/ at = "blocks" /\ WriteBatch(remaining, CacheSize, 1, "root")

\* Faulty: the prompt is not made anew.
PromptAsBefore == pwd

\* What init_prompt() makes of buff_pwd.
PromptOfRoot == AtTheRoot

\* init_root(), and the prompt of sim_format_().
WriteRoot ==
    /\ at = "root"
    /\ host' = [host EXCEPT !.root = TRUE]
    /\ torn' = FALSE /\ formatted' = TRUE
    /\ cwd' = <<>> /\ pwd' = PromptOfRoot /\ moved' = FALSE
    /\ at' = "prompt"
    /\ UNCHANGED <<sb, open, i, pathVars, script, stale, input, kills>>

Format == WriteSuperblock \/ WritePart \/ WriteRoot

------------------------------------------------------------------------------
(* The other commands                                                      *)

\* help, a command that is not known or not allowed yet, and those that leave
\* what is modelled here alone.
OtherCommand ==
    /\ Scans
    /\ UNCHANGED <<hostVars, placeVars, at, script, stale, kills>>

\* sim_exit(): close_filesystem() and the end of the loop.
Exit ==
    /\ Scans
    /\ at' = "off"
    /\ UNCHANGED <<hostVars, placeVars, script, stale, kills>>

\* A command from the prompt of a formatted filesystem, or from a script.
Runs ==
    \/ Scans /\ formatted
    \/ at = "script" /\ UNCHANGED input

Cd ==
    /\ Runs
    /\ \E d \in Directories \union {<<>>} : cwd' = d /\ ClimbFrom(d)
    /\ at' = "climb"
    /\ UNCHANGED <<hostVars, pwd, moved, script, stale, kills>>

\* get_path_to_root() for the prompt of cd.
CdClimbs ==
    /\ at = "climb" /\ Climb
    /\ UNCHANGED <<hostVars, cwd, pwd, moved, at, script, stale, input, kills>>

CdPrompts ==
    /\ at = "climb" /\ climb # "up"
    /\ pwd' = [dir |-> cwd, text |-> climb]
    /\ moved' = FALSE
    /\ at' = IF script THEN "script" ELSE "prompt"
    /\ PathIdle
    /\ UNCHANGED <<hostVars, cwd, script, stale, input, kills>>

\* mv renames or moves a directory above the current one, or fsck gives one that
\* corrupt cut off a record in lost+found; nothing tells buff_pwd.
MoveAbove ==
    /\ Runs
    /\ cwd # <<>>
    /\ \E d \in Directories : cwd' = d
    /\ moved' = TRUE
    /\ UNCHANGED <<hostVars, pathVars, pwd, at, script, stale, kills>>

\* load opens a script.  Its lines are other commands; those that format, end
\* the program or load again are refused.
Load ==
    /\ Scans /\ formatted
    /\ at' = "script" /\ script' = TRUE
    /\ UNCHANGED <<hostVars, placeVars, stale, kills>>

ScriptEnds ==
    /\ at = "script"
    /\ at' = "prompt" /\ script' = FALSE
    /\ UNCHANGED <<hostVars, placeVars, stale, input, kills>>

\* SIGINT: close_filesystem() writes what is buffered, and the process ends.
Kill ==
    /\ at # "off" /\ kills < MaxKills
    /\ at' = "off" /\ kills' = kills + 1
    /\ UNCHANGED <<hostVars, placeVars, script, stale, input>>

Next ==
    \/ Launch \/ FullLine \/ LongLine \/ ShortLineRefused \/ NextLineDiscarded
    \/ FormatRefused \/ FormatCannotOpen \/ FormatOpens \/ Format
    \/ OtherCommand \/ Exit \/ Cd \/ CdClimbs \/ CdPrompts \/ MoveAbove
    \/ Load \/ ScriptEnds \/ Kill

Spec == Init /\ [][Next]_vars

------------------------------------------------------------------------------
\* After a completed format, whatever failed formats, restarts and kills came
\* later, a filesystem that counts as formatted is open, its cached superblock
\* is the one in the file, and every address the seeks of fs_io.c compute for
\* an index or an id is inside the part it belongs to and inside the file.
SeeksInside ==
    at = "prompt" /\ formatted /\ ~torn =>
        LET n == BlockCnt(sb)
        IN  /\ open /\ sb = host.size
            /\ SeekBmInode(n - 1) < SeekBmData(n, 0)
            /\ SeekBmData(n, n - 1) < SeekInode(n, 1)
            /\ SeekInode(n, n) + InodeSize <= SeekData(n, 1)
            /\ SeekData(n, n) + FsBlockSize <= host.bytes

\* A completed format wrote the whole of the size it was asked for, in batches
\* that add up, its root, and every inode where its id says.
FormatIsWhole ==
    host.exists /\ ~torn =>
        host.bytes = Bytes(host.size) /\ host.ids /\ host.root

\* The prompt and pwd tell the current directory, unless it was moved since.
PromptIsCwd ==
    at = "prompt" /\ formatted /\ ~moved => pwd.dir = cwd

\* "prevent overflowing input, so it doesn't go to next cycle"
\* (src/simulator.c:30): a line that fits is scanned.
ShortLinesHeard ==
    input.line = "short" => input.scanned
=============================================================================
