------------------------------ MODULE Namespace ------------------------------
(***************************************************************************)
(* The directory records and the commands that read and write them:        *)
(* mkdir, rmdir, rm, mv, cp, incp, cd, fsck and corrupt (src/commands),    *)
(* with fs_inode_utils.c and the record functions of fs_block_op.c.        *)
(*                                                                         *)
(* A path is represented by what it resolves to: the inode its directory   *)
(* part leads to and its last name.  Blocks are not counted: a request for *)
(* one may fail at any time.  The steps of a command between which a kill  *)
(* leaves different records are separate actions.                          *)
(***************************************************************************)
EXTENDS Integers, Sequences, FiniteSetsExt, TLC

CONSTANTS InodeCount,  \* inodes (a bound: the format makes as many as blocks)
          Names,       \* item names the user gives
          DirItems,    \* sb.count_dir_items, records in one block
          MaxItems,    \* records a directory can hold
          Unusual      \* what the user and the machine do in a run, see Kinds

\* moving "." or ".."; moving a directory; files of size 0; no block or inode
\* left; a file used as a directory; incp into a directory that does not exist;
\* removing the current directory; commands from a script; a kill; 'corrupt';
\* files whose bytes read as directory records.
Kinds == {"mvdot", "mvdir", "empty", "nospace", "infile", "nodir", "rmcwd",
          "load", "kill", "corrupt", "data"}

ASSUME NamespaceAssumption ==
    /\ InodeCount \in Nat \ {0}
    /\ DirItems \in Nat /\ DirItems >= 2
    /\ MaxItems \in Nat /\ MaxItems >= DirItems
    /\ Unusual \subseteq Kinds

\* basename() returns no empty name.  "." and ".." are new names only in what is
\* no directory any more, or after mv of them: not modelled.
ASSUME NamesAssumption == Names \intersect {"", ".", ".."} = {}

Inodes == 1 .. InodeCount
RootId == 1
NoInode == 0
Dot == "."
DotDot == ".."
LostFound == "lost+found"

VARIABLES
    itype,    \* inode_type of each inode in the filesystem file
    ibm,      \* inode bitmap: TRUE is a free inode
    dir,      \* the records in the blocks of each inode
    void,     \* the inodes with file_size 0
    cwd,      \* inode_actual.id_inode
    err,      \* my_errno is set
    op        \* the command in progress

vars == <<itype, ibm, dir, void, cwd, err, op>>

EmptyItem == [name |-> "", id |-> NoInode]
Item(n, i) == [name |-> n, id |-> i]
EmptyItems(n) == [k \in 1 .. n |-> EmptyItem]
NewDirItems(self, parent) ==
    <<Item(Dot, self), Item(DotDot, parent)>> \o EmptyItems(DirItems - 2)

\* child: the inode created, moved, removed or looked for; par and name: the
\* record to write or to delete; kept: records of the child as the process
\* holds them in memory; lost: inodes fsck has still to save.
Begin(at, cmd, child, name, par) ==
    [at |-> at, cmd |-> cmd, child |-> child, name |-> name, par |-> par,
     kept |-> <<>>, lost |-> {}]

Idle == Begin("idle", "", NoInode, "", NoInode)

Init ==
    /\ itype = [i \in Inodes |-> IF i = RootId THEN "dirc" ELSE "free"]
    /\ ibm = [i \in Inodes |-> i # RootId]
    /\ dir = [i \in Inodes |->
                IF i = RootId THEN NewDirItems(RootId, RootId) ELSE <<>>]
    /\ void = Inodes \ {RootId}
    /\ cwd = RootId
    /\ err = FALSE
    /\ op = Idle

------------------------------------------------------------------------------
(* Records and paths.                                                       *)

Named(d, n) == {k \in DOMAIN d : d[k].name = n}

\* Faulty: the search for a name stops at the first free record.
HasBeforeFree(d, n) ==
    \E k \in Named(d, n) : \A m \in DOMAIN d : m < k => d[m].id # NoInode

\* search_block_inode_id(): the first record with the name.
Has(d, n) == Named(d, n) # {}
IdOf(d, n) == d[Min(Named(d, n))].id

\* search_block_inode_name(): the inode has some record in the directory.
HasId(d, i) == \E k \in DOMAIN d : d[k].id = i

Places(d) == {k \in DOMAIN d : d[k].id = NoInode}
HasPlace(d) == Places(d) # {}

\* add_block_item(): the first record that names no inode is overwritten.
Added(d, r) == [d EXCEPT ![Min(Places(d))] = r]

\* Faulty: the last link is thought free when it is not.
CanGrowPast(d) == Len(d) <= MaxItems

\* add_to_parent(), when every record is taken and a block can be had.
CanGrow(d) == Len(d) + DirItems <= MaxItems
Grown(d, r) == d \o <<r>> \o EmptyItems(DirItems - 1)

\* delete_block_item(): the first record with that inode and that name.
Matches(d, r) == {k \in DOMAIN d : d[k] = r}
Deleted(d, r) ==
    IF Matches(d, r) = {} THEN d ELSE [d EXCEPT ![Min(Matches(d, r))] = EmptyItem]

Ordinary(d) == {k \in DOMAIN d : d[k].name \notin {"", Dot, DotDot}}

\* Faulty: a directory with one item counts as empty.
AlmostEmpty(d) == Cardinality(Ordinary(d)) <= 1

\* is_directory_empty()
IsEmpty(d) == Ordinary(d) = {}

Entries(S) == (UNION {{dir[i][k].id : k \in DOMAIN dir[i]} : i \in S}) \ {NoInode}

\* Inodes a path can lead through, from those in S: get_inode_ids() follows any
\* record of any inode, whatever its type.
Walk(S) ==
    LET W[k \in 0 .. InodeCount] ==
          IF k = 0 THEN S ELSE LET w == W[k - 1] IN w \union Entries(w)
    IN  Inodes \intersect W[InodeCount]

\* The directory part of a path, as the last component is looked up in it ...
Walked == Walk({RootId, cwd})
\* ... and as it is looked up itself: a bare name is taken to be in ".".
DirPaths == Walk({RootId} \union Entries({cwd}))

NamesIn(i) == Names \union ({dir[i][k].name : k \in DOMAIN dir[i]} \ {""})

\* What a path to an existing item resolves to.
Found ==
    {f \in {[par |-> p, name |-> n, id |-> IF Has(dir[p], n) THEN IdOf(dir[p], n) ELSE NoInode] :
                p \in Walked, n \in UNION {NamesIn(i) : i \in Walked}} :
        f.id # NoInode}

\* The destination of cp and mv for an item called n: an item that exists, or
\* a new name in a directory that does.
Dests(n) ==
    {[par |-> f.id, name |-> n] : f \in Found}
    \union {[par |-> RootId, name |-> n]}
    \union {t \in [par : DirPaths, name : Names] : ~Has(dir[t.par], t.name)}

FirstFree(i) == ibm[i] /\ \A j \in Inodes : j < i => ~ibm[j]

\* my_errno once a command has failed: run() clears it, sim_load() does not.
AfterFailure == IF "load" \in Unusual THEN BOOLEAN ELSE {FALSE}

\* Any command may be refused.
Refuse ==
    /\ op.at = "idle"
    /\ err' \in AfterFailure
    /\ UNCHANGED <<itype, ibm, dir, void, cwd, op>>

------------------------------------------------------------------------------
(* Creating: the inode first, its record second.                            *)

\* The inode, as free_inode() leaves it.
Freed(i) ==
    /\ itype' = [itype EXCEPT ![i] = "free"]
    /\ ibm' = [ibm EXCEPT ![i] = TRUE]
    /\ dir' = [dir EXCEPT ![i] = <<>>]
    /\ void' = void \union {i}

\* allocate_bitmap_field_inode(), and the command that goes on to 'add'.
TakeInode(i, cmd, name, par) ==
    /\ FirstFree(i)
    /\ ibm' = [ibm EXCEPT ![i] = FALSE]
    /\ op' = [Begin("add", cmd, i, name, par) EXCEPT !.kept = dir[i]]

\* Faulty: the ".." of a new directory is the current directory.
NewDirectoryInCwd(i, parent) ==
    /\ itype' = [itype EXCEPT ![i] = "dirc"]
    /\ dir' = [dir EXCEPT ![i] = NewDirItems(i, cwd)]
    /\ void' = void \ {i}

\* create_inode_directory(): the first block is new, other links are kept.
NewDirectory(i, parent) ==
    /\ itype' = [itype EXCEPT ![i] = "dirc"]
    /\ dir' = [dir EXCEPT ![i] =
                 NewDirItems(i, parent) \o SubSeq(dir[i], DirItems + 1, Len(dir[i]))]
    /\ void' = void \ {i}

HasSpace(d) == CanGrow(d) \/ Has(d, "")

MayBeParent(p) == itype[p] = "file" => "infile" \in Unusual

\* mkdir.  Without an inode or a block create_inode_directory() returns 0,
\* which is not the RETURN_FAILURE that mkdir tests for.
StartMkdir ==
    /\ op.at = "idle"
    /\ \E p \in DirPaths, n \in Names :
         /\ ~Has(dir[p], n)
         /\ HasSpace(dir[p])
         /\ MayBeParent(p)
         /\ \/ /\ \E i \in Inodes : TakeInode(i, "mkdir", n, p) /\ NewDirectory(i, p)
               /\ UNCHANGED err
            \/ /\ "nospace" \in Unusual
               /\ op' = Begin("add", "mkdir", NoInode, n, p)
               /\ err' = TRUE
               /\ UNCHANGED <<itype, ibm, dir, void>>
    /\ UNCHANGED cwd

\* cp.  An error left by an earlier command is taken for its own.
StartCopy ==
    /\ op.at = "idle" /\ ~err
    /\ \E f \in Found :
         /\ itype[f.id] = "file"
         /\ f.id \in void => "empty" \in Unusual
         /\ \E t \in Dests(f.name), i \in Inodes :
              /\ itype[t.par] # "file" /\ ~Has(dir[t.par], t.name)
              /\ TakeInode(i, IF f.id \in void THEN "cp0" ELSE "cp", t.name, t.par)
              /\ itype' = [itype EXCEPT ![i] = "file"]
    /\ UNCHANGED <<dir, void, cwd, err>>

\* The paths of a new file: incp looks it up by its whole path, but its record
\* goes to the directory part.  That of a bare name is ".", whatever "." names.
BareName ==
    IF Has(dir[cwd], Dot)
    THEN {[at |-> cwd, par |-> i] : i \in {IdOf(dir[cwd], Dot)} \ {NoInode}}
    ELSE {}
NewFilePaths == {[at |-> p, par |-> p] : p \in DirPaths} \union BareName

\* incp under a new name: the directory is looked up after the file is made.
StartIncp ==
    /\ op.at = "idle" /\ ~err
    /\ \E t \in NewFilePaths, n \in Names, cmd \in {"incp", "incp0"} :
         /\ cmd = "incp0" => "empty" \in Unusual
         /\ ~Has(dir[t.at], n)
         /\ MayBeParent(t.par)
         /\ \E i \in Inodes :
              /\ TakeInode(i, cmd, n, t.par)
              /\ itype' = [itype EXCEPT ![i] = "file"]
    /\ UNCHANGED <<dir, void, cwd, err>>

\* ... and may not be found, which leaves the new file without a record.
IncpNowhere ==
    /\ op.at = "idle" /\ ~err
    /\ "nodir" \in Unusual \/ BareName = {}
    /\ \E i \in Inodes :
         /\ FirstFree(i)
         /\ ibm' = [ibm EXCEPT ![i] = FALSE]
         /\ itype' = [itype EXCEPT ![i] = "file"]
    /\ err' \in AfterFailure
    /\ UNCHANGED <<dir, void, cwd, op>>

\* incp over a file; the data may run over records written into its blocks.
IncpOver ==
    /\ op.at = "idle" /\ ~err
    /\ \E f \in Found : \E d \in {dir[f.id], <<>>}, v \in {void \union {f.id}, void \ {f.id}} :
         /\ itype[f.id] = "file"
         /\ f.id \in v => "empty" \in Unusual
         /\ dir' = [dir EXCEPT ![f.id] = d]
         /\ void' = v
    /\ UNCHANGED <<itype, ibm, cwd, err, op>>

\* The records of the parent, as the command holds its inode.  mkdir and cp
\* read it before they make the child, which may be the same free inode.
ParentDir == IF op.par = op.child THEN op.kept ELSE dir[op.par]
NewItem == Item(op.name, op.child)

\* The record goes into a block the parent has; a directory made in place of
\* its own parent does not have that block any more.
AddedInPlace ==
    /\ HasPlace(ParentDir)
    /\ dir' = IF op.cmd = "mkdir" /\ op.par = op.child THEN dir
              ELSE [dir EXCEPT ![op.par] = Added(ParentDir, NewItem)]
    /\ UNCHANGED itype

\* The parent gets a block more and its inode is written as it was read; cp
\* and incp then write the inode they made, as it was before.
AddedInNewBlock ==
    /\ ~HasPlace(ParentDir) /\ CanGrow(ParentDir)
    /\ dir' = IF op.cmd # "mkdir" /\ op.par = op.child THEN dir
              ELSE [dir EXCEPT ![op.par] = Grown(ParentDir, NewItem)]
    /\ itype' = IF op.cmd = "mkdir" /\ op.par = op.child
                THEN [itype EXCEPT ![op.par] = "free"] ELSE itype

\* add_to_parent() succeeds; cp and incp copy the data and write the size.
AddRecord ==
    /\ op.at = "add" /\ op.cmd # "cp0"
    /\ AddedInPlace \/ AddedInNewBlock
    /\ void' = IF op.cmd \in {"cp", "incp"} THEN void \ {op.child} ELSE void
    /\ err' = (err /\ op.cmd = "mkdir")
    /\ op' = Idle
    /\ UNCHANGED <<ibm, cwd>>

\* copy_data() of an empty file reports failure, and cp frees the file it made
\* but not the record.
CopyNothing ==
    /\ op.at = "add" /\ op.cmd = "cp0"
    /\ HasPlace(ParentDir) \/ CanGrow(ParentDir)
    /\ itype' = [itype EXCEPT ![op.child] = "free"]
    /\ ibm' = [ibm EXCEPT ![op.child] = TRUE]
    /\ dir' = [dir EXCEPT ![op.par] = IF HasPlace(ParentDir) THEN Added(ParentDir, NewItem)
                                     ELSE Grown(ParentDir, NewItem),
                          ![op.child] = <<>>]
    /\ err' \in AfterFailure
    /\ op' = Idle
    /\ UNCHANGED <<void, cwd>>

\* add_to_parent() fails.  mkdir and cp free what they made; incp calls
\* free_inode_directory() on a file, which refuses.
AddFails ==
    /\ op.at = "add"
    /\ ~HasPlace(ParentDir)
    /\ ~CanGrow(ParentDir) \/ "nospace" \in Unusual
    /\ IF op.cmd \in {"incp", "incp0"} \/ op.child = NoInode
       THEN UNCHANGED <<itype, ibm, dir, void>>
       ELSE Freed(op.child)
    /\ err' \in AfterFailure
    /\ op' = Idle
    /\ UNCHANGED cwd

------------------------------------------------------------------------------
(* Removing: the record first, the inode second.                            *)

StartRm ==
    /\ op.at = "idle"
    /\ \E f \in Found :
         /\ itype[f.id] = "file"
         /\ dir' = [dir EXCEPT ![f.par] = Deleted(@, Item(f.name, f.id))]
         /\ op' = Begin("free", "rm", f.id, "", NoInode)
    /\ UNCHANGED <<itype, ibm, void, cwd, err>>

\* The current directory is not exempt.
StartRmdir ==
    /\ op.at = "idle"
    /\ \E f \in Found :
         /\ f.name \notin {Dot, DotDot}
         /\ itype[f.id] = "dirc" /\ IsEmpty(dir[f.id])
         /\ f.id = cwd => "rmcwd" \in Unusual
         /\ dir' = [dir EXCEPT ![f.par] = Deleted(@, Item(f.name, f.id))]
         /\ op' = Begin("free", "rmdir", f.id, "", NoInode)
    /\ UNCHANGED <<itype, ibm, void, cwd, err>>

FreeInode ==
    /\ op.at = "free"
    /\ Freed(op.child)
    /\ op' = Idle
    /\ UNCHANGED <<cwd, err>>

------------------------------------------------------------------------------
(* mv, cd and corrupt.                                                      *)

MayMove(f) ==
    /\ f.name \in {Dot, DotDot} => "mvdot" \in Unusual
    /\ itype[f.id] = "dirc" /\ f.name \notin {Dot, DotDot} => "mvdir" \in Unusual

\* Faulty: the old record is deleted before the new one is written.
StartMvDeletes ==
    /\ op.at = "idle"
    /\ \E f \in {g \in Found : MayMove(g)} : \E t \in Dests(f.name) :
         /\ itype[t.par] # "file" /\ ~Has(dir[t.par], t.name)
         /\ dir' = [dir EXCEPT ![f.par] = Deleted(@, Item(f.name, f.id))]
         /\ op' = Begin("add", "mv", f.id, t.name, t.par)
    /\ UNCHANGED <<itype, ibm, void, cwd, err>>

\* mv checks its destination and adds the record there ...
StartMv ==
    /\ op.at = "idle"
    /\ \E f \in {g \in Found : MayMove(g)} : \E t \in Dests(f.name) :
         /\ itype[t.par] # "file" /\ ~Has(dir[t.par], t.name)
         /\ \/ /\ HasPlace(dir[t.par])
               /\ dir' = [dir EXCEPT ![t.par] = Added(@, Item(t.name, f.id))]
            \/ /\ ~HasPlace(dir[t.par]) /\ CanGrow(dir[t.par])
               /\ dir' = [dir EXCEPT ![t.par] = Grown(@, Item(t.name, f.id))]
         /\ op' = Begin("unlink", "mv", f.id, f.name, f.par)
    /\ UNCHANGED <<itype, ibm, void, cwd, err>>

\* ... then deletes the old one.  The ".." of a moved directory stays.
Unlink ==
    /\ op.at = "unlink"
    /\ dir' = [dir EXCEPT ![op.par] = Deleted(@, Item(op.name, op.child))]
    /\ err' = FALSE
    /\ op' = Idle
    /\ UNCHANGED <<itype, ibm, void, cwd>>

\* get_path_to_root(), which cd calls for the prompt: it climbs by the second
\* record of each directory.  "cut": the buffer is full before it is done.
ClimbFrom(i) ==
    LET C[k \in 0 .. InodeCount] ==
          [j \in Inodes |->
             IF j = RootId THEN "root"
             ELSE IF k = 0 THEN "cut"
             ELSE IF Len(dir[j]) < 2 \/ dir[j][2].id = NoInode THEN "junk"
             ELSE IF ~HasId(dir[dir[j][2].id], j) THEN "lost"
             ELSE C[k - 1][dir[j][2].id]]
    IN  C[InodeCount][i]

Cd ==
    /\ op.at = "idle"
    /\ \E i \in {RootId} \union {f.id : f \in Found} :
         /\ itype[i] = "dirc"
         /\ cwd' = i
         /\ \/ ClimbFrom(i) \in {"lost", "junk"} /\ err' = TRUE
            \/ ClimbFrom(i) # "lost" /\ err' = err
    /\ UNCHANGED <<itype, ibm, dir, void, op>>

\* At most one record of each directory.
Corrupt ==
    /\ op.at = "idle"
    /\ "corrupt" \in Unusual
    /\ \E S \in SUBSET {i \in Inodes : itype[i] = "dirc" /\ Ordinary(dir[i]) # {}} :
       \E hit \in [S -> 1 .. MaxItems] :
         /\ \A i \in S : hit[i] \in Ordinary(dir[i])
         /\ dir' = [i \in Inodes |-> IF i \in S THEN [dir[i] EXCEPT ![hit[i]] = EmptyItem]
                                     ELSE dir[i]]
    /\ UNCHANGED <<itype, ibm, void, cwd, err, op>>

------------------------------------------------------------------------------
(* fsck.                                                                    *)

InUse == {i \in Inodes : itype[i] # "free"}

\* filter_correct_ids(): the inodes met below i, descending into directories.
Targets(i) == {dir[i][k].id : k \in Ordinary(dir[i])}

Seen(i) ==
    LET S[k \in 0 .. InodeCount] ==
          IF k = 0 THEN Targets(i)
          ELSE LET s == S[k - 1]
               IN  s \union UNION {Targets(j) : j \in {h \in s : h # NoInode /\ itype[h] = "dirc"}}
    IN  S[InodeCount]

\* It keeps no set of visited inodes: below a directory that is met below
\* itself it does not stop.
Loops(i) == \E j \in Seen(i) \ {NoInode} : itype[j] = "dirc" /\ j \in Seen(j)

\* How many records it meets: 'active' is decremented for each of them.
Meetings(i) ==
    LET M[k \in 0 .. InodeCount] ==
          LET m == IF k = 0 THEN [j \in Inodes |-> 0] ELSE M[k - 1]
              Below(r) == IF itype[r.id] = "dirc" THEN m[r.id] ELSE 0
          IN  [j \in Inodes |->
                 MapThenSumSet(LAMBDA p : 1 + Below(dir[j][p]), Ordinary(dir[j]))]
    IN  M[InodeCount][i]

Active == Cardinality(InUse \ {RootId}) - Meetings(RootId)

\* load_inode_ids() without what the search from the root meets ...
Marked == InUse \ ({RootId} \union Seen(RootId))

\* The search does not look at the type of an inode still marked: the data of a
\* lost file is read as records too.  junk: the ids they name.
LostFiles ==
    IF "data" \in Unusual THEN {i \in Marked \ void : itype[i] = "file"} ELSE {}
Junk == [LostFiles -> SUBSET Inodes]

DirectoriesIn(S) == {j \in S : itype[j] = "dirc"}

MetBelow(i, junk) ==
    IF i \in DOMAIN junk
    THEN Seen(i) \union junk[i] \union UNION {Seen(j) : j \in DirectoriesIn(junk[i])}
    ELSE Seen(i)

\* Faulty: what lies below a lost directory is saved as well.
TrulyLostAll(junk) == Marked

\* ... and, inode by inode, without what is met below one still marked.
TrulyLost(junk) ==
    LET L[i \in 0 .. InodeCount] ==
          IF i = 0 THEN Marked
          ELSE LET l == L[i - 1] IN IF i \in l THEN l \ MetBelow(i, junk) ELSE l
    IN  Marked \intersect L[InodeCount]

\* A record of inode 0 makes the search write outside its array: not modelled.
FsckDefined == \A i \in Inodes : NoInode \notin Targets(i)
FsckReturns == ~Loops(RootId) /\ (Active > 0 => \A i \in Marked : ~Loops(i))

\* What lost files may hold such that the search returns.
Harmless ==
    {junk \in Junk : \A i \in LostFiles : \A j \in DirectoriesIn(junk[i]) :
                       j \notin Seen(j) /\ ~Loops(j)}

\* No inode is active any more: "Filesystem status is OK".
FsckFindsNothing ==
    /\ op.at = "idle"
    /\ FsckDefined /\ ~Loops(RootId)
    /\ Active <= 0
    /\ UNCHANGED vars

\* lost+found is looked up from the current directory, and created in the root.
FsckFindsLost ==
    /\ op.at = "idle"
    /\ FsckDefined /\ FsckReturns
    /\ Active > 0
    /\ \/ /\ Has(dir[cwd], LostFound)
          /\ IdOf(dir[cwd], LostFound) # NoInode
          /\ \E junk \in Harmless :
               op' = [Begin("rescue", "fsck", NoInode, "", IdOf(dir[cwd], LostFound))
                        EXCEPT !.lost = TrulyLost(junk)]
          /\ UNCHANGED <<itype, ibm, dir, void, err>>
       \/ /\ ~Has(dir[cwd], LostFound)
          /\ \E i \in Inodes :
               /\ FirstFree(i)
               /\ ibm' = [ibm EXCEPT ![i] = FALSE]
               /\ itype' = [itype EXCEPT ![i] = "dirc"]
               /\ LET root == dir[RootId]
                      item == Item(LostFound, i)
                  IN  /\ HasPlace(root) \/ CanGrow(root)
                      /\ dir' = [dir EXCEPT ![i] = NewDirItems(i, RootId)
                                              \o SubSeq(dir[i], DirItems + 1, Len(dir[i])),
                                            ![RootId] = IF HasPlace(root) THEN Added(root, item)
                                                        ELSE Grown(root, item)]
               /\ void' = void \ {i}
               /\ \E junk \in Harmless :
                    op' = [Begin("rescue", "fsck", NoInode, "", i) EXCEPT !.lost = TrulyLost(junk)]
          /\ err' = TRUE
    /\ UNCHANGED cwd

\* Without an inode or a block for lost+found, its record in the root names no
\* inode, as for mkdir; nothing can be saved in it.
FsckFindsNoSpace ==
    /\ op.at = "idle" /\ "nospace" \in Unusual
    /\ FsckDefined /\ FsckReturns
    /\ Active > 0 /\ ~Has(dir[cwd], LostFound) /\ HasPlace(dir[RootId])
    /\ dir' = [dir EXCEPT ![RootId] = Added(@, Item(LostFound, NoInode))]
    /\ \E junk \in Harmless :
         err' \in IF TrulyLost(junk) = {} THEN {TRUE} ELSE AfterFailure
    /\ UNCHANGED <<itype, ibm, void, cwd, op>>

\* generete_name() draws eleven characters; here one name for each inode, which
\* no item of the user's has.
RescueName(i) == "lost" \o ToString(i)

ASSUME RescueAssumption == \A i \in Inodes : RescueName(i) \notin Names \union {Dot}

\* save_lost_inodes() gives the next lost inode a record in lost+found.
Rescue ==
    /\ op.at = "rescue" /\ op.lost # {}
    /\ LET i == Min(op.lost)
           d == dir[op.par]
       IN  /\ HasPlace(d) \/ CanGrow(d)
           /\ dir' = [dir EXCEPT ![op.par] = IF HasPlace(d) THEN Added(d, Item(RescueName(i), i))
                                            ELSE Grown(d, Item(RescueName(i), i))]
           /\ op' = [op EXCEPT !.lost = @ \ {i}]
    /\ UNCHANGED <<itype, ibm, void, cwd, err>>

RescueFails ==
    /\ op.at = "rescue" /\ op.lost # {}
    /\ ~HasPlace(dir[op.par])
    /\ ~CanGrow(dir[op.par]) \/ "nospace" \in Unusual
    /\ err' \in AfterFailure
    /\ op' = Idle
    /\ UNCHANGED <<itype, ibm, dir, void, cwd>>

FsckDone ==
    /\ op.at = "rescue" /\ op.lost = {}
    /\ op' = Idle
    /\ UNCHANGED <<itype, ibm, dir, void, cwd, err>>

------------------------------------------------------------------------------
\* The process ends and is started again: the root is the current directory.
Restart == op' = Idle /\ cwd' = RootId /\ err' = FALSE /\ UNCHANGED <<itype, ibm, dir, void>>

Kill == "kill" \in Unusual /\ Restart

\* The search of fsck does not stop until its stack or the memory runs out.
FsckOverflows == op.at = "idle" /\ FsckDefined /\ ~FsckReturns /\ Restart

\* The data of a lost file names an inode that is none, far outside the search's
\* arrays, or makes it not stop: the process ends.
FsckMisreads ==
    /\ op.at = "idle" /\ FsckDefined /\ FsckReturns
    /\ Active > 0 /\ LostFiles # {}
    /\ Restart

Next ==
    \/ StartMkdir \/ StartCopy \/ StartIncp \/ IncpNowhere \/ IncpOver
    \/ AddRecord \/ CopyNothing \/ AddFails
    \/ StartRm \/ StartRmdir \/ FreeInode
    \/ StartMv \/ Unlink \/ Cd \/ Corrupt
    \/ FsckFindsNothing \/ FsckFindsLost \/ FsckFindsNoSpace
    \/ Rescue \/ RescueFails \/ FsckDone
    \/ FsckOverflows \/ FsckMisreads \/ Kill \/ Refuse

Spec == Init /\ [][Next]_vars

------------------------------------------------------------------------------
(* Properties.                                                              *)

Without(K) == Unusual \cap K = {}

TypeOK ==
    /\ itype \in [Inodes -> {"free", "file", "dirc"}]
    /\ ibm \in [Inodes -> BOOLEAN]
    /\ \A i \in Inodes :
         /\ Len(dir[i]) <= MaxItems
         /\ \A k \in DOMAIN dir[i] : dir[i][k].id \in Inodes \union {NoInode}
    /\ void \subseteq Inodes
    /\ cwd \in Inodes /\ err \in BOOLEAN
    /\ op.child \in Inodes \union {NoInode} /\ op.par \in Inodes \union {NoInode}

\* The places where an ordinary record names inode i.
RecordsOf(i) ==
    {q \in Inodes \X (1 .. MaxItems) :
        q[2] \in Ordinary(dir[q[1]]) /\ dir[q[1]][q[2]].id = i}

\* Every record is held by a directory and names an inode in use.
Sound ==
    \A i \in Inodes :
        /\ Targets(i) \subseteq InUse
        /\ itype[i] # "dirc" => Targets(i) = {}

\* Between commands, when nothing unusual happens, the inodes in use form a
\* tree: each has one record, below the root, the ".." of a directory names the
\* directory that holds its record, and no record names a free inode.
TreeWhole ==
    Unusual = {} /\ op.at = "idle" =>
        /\ \A i \in InUse \ {RootId} :
             /\ Cardinality(RecordsOf(i)) = 1 /\ i \in Seen(RootId)
             /\ itype[i] = "dirc" =>
                  \A r \in RecordsOf(i) : itype[r[1]] = "dirc" /\ dir[i][2] = Item(DotDot, r[1])
        /\ Sound

\* In ordinary use no error is left for a later cp or incp to take for its own
\* (my_errno is global and only some commands clear it).
NoErrorLeft == Unusual = {} /\ op.at = "idle" => ~err

\* No directory ever holds a name of the user's twice, whatever else the user and
\* the machine do, unless a "." is moved: the checks of mkdir, cp, incp and mv are
\* enough.  (After mv of a "." incp looks a bare name up in one directory and
\* writes it into another.  fsck may add a second lost+found to the root.)
NamesUnique ==
    Without({"mvdot"}) => \A i \in Inodes : \A k, m \in Ordinary(dir[i]) :
        dir[i][k].name \in Names \ {LostFound} /\ dir[i][k].name = dir[i][m].name => k = m

\* Every path leads to an inode of the tree.
Charted == Walked \subseteq {RootId} \union Seen(RootId)

\* As long as no record dangles, no item in use falls out of the tree unless rm
\* or rmdir was given it, or 'corrupt' hit its record: not even when a kill comes
\* in the middle of mv, or what was cut off before is still being used.  (What is
\* being made is not in the tree yet, unless a record dangled to its inode: then
\* what its old blocks name may fall out with it.)
NothingFallsOut ==
    [][ Without({"mvdot", "mvdir"}) /\ Sound /\ Charted
          /\ (op.at = "add" => op.child \notin {RootId} \union Seen(RootId)) =>
          \A i \in InUse \intersect Seen(RootId) :
             \/ i \in Seen(RootId)'
             \/ op'.at = "free" /\ op'.child = i
             \/ Corrupt ]_vars

\* fsck saves all that is lost and no more, when records are missing but none
\* dangles, the root is there, the current directory is not lost itself, no file
\* is called lost+found and no lost file's bytes read as records: it gives a
\* record only to inodes that have none, and with those records every inode in
\* use is in the tree.
FsckSaves ==
    [][ Without({"data"}) /\ op.at = "idle" /\ op'.at = "rescue" /\ Sound /\ Charted
          /\ itype[RootId] = "dirc" /\ itype'[op'.par] = "dirc"
        => /\ op'.par \in Seen(RootId)'
           /\ \A i \in op'.lost : RecordsOf(i) = {}
           /\ InUse' = {RootId} \union Seen(RootId)' \union op'.lost
                        \union UNION {Seen(i)' : i \in op'.lost} ]_vars

\* fsck.c:97: "some inodes are still active == some inodes are lost".
ActiveMeansLost ==
    op.at = "idle" /\ FsckDefined /\ FsckReturns => (Active > 0 <=> Marked # {})

\* rm.c:48: when only the record is deleted, the inode can be retrieved by fsck in
\* lost+found: a search that returns saves every inode that has no record.
RetrievedByFsck ==
    [][ op.at = "idle" /\ op'.at = "rescue" =>
          \A i \in Marked : RecordsOf(i) = {} => i \in op'.lost ]_vars

\* fs_inode_op.c:98: create_inode_directory() "Returns index number of new
\* inode, or 'RETURN_FAILURE'", and mkdir fails when it does.
NoRecordOfNothing == \A i \in Inodes : NoInode \notin Targets(i)
==============================================================================
