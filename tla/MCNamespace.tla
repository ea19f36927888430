---------------------------- MODULE MCNamespace ----------------------------
(***************************************************************************)
(* Small instances of Namespace for TLC.                                   *)
(***************************************************************************)
EXTENDS Namespace

\* State constraint: the search stops where a record dangles or a path leads
\* out of the tree, where the properties that need Sound and Charted say
\* nothing any more.
Untangled == Sound /\ Charted

\* ... or where two directories hang elsewhere than their ".." tells, or one and
\* the current directory is not the root.
Moved == {i \in Inodes \ {RootId} :
            itype[i] = "dirc" /\ \E p \in Inodes \ {dir[i][2].id} : i \in Targets(p)}
UntangledOneMoved ==
    Untangled /\ Cardinality(Moved) <= (IF cwd = RootId THEN 1 ELSE 0)

\* The entries of the abstract tree: the records of inodes in use, but in the
\* middle of mv the old record does not count any more.
TreeEntries ==
    {[par |-> r.par, name |-> r.name, id |-> r.id, type |-> itype[r.id]] :
        r \in {[par |-> q[1], name |-> dir[q[1]][q[2]].name, id |-> dir[q[1]][q[2]].id] :
                  q \in {p \in Inodes \X (1 .. MaxItems) : p[2] \in Ordinary(dir[p[1]])}}
              \ (IF op.at = "unlink"
                 THEN {[par |-> op.par, name |-> op.name, id |-> op.child]} ELSE {})}

T == INSTANCE Tree WITH Items <- Inodes, Root <- RootId, entries <- TreeEntries

\* In ordinary use, whatever the order of commands, mkdir, incp, cp, rm, rmdir
\* and mv implement the tree, each by one of its writes.
ImplementsTree == T!Spec
=============================================================================
