-------------------------------- MODULE Tree --------------------------------
(***************************************************************************)
(* What the namespace promises in ordinary use: a tree of directories.     *)
(* Every item hangs below one directory under one name, what is created is *)
(* new, what is removed is a file or an empty directory, and a file that   *)
(* is moved is at no time in two places or in none.                        *)
(***************************************************************************)
CONSTANTS Items, Root

VARIABLE entries    \* [par, name, id, type]: the item id is in par under name

Dirs == {Root} \union {e.id : e \in {f \in entries : f.type = "dirc"}}

Free(p, n) == p \in Dirs /\ \A e \in entries : ~(e.par = p /\ e.name = n)

Init == entries = {}

Create ==
    \E new \in entries' \ entries :
        /\ Free(new.par, new.name)
        /\ new.id \in Items \ ({Root} \union {e.id : e \in entries})
        /\ entries' = entries \union {new}

Remove ==
    \E old \in entries :
        /\ old.type = "dirc" => \A e \in entries : e.par # old.id
        /\ entries' = entries \ {old}

Move ==
    \E old \in entries, new \in entries' :
        /\ old.type = "file"
        /\ Free(new.par, new.name)
        /\ new = [old EXCEPT !.par = new.par, !.name = new.name]
        /\ entries' = (entries \ {old}) \union {new}

Next == Create \/ Remove \/ Move

Spec == Init /\ [][Next]_entries
=============================================================================
