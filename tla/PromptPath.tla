----------------------------- MODULE PromptPath -----------------------------
(***************************************************************************)
(* get_path_to_root() and handle_child_name() of                           *)
(* src/fsop/fs_inode_utils.c: the names of the directories from the        *)
(* current one up to the root are written, each before the last, from the  *)
(* end of a buffer.  A name is its length; what matters is where the       *)
(* pointer into the buffer goes.                                           *)
(***************************************************************************)
EXTENDS Integers, Sequences

CONSTANT Length     \* length_path, the size of the buffer

ASSUME LengthAssumption == Length \in Nat /\ Length > 2

VARIABLES above,    \* lengths of the names on the way up, the last below the root
          k,        \* names written
          room,     \* size_remaining
          start,    \* p_buffer - buffer
          climb     \* "up" while climbing, then what the text is

pathVars == <<above, k, room, start, climb>>

Texts == {"whole", "cut", "unknown"}

PathTypeOK ==
    /\ above \in Seq(Nat \ {0})
    /\ k \in 0 .. Len(above)
    /\ room \in Int /\ start \in Int
    /\ climb \in Texts \union {"up"}

PathInit ==
    /\ above = <<>> /\ k = 0
    /\ room = Length /\ start = Length - 2
    /\ climb = "whole"

\* The locals are gone with the call.
PathIdle ==
    /\ above' = <<>> /\ k' = 0
    /\ room' = Length /\ start' = Length - 2
    /\ climb' = "whole"

\* The call, for a directory 'names' below the root.
ClimbFrom(names) ==
    /\ above' = names /\ k' = 0
    /\ room' = Length /\ start' = Length - 2
    /\ climb' = "up"

\* Faulty: one byte more is asked for.
EnoughAndOne(left, belowRoot) == left > 3 \/ (left >= 0 /\ belowRoot)

\* Faulty: the last name is written whatever is left.
EnoughAtRoot(left, belowRoot) == left > 2 \/ belowRoot

\* "enough space in buffer OR size is completely used, but current inode is root"
Enough(left, belowRoot) == left > 2 \/ (left >= 0 /\ belowRoot)

\* One turn of the loop: the name of the child is found in its parent and
\* written with a separator before it, or ".." is and the loop ends.
WriteName ==
    /\ climb = "up" /\ k < Len(above)
    /\ LET length == above[k + 1]
           left == room - (length + 1)
       IN  /\ room' = left
           /\ IF Enough(left, k + 1 = Len(above))
              THEN start' = start - length - 1 /\ k' = k + 1 /\ UNCHANGED climb
              ELSE start' = start - 2 /\ climb' = "cut" /\ UNCHANGED k
    /\ UNCHANGED above

\* The child has no record in its parent (it is lost): "unknown_path".
NameMissing ==
    /\ climb = "up" /\ k < Len(above)
    /\ climb' = "unknown"
    /\ UNCHANGED <<above, k, room, start>>

\* The root is reached.
AtRoot ==
    /\ climb = "up" /\ k = Len(above)
    /\ climb' = "whole"
    /\ UNCHANGED <<above, k, room, start>>

Climb == WriteName \/ NameMissing \/ AtRoot

------------------------------------------------------------------------------
\* How long the first n names are together, each with its separator.
Lengths(names) ==
    LET text[n \in 0 .. Len(names)] == IF n = 0 THEN 0 ELSE text[n - 1] + names[n] + 1
    IN  text

TextLength == Lengths(above)[Len(above)]

\* A path is cut only when it does not fit the buffer with a terminator, and is
\* written whole only when its characters fit: get_path_to_root() promises ".."
\* "if path would be too long for pwd".
CutExactly ==
    /\ climb = "cut" => TextLength >= Length
    /\ climb = "whole" => TextLength <= Length

\* However long the names, the pointer goes at most two characters before the
\* buffer.  (It does go there: see the README.)
AtMostTwoBefore == start >= -2
=============================================================================
