--------------------------- MODULE MCDirectories ----------------------------
(***************************************************************************)
(* A root with a file, a directory and a reparse point back to the root,   *)
(* and a deeper tree whose size is larger than a Java long.                *)
(***************************************************************************)
EXTENDS Directories

File(name, size) == [name |-> name, kind |-> "file", size |-> size, to |-> None]
Dir(name, to) == [name |-> name, kind |-> "dir", size |-> 0, to |-> to]
Link(name, to) == [name |-> name, kind |-> "link", size |-> 0, to |-> to]
Odd(name) == [name |-> name, kind |-> "odd", size |-> 0, to |-> None]

MCTrees ==
  {[d \in {"root", "a"} |->
      IF d = "root" THEN <<Odd(1), File(2, 2), Dir(5, "a")>>
      ELSE <<File(1, 3), Link(2, "root")>>],
   [d \in {"root", "a", "b"} |->
      CASE d = "root" -> <<Dir(1, "a"), Link(3, "root"), Dir(2, "b")>>
        [] d = "a" -> <<File(1, 4)>>
        [] d = "b" -> <<File(4, 3), File(2, 1)>>]}
=============================================================================
