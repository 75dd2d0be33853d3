------------------------------- MODULE Paths -------------------------------
(***************************************************************************)
(* File paths, as internal/executor and internal/gateway use them through  *)
(* path/filepath: a path is a sequence of segments, absolute or not.  A    *)
(* segment is a name, ".", ".." or, between two slashes, nothing.          *)
(***************************************************************************)
EXTENDS Integers, SequencesExt

\* A path as it is written, and a directory as the operating system knows it.
FilePath == [abs : BOOLEAN, segs : Seq(STRING)]
Directory == Seq(STRING \ {"", ".", ".."})

Abs(s) == [abs |-> TRUE, segs |-> s]
Relative(s) == [abs |-> FALSE, segs |-> s]

\* One segment more behind a path that is clean.
Push(abs, stack, s) ==
    CASE s \in {"", "."} -> stack
      [] s = ".." /\ stack # <<>> /\ Last(stack) # ".." -> Front(stack)
      [] s = ".." /\ (stack = <<>> \/ Last(stack) = "..") ->
            IF abs THEN stack ELSE Append(stack, s)
      [] OTHER -> Append(stack, s)

\* filepath.Clean: the shortest path that is lexically the same.
CleanSegs(abs, segs) == FoldLeft(LAMBDA stack, s : Push(abs, stack, s), <<>>, segs)

Clean(p) == [p EXCEPT !.segs = CleanSegs(p.abs, p.segs)]

\* filepath.Join(b, p); p is taken as relative.
Join(b, p) == Clean([b EXCEPT !.segs = b.segs \o p.segs])

\* filepath.Rel(b, t) of clean paths fails, because one is absolute and the
\* other is not, or because it would need the name of a directory above b.
RelFails(b, t) ==
    \/ b.abs # t.abs
    \/ LET n == Len(LongestCommonPrefix({b.segs, t.segs}))
       IN  n < Len(b.segs) /\ b.segs[n + 1] = ".."

\* The way from b to t: up to where they part, and down from there.
Rel(b, t) ==
    LET n == Len(LongestCommonPrefix({b.segs, t.segs}))
    IN  [i \in 1..(Len(b.segs) - n) |-> ".."] \o SubSeq(t.segs, n + 1, Len(t.segs))

-----------------------------------------------------------------------------
(* The reference: where the operating system arrives when it follows the     *)
(* segments one by one, in a tree without symbolic links.                    *)

\* One segment further from the directory here, which is a sequence of names.
Descend(here, s) ==
    CASE s \in {"", "."} -> here
      [] s = ".." -> IF here = <<>> THEN here ELSE Front(here)
      [] OTHER -> Append(here, s)

\* From the directory at.
Walk(at, segs) == FoldLeft(Descend, at, segs)

\* Where a path leads for a process whose working directory is cwd.
Place(cwd, p) == Walk(IF p.abs THEN <<>> ELSE cwd, p.segs)
=============================================================================
