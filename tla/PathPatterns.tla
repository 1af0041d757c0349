---------------------------- MODULE PathPatterns ----------------------------
(***************************************************************************)
(* The two matchers of path patterns and the test for traversal.  A path   *)
(* is the sequence of its segments.  The patterns in use are a directory   *)
(* with everything in it, as secrets/** is, the names that start with a    *)
(* prefix, as .env* does, and one path; the names a prefix stands for are  *)
(* given as a set.                                                         *)
(***************************************************************************)
EXTENDS Naturals, Sequences, SequencesExt

Tree(dir)     == [shape |-> "tree", at |-> {dir}]
Prefix(names) == [shape |-> "prefix", at |-> {<< n >> : n \in names}]
Exact(path)   == [shape |-> "exact", at |-> {path}]

\* globMatch of the worker runner: ** stands for anything below the
\* directory, * for the rest of one segment.
globMatch(pattern, path) ==
  \E at \in pattern.at :
    CASE pattern.shape = "tree"   -> IsStrictPrefix(at, path)
      [] pattern.shape = "prefix" -> path = at
      [] pattern.shape = "exact"  -> path = at

\* matchesPathPattern of the proof verifier and of the policy engine: the
\* directory itself is a match, and a prefix is one of the whole path.
matchesPathPattern(path, pattern) ==
  \E at \in pattern.at :
    CASE pattern.shape = "tree"   -> IsPrefix(at, path)
      [] pattern.shape = "prefix" -> IsPrefix(at, path)
      [] pattern.shape = "exact"  -> path = at

matchesAnyPath(path, patterns) ==
  \E pattern \in patterns : matchesPathPattern(path, pattern)

\* hasPathTraversal, of a path
IsTraversal(path) == \E i \in DOMAIN path : path[i] = ".."
=============================================================================
