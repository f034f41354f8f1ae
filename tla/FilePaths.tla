------------------------------ MODULE FilePaths -----------------------------
(***************************************************************************)
(* Paths of files, and the file system that follows them; it is external   *)
(* to the server.  A path is a text, a name in it a text without slashes.  *)
(* Links are left out.                                                     *)
(***************************************************************************)
EXTENDS Integers, Sequences

CONSTANTS
  Files,        \* where the regular files are that can be read: the names from "/" on
  Directories,  \* where the directories are
  Here,         \* the working directory
  NoStatus      \* paths whose status cannot be had (a name too long, no access)

ASSUME FilePathsAssumption == Here \in Seq(Seq(STRING))

(* The names of a path, what stands before, between and behind slashes.    *)
Extend(parts, piece) ==
  IF piece = "/" THEN Append(parts, << >>)
  ELSE [parts EXCEPT ![Len(parts)] = Append(@, piece)]

Components(path) ==
  LET upTo[n \in 0..Len(path)] ==
        IF n = 0 THEN << << >> >> ELSE Extend(upTo[n - 1], path[n])
  IN  upTo[Len(path)]

Dot == <<".">>
DotDot == <<".", ".">>

(* One name further: the same place, the one above, or one below.          *)
Step(at, name) ==
  IF name \in {<< >>, Dot} THEN at
  ELSE IF name # DotDot THEN Append(at, name)
  ELSE IF at = << >> THEN at ELSE SubSeq(at, 1, Len(at) - 1)

(* Where names lead: from "/" when the first one is empty.                 *)
Walk(names) ==
  LET at[n \in 0..Len(names)] ==
        IF n = 0 THEN IF names[1] = << >> THEN << >> ELSE Here
        ELSE Step(at[n - 1], names[n])
  IN  at[Len(names)]

Resolve(path) == Walk(Components(path))

(* is_regular_file and a stream that is good: each name but the last leads *)
(* to a directory, and the last one to a file.                             *)
Opens(path) ==
  LET names == Components(path)
  IN  /\ Walk(names) \in Files
      /\ \A n \in 1..(Len(names) - 1) : Walk(SubSeq(names, 1, n)) \in Directories
=============================================================================
