------------------------------ MODULE Filesystem ------------------------------
(***************************************************************************)
(* The device file system as Nuqe sees it through fs.hpp: a finite map f   *)
(* from canonical paths to kinds.  A path is a sequence of tokens, each    *)
(* either the separator or a piece of a name, so that concatenating two    *)
(* paths (std::string operator+ in the code) is concatenating sequences:   *)
(* <<"/", "d", "a">> is the file "da" of the root, not the entry a of d.   *)
(***************************************************************************)
EXTENDS Naturals, Sequences, SequencesExt

Sep == "/"
RootPath == <<Sep>>
Kinds == {"file", "dir"}

(* Horizon only accepts absolute paths; a trailing slash is ignored.        *)
IsAbsolute(p) == p # <<>> /\ Head(p) = Sep
Canon(p) == IF Len(p) > 1 /\ Last(p) = Sep THEN Front(p) ELSE p

LastSep(p) == SelectLastInSeq(p, LAMBDA t : t = Sep)
Container(p) == Canon(SubSeq(p, 1, LastSep(p)))
BaseName(p) == SubSeq(p, LastSep(p) + 1, Len(p))

Exists(f, p, kind) ==
  /\ IsAbsolute(p)
  /\ Canon(p) \in DOMAIN f
  /\ f[Canon(p)] = kind

(* The entries of the directory p; none when p cannot be opened.            *)
Entries(f, p) == {c \in DOMAIN f \ {RootPath} : Container(c) = Canon(p)}

Subtree(f, p) ==
  {q \in DOMAIN f : q = Canon(p) \/ IsPrefix(Canon(p) \o RootPath, q)}

CanCreate(f, p) ==
  /\ IsAbsolute(p)
  /\ Canon(p) \notin DOMAIN f
  /\ Exists(f, Container(Canon(p)), "dir")

Create(f, p, kind) ==
  [q \in DOMAIN f \cup {Canon(p)} |-> IF q = Canon(p) THEN kind ELSE f[q]]

Unlink(f, p) == Restrict(f, DOMAIN f \ Subtree(f, p))

CanRename(f, p, q, kind) ==
  /\ Exists(f, p, kind)
  /\ CanCreate(f, q)
  /\ ~IsPrefix(Canon(p) \o RootPath, Canon(q))

(* The node p and everything below it changes its prefix p into q.          *)
Rename(f, p, q) ==
  LET moved  == Subtree(f, p)
      kept   == DOMAIN f \ moved
      New(x) == Canon(q) \o SubSeq(x, Len(Canon(p)) + 1, Len(x))
  IN  [x \in kept \cup {New(y) : y \in moved} |->
         IF x \in kept THEN f[x] ELSE f[CHOOSE y \in moved : New(y) = x]]
==============================================================================
