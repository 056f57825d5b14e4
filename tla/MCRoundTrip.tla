---------------------------- MODULE MCRoundTrip ------------------------------
(* Trees, arguments and folders for TLC.  With TooSmall = 2 a file of one   *)
(* byte is stored and a longer one compressed.                              *)
EXTENDS RoundTrip

a == 97
b == 98
d == 100
one == 49
two == 50
zero == 48

File(body, mode, uid, atime) ==
  [kind |-> "file", body |-> body, mode |-> mode, uid |-> uid, gid |-> uid,
   atime |-> atime, mtime |-> 7]

Special(kind, body) ==
  [kind |-> kind, body |-> body, mode |-> 511, uid |-> 5, gid |-> 6, atime |-> 3, mtime |-> 4]

Dir(mode, uid) ==
  [kind |-> "dir", body |-> << >>, mode |-> mode, uid |-> uid, gid |-> 8, atime |-> 3, mtime |-> 4]

(* Files whose names have numbers of one and two digits, two of the same    *)
(* size, one that runs as another user, one of a user whose id is wide, one *)
(* last read in 1970.                                                       *)
Numbered ==
  (<<<<d>>>> :> Dir(320, 5)) @@
  (<<<<d>>, <<a, one>>>> :> File(<<1>>, 2541, 5, 3)) @@
  (<<<<d>>, <<a, two>>>> :> File(<<1, 0, 2>>, 420, 65541, 3)) @@
  (<<<<d>>, <<a, one, zero>>>> :> File(<<3>>, 256, 0, 0))

(* A file of every other kind, in a directory in a directory. *)
Mixed ==
  (<<<<b>>>> :> Dir(493, 0)) @@
  (<<<<b>>, <<d>>>> :> Dir(448, 70000)) @@
  (<<<<b>>, <<d>>, <<a>>>> :> File(<< >>, 0, 1, 3)) @@
  (<<<<b>>, <<d>>, <<b>>>> :> Special("link", <<a>>)) @@
  (<<<<b>>, <<d>>, <<d>>>> :> Special("chr", <<1, 0, 0, 0, 3, 0, 0, 0>>)) @@
  (<<<<b>>, <<a>>>> :> Special("fifo", << >>))

MCTrees == {Numbered, Mixed}

MCArguments ==
  {<<<<d>>>>, <<<<d, SLASH>>>>, <<<<b>>>>, <<<<b, SLASH, d>>, <<b, SLASH, a>>>>,
   <<<<d, SLASH, a, two>>, <<d, SLASH, a, one>>>>, <<<<b, SLASH, a>>>>, <<<<b>>, << >>>>,
   <<<<SLASH, d>>>>}

(* A large file and a link. *)
MCEditable == {<<<<d>>, <<a, two>>>>, <<<<b>>, <<d>>, <<b>>>>}

(* The root and a folder in it. *)
MCDestinations == {<<SLASH>>, <<SLASH, b>>}

(* Names that begin with a letter and names that begin with a digit. *)
Lettered ==
  (<<<<d>>>> :> Dir(493, 0)) @@
  (<<<<d>>, <<one>>>> :> File(<<1>>, 420, 5, 3)) @@
  (<<<<d>>, <<two>>>> :> File(<<2>>, 420, 5, 3)) @@
  (<<<<d>>, <<a>>>> :> File(<<3>>, 420, 5, 3))

LetteredTrees == {Lettered}
LetteredArguments == {<<<<d>>>>}

(* A directory that is called like a drive of Windows. *)
Driven ==
  (<<<<d, COLON>>>> :> Dir(493, 0)) @@
  (<<<<d, COLON>>, <<a>>>> :> File(<<1>>, 420, 5, 3))

DrivenTrees == {Driven}
DrivenArguments == {<<<<d, COLON>>>>}
=============================================================================
