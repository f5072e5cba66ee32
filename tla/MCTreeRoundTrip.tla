-------------------------- MODULE MCTreeRoundTrip --------------------------
(***************************************************************************)
(* Small disks, by family: every combination of kinds in a few places,     *)
(* exclude lists at two depths, hardlinks across roots in every order,     *)
(* directories of 0 to 9 entries with colliding hashes, symbolic links,    *)
(* and restores over existing content.                                     *)
(***************************************************************************)
EXTENDS TreeRoundTrip

MCHash(n) == (5 * n) % 7

Obj(kind, id, size, to, x, lines) ==
  [kind |-> kind, id |-> id, size |-> size, to |-> to, x |-> x, lines |-> lines]
D(id) == Obj("dir", id, 0, NoLink, 0, <<>>)
DX(id) == Obj("dir", id, 0, NoLink, 1, <<>>)
F(id, size) == Obj("file", id, size, NoLink, 0, <<>>)
FX(id, size) == Obj("file", id, size, NoLink, 2, <<>>)
L(id, to) == Obj("symlink", id, 0, to, 0, <<>>)
P(id) == Obj("fifo", id, 0, NoLink, 0, <<>>)
V(id) == Obj("device", id, 0, NoLink, 1, <<>>)
X(id, lines) == Obj("file", id, Len(lines), NoLink, 0, lines)

CallDir(path, as) == [op |-> "dir", path |-> path, as |-> as, size |-> 0]
CallFile(path) == [op |-> "file", path |-> path, as |-> path[Len(path)], size |-> 0]
CallStream(as, size) == [op |-> "stream", path |-> <<>>, as |-> as, size |-> size]
CallTree(as, tree) == [op |-> "tree", as |-> as, id |-> -10, tree |-> tree]
T(path, kind, size) == [path |-> path, kind |-> kind, size |-> size, id |-> -10 - path[1] - 10 * path[Len(path)]]

\* One directory, everything off.
Plain(disk) ==
  [disk |-> disk, calls |-> <<CallDir(<<>>, 9)>>, skip |-> FALSE, honour |-> FALSE, exclude |-> <<>>,
   filtered |-> {}, format |-> 1, named |-> TRUE, mode |-> "all", paths |-> <<>>, over |-> FALSE,
   pre |-> << >>, bad |-> {}, locked |-> {}, privileged |-> TRUE, mine |-> {}, quota |-> {}, refused |-> {}]

Formats(inputs) == {[i EXCEPT !.format = f] : i \in inputs, f \in {1, 2}}
Modes(inputs, paths) == inputs \union {[i EXCEPT !.mode = "paths", !.paths = p] : i \in inputs, p \in paths}

-----------------------------------------------------------------------------
(* Kinds: a file, a directory with two entries of any kind, something after. *)
AnyKind(id) == {F(id, 2), F(20, 1), L(id, <<Up, 3>>), P(id), V(id), D(id)}
KindDisks ==
  {(<<>> :> D(10)) @@ (<<3>> :> F(20, 1)) @@ (<<4>> :> D(11)) @@ (<<4, 3>> :> a) @@ (<<4, 5>> :> b) @@ (<<5>> :> c) :
     a \in AnyKind(12), b \in AnyKind(13), c \in {FX(14, 1), P(14), D(14)}}
KindInputs ==
  Modes(Formats({[Plain(d) EXCEPT !.skip = TRUE] : d \in KindDisks}), {<<<<4>>, <<4, 5>>>>, <<<<5>>, <<4, 3>>>>})

-----------------------------------------------------------------------------
(* Exclude lists, at the root, in a directory and from the caller. *)
Pat(text, anchored, dirOnly, include) ==
  [text |-> text, anchored |-> anchored, dirOnly |-> dirOnly, include |-> include]
PatternChoice ==
  {Pat(<<4>>, FALSE, FALSE, FALSE), Pat(<<4>>, TRUE, FALSE, FALSE), Pat(<<4>>, FALSE, FALSE, TRUE),
   Pat(<<Star>>, FALSE, TRUE, FALSE), Pat(<<StarStar, 4>>, TRUE, FALSE, FALSE), Pat(<<>>, FALSE, FALSE, FALSE),
   Pat(<<3, StarStar>>, FALSE, FALSE, FALSE)}
ListDisk(outer, inner) ==
  (<<>> :> D(10)) @@ (<<1>> :> X(15, outer)) @@ (<<3>> :> D(11)) @@ (<<3, 1>> :> X(16, inner)) @@
  (<<3, 4>> :> F(12, 1)) @@ (<<3, 5>> :> D(13)) @@ (<<3, 5, 4>> :> F(14, 0)) @@ (<<4>> :> D(17)) @@ (<<4, 3>> :> F(18, 1))
ListInputs ==
  {[Plain(ListDisk(<<o>>, <<i>>)) EXCEPT !.honour = TRUE, !.skip = TRUE, !.exclude = e, !.filtered = f] :
     o \in PatternChoice, i \in PatternChoice,
     e \in {<<>>, <<Pat(<<4>>, FALSE, TRUE, FALSE)>>}, f \in {{<<3, 5, 4>>}}}
  \union {[Plain(ListDisk(<<>>, <<i>>)) EXCEPT !.exclude = <<i>>, !.honour = h, !.format = 2] :
     i \in PatternChoice, h \in BOOLEAN}

-----------------------------------------------------------------------------
(* Several roots, and links between them. *)
RootsDisk ==
  (<<>> :> D(10)) @@ (<<2>> :> D(19)) @@ (<<2, 3>> :> F(20, 1)) @@ (<<3>> :> D(11)) @@ (<<3, 3>> :> F(20, 1)) @@
  (<<4>> :> D(12)) @@ (<<4, 3>> :> F(20, 1)) @@ (<<5>> :> F(20, 1)) @@ (<<6>> :> L(21, <<Slash, 3>>))
RootCalls ==
  {<<CallDir(<<3>>, 3), CallDir(<<4>>, 4)>>, <<CallDir(<<4>>, 4), CallDir(<<3>>, 3)>>,
   <<CallDir(<<3>>, 8), CallDir(<<4>>, 4), CallStream(6, 2)>>, <<CallFile(<<5>>), CallDir(<<6>>, 7)>>,
   <<CallFile(<<5>>), CallDir(<<4>>, 5)>>, <<CallDir(<<5>>, 5), CallFile(<<3>>), CallStream(Up, 1)>>,
   <<CallDir(<<>>, 3)>>, <<CallDir(<<3>>, 2), CallDir(<<4>>, 4)>>, <<CallDir(<<6>>, 3)>>}
RootInputs ==
  {[Plain(RootsDisk) EXCEPT !.calls = c, !.skip = s, !.named = n, !.format = f] :
     c \in RootCalls, s \in BOOLEAN, n \in BOOLEAN, f \in {1, 2}}

\* Trees built by the caller: alone, beside other roots, and refused ones.
ATree == <<T(<<5>>, "dir", 0), T(<<5, 4>>, "file", 2), T(<<2>>, "file", 1), T(<<5, 3>>, "dir", 0), T(<<3>>, "file", 0)>>
TreeCalls ==
  {<<CallTree(Up, ATree)>>, <<CallTree(7, ATree)>>, <<CallTree(7, ATree), CallDir(<<4>>, 4), CallStream(6, 1)>>,
   <<CallTree(Up, ATree), CallDir(<<4>>, 4)>>, <<CallTree(7, ATree), CallTree(7, <<>>)>>,
   <<CallTree(7, Append(ATree, T(<<3>>, "file", 1)))>>, <<CallTree(7, <<T(<<3>>, "fifo", 0)>>), CallStream(6, 1)>>,
   <<CallTree(7, <<T(<<3>>, "file", -1)>>), CallTree(2, <<>>)>>}
TreeInputs ==
  {[Plain(RootsDisk) EXCEPT !.calls = c, !.format = f, !.exclude = e] :
     c \in TreeCalls, f \in {1, 2}, e \in {<<>>, <<Pat(<<3>>, FALSE, FALSE, FALSE)>>}}

-----------------------------------------------------------------------------
(* Directories of n entries; the hashes of 3 and 10, and of 4 and 11, collide. *)
WideInputs ==
  Formats({Plain([p \in {<<>>} \union {<<i>> : i \in 3..2 + n} |-> IF p = <<>> THEN D(10) ELSE F(p[1] + 10, p[1] % 2)]) : n \in 0..9})

-----------------------------------------------------------------------------
(* Symbolic links: to a directory, out of the archive, in circles, and back
   through another link. *)
LinkTargets == {<<4>>, <<4, 6>>, <<Up, 3>>, <<Up, Up>>, <<5, 3>>, <<Up, 5, 5>>, <<Slash, 3>>, <<Up, 4, Up, 3>>, <<Up>>}
LinkInputs ==
  {Plain((<<>> :> D(10)) @@ (<<3>> :> F(11, 1)) @@ (<<4>> :> D(12)) @@ (<<4, 3>> :> F(13, 1)) @@ (<<4, 5>> :> L(14, a)) @@
         (<<4, 6>> :> D(16)) @@ (<<5>> :> L(15, b)) @@ (<<7>> :> L(17, <<5, Up, 3>>))) : a \in LinkTargets, b \in LinkTargets}

\* Asked for by name: alone, and after the directory they may lead to.
LinkRequests ==
  {[i EXCEPT !.mode = "paths", !.paths = p, !.over = o] :
     i \in LinkInputs, p \in {<<<<5>>>>, <<<<4>>, <<5>>>>, <<<<4, 5>>, <<3>>>>}, o \in BOOLEAN}

-----------------------------------------------------------------------------
(* Restoring over something, without privileges, or to a poorer system. *)
Old(kind, p) == [kind |-> kind, ino |-> p, data |-> <<99>>, to |-> NoLink, meta |-> <<99>>, owner |-> <<99>>, x |-> 0, stale |-> FALSE]
RestoreDisk ==
  (<<>> :> D(10)) @@ (<<3>> :> D(11)) @@ (<<3, 3>> :> DX(12)) @@ (<<3, 3, 3>> :> F(20, 1)) @@ (<<3, 4>> :> FX(13, 1)) @@
  (<<4>> :> F(20, 1)) @@ (<<5>> :> V(15)) @@ (<<6>> :> L(16, <<4>>))
Pres ==
  {<< >>, <<7>> :> Old("file", <<7>>), (<<3>> :> Old("dir", <<3>>)) @@ (<<3, 3>> :> Old("file", <<3, 3>>)),
   (<<3>> :> Old("dir", <<3>>)) @@ (<<3, 4>> :> Old("dir", <<3, 4>>)), <<4>> :> Old("symlink", <<4>>),
   <<3>> :> Old("symlink", <<3>>)}
RestoreInputs ==
  Modes(Formats({i \in {[Plain(RestoreDisk) EXCEPT !.pre = p, !.over = o, !.bad = b, !.locked = {10, 11, 12}, !.privileged = v,
                                                   !.mine = {11, 12, 20}, !.quota = {12}, !.refused = {13}] :
             p \in Pres, o \in BOOLEAN, b \in {{}, {3}, {4}}, v \in BOOLEAN} :
             \A p \in DOMAIN i.pre : i.bad \cap Range(p) = {}}),
        {<<<<3, 3>>, <<4>>>>, <<<<4>>, <<4>>>>, <<<<3, 9>>>>, <<<<>>, <<3>>>>})

-----------------------------------------------------------------------------
(* Where comments of the code are not met. *)
\* Root 4, added first, has 3, of which root 3 has a link; 4/5 may be skipped,
\* of which 4/6 is a link.
LinkPromiseInputs ==
  Formats({[Plain((<<>> :> D(10)) @@ (<<3>> :> D(11)) @@ (<<3, 3>> :> F(20, 1)) @@ (<<4>> :> D(12)) @@ (<<4, 3>> :> F(20, 1)) @@
                  (<<4, 5>> :> FX(22, 1)) @@ (<<4, 6>> :> FX(22, 1)))
              EXCEPT !.calls = <<CallDir(<<4>>, 4), CallDir(<<3>>, 3)>>, !.skip = TRUE]})
\* 4 ends in a fifo; 5 leads to the directory 4/3, so 7 leads to 4/6 and not
\* to 6; the target has a file 4; the system is the portable writer's.
ReadPromiseInputs ==
  Formats({[Plain((<<>> :> D(10)) @@ (<<4>> :> D(11)) @@ (<<4, 3>> :> D(12)) @@ (<<4, 6>> :> F(13, 1)) @@ (<<4, 7>> :> P(14)) @@
                  (<<5>> :> L(15, <<4, 3>>)) @@ (<<6>> :> F(16, 1)) @@ (<<7>> :> L(17, <<5, Up, 6>>)))
              EXCEPT !.over = TRUE, !.pre = (<<4>> :> Old("file", <<4>>)), !.bad = {8}]})

AllInputs == KindInputs \union ListInputs \union RootInputs \union TreeInputs \union WideInputs \union LinkInputs \union LinkRequests \union RestoreInputs
=============================================================================
