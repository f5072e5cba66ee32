----------------------------- MODULE PxarReader -----------------------------
(***************************************************************************)
(* Reading a pxar archive back: the sequential Reader, which decodes entry *)
(* after entry and ignores the goodbye tables, and the FS, which finds     *)
(* single entries through them.  Both decode an entry with the same code,  *)
(* the FS over the section of the archive that ends at the parent's        *)
(* goodbye table.                                                          *)
(***************************************************************************)
EXTENDS PxarEmit

CONSTANT
  MaxLinks    \* symbolic links followed in one lookup (40 in the code)

ASSUME ReaderConstants == MaxLinks \in Nat

-----------------------------------------------------------------------------
(* Decoding one entry *)

Bad == [ok |-> FALSE, err |-> "malformed"]
NotExist == [ok |-> FALSE, err |-> "not exist"]

\* The type of the record at p, in a section that ends at limit.
Peek(p, limit) == IF p < limit THEN cells[p + 1].t ELSE "eof"
Value(p) == cells[p + 1].v

\* metadata: past the metadata records that start at p; it has to see the
\* record that follows them.
PastMetadata(p, limit) ==
  CHOOSE q \in p..limit : Peek(q, limit) # "xattr" /\ \A r \in p..q - 1 : Peek(r, limit) = "xattr"

Decoded(node, pos, off) == [ok |-> TRUE, node |-> node, pos |-> pos, off |-> off]

\* A regular file's payload (v1) or reference into the payload stream (v2).
DecodeFile(node, q, t) ==
  IF ~V2 /\ t = "payload" THEN Decoded([node EXCEPT !.size = Value(q)], q + 1, q + 1)
  ELSE IF V2 /\ t = "ref"
  THEN Decoded([node EXCEPT !.size = Value(q).size], q + 1, Value(q).off + 1)
  ELSE Bad

\* The record, of type t at q, that follows the metadata of node.
DecodeType(node, q, t) ==
  CASE t = "eof" -> Bad
    [] t # "eof" /\ node.kind \in {"dir", "fifo"} -> Decoded(node, q, 0)
    [] t # "eof" /\ node.kind = "file" -> DecodeFile(node, q, t)
    [] t = "symlink" /\ node.kind = "symlink" -> Decoded([node EXCEPT !.to = Value(q)], q + 1, 0)
    [] t = "device" /\ node.kind = "device" -> Decoded(node, q + 1, 0)
    [] OTHER -> Bad

DecodeEntry(e, p, q, limit, path) ==
  DecodeType(Node(path, e.kind, e.id, 0, NoLink, q - p - 1, FALSE), q, Peek(q, limit))

\* Reader.node: the entry at p, after its filename.  off is where the content
\* of a regular file is.
DecodeNode(p, limit, path) ==
  IF Peek(p, limit) = "hardlink" /\ path # <<>>
  THEN Decoded(Node(path, "hardlink", 0, 0, Value(p).to, 0, FALSE), p + 1, 0)
  ELSE IF Peek(p, limit) # "entry" THEN Bad
  ELSE DecodeEntry(Value(p), p, PastMetadata(p + 1, limit), limit, path)

\* Reader.next at a filename record, in directory dir.
DecodeChild(p, limit, dir) ==
  IF Peek(p, limit) # "filename" THEN Bad
  ELSE DecodeNode(p + 1, limit, Append(dir, Value(p)))

\* checkPayloadStart and checkPayloadRecord: the reference of a decoded file
\* leads to a payload record of its size.  The Reader checks when it decodes,
\* the FS when it opens the file.
PayloadResolves(d) ==
  V2 /\ d.node.kind = "file" =>
    /\ pay # <<>> /\ pay[1].t = "start"
    /\ d.off <= Len(pay) /\ pay[d.off] = Cell("payload", d.node.size)

\* The content of a decoded regular file; a stream that ends early is an error.
Content(d) ==
  LET src == IF V2 THEN pay ELSE cells
  IN IF d.off + d.node.size > Len(src) THEN <<>>
     ELSE [i \in 1..d.node.size |-> src[d.off + i].v]

\* readHead: the first record of the root's entry.
Head1 == IF ~V2 THEN 0 ELSE IF Peek(1, Len(cells)) = "prelude" THEN 2 ELSE 1
RootEntry == DecodeNode(Head1, Len(cells), <<>>)

-----------------------------------------------------------------------------
(* The FS.  A directory carries the span it occupies. *)

FsRoot == RootEntry @@ [start |-> 0, end |-> Len(cells)]

\* goodbye: the children's items in archive order, and the start of the table,
\* found through the size in the tail marker.
ItemAt(gb, v) == [hash |-> v.hash, start |-> gb - v.off, length |-> v.length]
TableAt(d, gb, items) ==
  IF \E i \in DOMAIN items : items[i].start \notin d.start + 1..gb - 1 \/ items[i].length = 0 THEN Bad
  ELSE [ok |-> TRUE, gb |-> gb, items |-> SortSeq(items, LAMBDA a, b : a.start < b.start)]

FsGoodbye(d) ==
  LET tail == cells[d.end]
      gb == d.end - tail.v.size
  IN IF \/ d.end - d.start < 2 \/ tail.t # "tail" \/ tail.v.size > d.end - d.start
        \/ cells[gb + 1].t # "goodbye" \/ cells[gb + 1].v # tail.v.size
     THEN Bad
     ELSE TableAt(d, gb, [i \in 1..tail.v.size - 2 |-> ItemAt(gb, Value(gb + i))])

\* child: the entry whose filename is at the item's start, checked against the
\* bounds of its directory.
WithSpan(c, start, end, gb) ==
  IF ~c.ok THEN c
  ELSE IF \/ c.node.kind = "dir" /\ end > gb
          \/ c.node.kind = "file" /\ ~V2 /\ c.off + c.node.size > gb
  THEN Bad
  ELSE c @@ [start |-> start, end |-> end]

FsChild(d, item, gb) ==
  WithSpan(DecodeChild(item.start, gb, d.node.path), item.start, item.start + item.length, gb)

\* Mutant: the first item with the hash is taken for the name's.
FirstHashed(kids, name) ==
  IF DOMAIN kids = {} THEN NotExist ELSE kids[CHOOSE i \in DOMAIN kids : \A j \in DOMAIN kids : i <= j]

\* lookupChild: every item with the name's hash is tried, in archive order.
FirstNamed(kids, name) ==
  LET ends == {i \in DOMAIN kids : ~kids[i].ok \/ Last(kids[i].node.path) = name}
  IN IF ends = {} THEN NotExist ELSE kids[CHOOSE i \in ends : \A j \in ends : i <= j]

LookupIn(d, g, name) ==
  IF ~g.ok THEN g
  ELSE FirstNamed([i \in {j \in DOMAIN g.items : g.items[j].hash = Hash(name)} |-> FsChild(d, g.items[i], g.gb)], name)

LookupChild(d, name) == LookupIn(d, FsGoodbye(d), name)

\* path.Join of a directory and a link target, cleaned by its words alone.
Join(dir, target) ==
  FoldLeft(LAMBDA p, c : IF c # Up \/ p = <<>> \/ Last(p) = Up THEN Append(p, c) ELSE Front(p), dir, target)

NotDir(t) == IF t.ok /\ t.node.kind = "dir" THEN Bad ELSE t

\* resolve: a walk from the root.  A link on the way, and with follow at the
\* end, restarts it at the link's target; a hardlink becomes its target.
RECURSIVE Resolve(_, _, _, _, _), Enter(_, _, _, _, _, _), FollowLink(_, _, _, _, _, _), ResolveHardlink(_)
Resolve(cur, rest, links, follow, nested) ==
  IF ~cur.ok \/ rest = <<>> THEN cur
  ELSE IF cur.node.kind # "dir" THEN Bad
  ELSE Enter(cur, LookupChild(cur, Head(rest)), Tail(rest), links, follow, nested)

Enter(cur, c, rest, links, follow, nested) ==
  IF ~c.ok THEN c
  ELSE IF c.node.kind = "hardlink"
  THEN IF nested THEN Bad ELSE Resolve(ResolveHardlink(c), rest, links, follow, nested)
  ELSE IF c.node.kind = "symlink" /\ (rest # <<>> \/ follow)
  THEN IF links >= MaxLinks THEN Bad ELSE FollowLink(c, Join(cur.node.path, c.node.to), rest, links, follow, nested)
  ELSE Resolve(c, rest, links, follow, nested)

FollowLink(c, to, rest, links, follow, nested) ==
  IF Head(c.node.to) = Slash \/ (to # <<>> /\ Head(to) = Up) THEN NotExist
  ELSE Resolve(FsRoot, to \o rest, links + 1, follow, nested)

ResolveHardlink(c) ==
  IF ~c.ok \/ c.node.kind # "hardlink" THEN c
  ELSE NotDir(Resolve(FsRoot, c.node.to, 0, FALSE, TRUE))

Lstat(path) == Resolve(FsRoot, path, 0, FALSE, FALSE)
Stat(path) == Resolve(FsRoot, path, 0, TRUE, FALSE)

\* dirFile.ReadDir: every child decoded, hardlinks resolved, names sorted.
Listing(kids) ==
  IF \E i \in DOMAIN kids : ~ResolveHardlink(kids[i]).ok THEN Bad
  ELSE [ok |-> TRUE, names |-> Sorted({Last(kids[i].node.path) : i \in DOMAIN kids})]
ReadDirIn(d, g) ==
  IF ~g.ok THEN g ELSE Listing([i \in DOMAIN g.items |-> FsChild(d, g.items[i], g.gb)])
ReadDir(d) == IF d.ok THEN ReadDirIn(d, FsGoodbye(d)) ELSE d
=============================================================================
