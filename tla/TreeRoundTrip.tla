--------------------------- MODULE TreeRoundTrip ---------------------------
(***************************************************************************)
(* From a disk to an archive and back: the tree is scanned, written as an  *)
(* archive (and in format 1 as a catalog), read through the sequential     *)
(* reader and through the goodbye tables, and restored, whole or in part.  *)
(***************************************************************************)
EXTENDS Extract, Catalog

vars == <<scanVars, emitVars, catalogVars, extractVars>>

Init == ScanInit /\ EmitInit /\ CatalogInit /\ ExtractInit

Scanning == ScanNext /\ UNCHANGED <<emitVars, catalogVars, extractVars>>
Emitting == EmitNext /\ UNCHANGED <<scanVars, catalogVars, extractVars>>
\* The catalog shares nothing with the archive but the tree; writing it when
\* the archive is complete leaves out no case.
Cataloging == /\ epc = "done" /\ ~V2 /\ CatalogNext
              /\ UNCHANGED <<scanVars, emitVars, extractVars>>
Extracting == /\ V2 \/ cpc = "done"
              /\ ExtractNext
              /\ UNCHANGED <<scanVars, emitVars, catalogVars>>

Next == Scanning \/ Emitting \/ Cataloging \/ Extracting
Spec == Init /\ [][Next]_vars

-----------------------------------------------------------------------------
\* Every phase keeps to its states, what is written has a known type, and an
\* archive's parts are where the phase says they are.
TypeOK ==
  /\ spc \in {"add", "scan", "done", "failed"} /\ epc \in {"off", "run", "done", "failed"}
  /\ cpc \in {"off", "run", "done"} /\ xpc \in {"off", "read", "walk", "finish", "done", "failed"}
  /\ next \in 1..Len(adds) + 1 /\ calls \in 0..Len(in.calls) /\ asked \in 0..Len(in.paths)
  /\ \A i \in DOMAIN nodes : nodes[i].kind \in Kinds \union {"hardlink"} /\ nodes[i].size \in Nat
  /\ \A i \in DOMAIN frames : frames[i].start \in 0..Len(cells) /\ frames[i].entry \in 0..Len(cells)
  /\ \A p \in DOMAIN linkTargets : linkTargets[p] \in 0..Len(cells)
  /\ rd.pos \in 0..Len(cells) /\ rd.left \in Nat
  /\ \A p \in DOMAIN target : target[p].kind \in Kinds /\ target[p].stale \in BOOLEAN
  /\ spc \in {"add", "failed"} => epc = "off"
  /\ epc # "done" => xpc = "off"

-----------------------------------------------------------------------------
(* Whether the archive can be written *)

NodeAt(p) == nodes[CHOOSE i \in DOMAIN nodes : nodes[i].path = p]
Paths == {nodes[i].path : i \in DOMAIN nodes}

WholeRead == xpc = "done" /\ in.mode = "all"
LinkAt(i) == Value(got[i].start + 1)

\* A hardlink's offset leads back to the filename record of the file its
\* target names, which is the first occurrence of the same inode, and no
\* inode with several links is stored twice (emit.go, linkTargets: "Offsets
\* ... are derived from positions actually written").  Writing the archive
\* fails only at a link whose target is not among the entries before it, and
\* never for one root of which nothing was skipped or dropped.  What is
\* promised of several roots and of skipped entries is CrossRootLinks and
\* SkippedOmitted.
LinksResolve ==
  /\ WholeRead =>
       /\ \A i \in DOMAIN got : got[i].node.kind = "hardlink" =>
            \E j \in 1..i - 1 : /\ got[j].start = got[i].start - LinkAt(i).off
                                /\ got[j].node.path = got[i].node.to
                                /\ got[j].node.kind = "file"
                                /\ got[j].node.id = nodes[i].id
       /\ \A i, j \in DOMAIN got : nodes[i].multi /\ nodes[j].multi /\ i # j => got[i].node.id # got[j].node.id
  /\ epc = "failed" =>
       /\ \A i \in 1..at - 1 : nodes[i].path # AtNode.to
       /\ ~Single \/ lost # {} \/ Reserved(AtNode.to)

\* Hardlinks that name no entry before them, at which writing the archive fails.
Unmet == {i \in DOMAIN nodes : nodes[i].kind = "hardlink" /\ \A j \in 1..i - 1 : nodes[j].path # nodes[i].to}

\* Hardlinks across roots resolve: no archive fails for a link whose target it
\* has, whatever roots are added and in whatever order (scan.go:117-119:
\* "hardlink identity is tracked across all of them so cross-root hardlinks
\* resolve correctly").
CrossRootLinks == epc = "failed" => \A i \in Unmet : nodes[i].to \notin Paths

\* With SkipOnError an entry that cannot be scanned is omitted, and no archive
\* fails for a link to it (scan.go:81-83: "downgrades per-entry scan failures
\* to warnings, omitting the entry, instead of failing the scan").
SkippedOmitted == epc = "failed" => \A i \in Unmet : nodes[i].to \notin lost

\* At least one of the two, each of which a comment of scan.go promises: an
\* archive that breaks this refutes both.
LinkPromises == CrossRootLinks \/ SkippedOmitted

-----------------------------------------------------------------------------
(* The goodbye tables, seen from what a sequential reader returns *)

Tables == {p \in 0..Len(cells) - 1 : Peek(p, Len(cells)) = "goodbye"}
Tail1(g) == Value(g + Value(g) - 1)
ItemsAt(g) == [i \in 1..Value(g) - 2 |-> Value(g + i)]
ChildrenOf(p) == {i \in DOMAIN got : got[i].node.path # <<>> /\ Front(got[i].node.path) = p}

\* Where the entry of the directory is, as its tail marker should say.
EntryStart(i) == IF i = 1 THEN 0 ELSE got[i].start + 1

\* A child ends where the next one, or the table, begins.
SpanEnd(i, siblings, g) ==
  LET later == {got[j].start : j \in siblings} \ 0..got[i].start
  IN IF later = {} THEN g ELSE CHOOSE s \in later : \A t \in later : s <= t

\* Bisecting the items as a binary tree, from the first, finds the hash.
Bisects(items, hash) ==
  LET f[i \in 1..2 * Len(items) + 1] ==
        i <= Len(items) /\ \/ items[i].hash = hash
                           \/ items[i].hash > hash /\ f[2 * i]
                           \/ items[i].hash < hash /\ f[2 * i + 1]
  IN f[1]

\* Every directory of the archive has one goodbye table, its tail leads back
\* to the directory's entry, its items are the directory's children with their
\* places and lengths, and a binary search over it finds every child's hash,
\* whatever the number of children and however their hashes collide
\* (AppendGoodbye, permuteBST).
TablesLead ==
  WholeRead =>
    \A i \in DOMAIN got : got[i].node.kind = "dir" =>
      LET mine == {g \in Tables : g - Tail1(g).off = EntryStart(i)}
          g == CHOOSE x \in mine : TRUE
          items == ItemsAt(g)
          kids == ChildrenOf(got[i].node.path)
          extra(j) == IF V2 THEN got[j].node.size ELSE 0
      IN /\ Cardinality(mine) = 1
         /\ Len(items) = Cardinality(kids)
         /\ {[hash |-> items[k].hash, off |-> items[k].off, length |-> items[k].length] : k \in DOMAIN items}
              = {[hash |-> Hash(Last(got[j].node.path)), off |-> g - got[j].start,
                  length |-> SpanEnd(j, kids, g) - got[j].start + extra(j)] : j \in kids}
         /\ \A j \in kids : Bisects(items, Hash(Last(got[j].node.path)))

-----------------------------------------------------------------------------
(* Lookups through the tables, seen from what a sequential reader returns *)

\* A hardlink is looked up as its target.
ReadAs(n) == IF n.kind = "hardlink" THEN NodeAt(n.to) ELSE n

\* A fifo or socket that is the last entry of its directory: no record of its
\* own follows its metadata, but the goodbye table does.
LastFifo(n) ==
  /\ n.kind = "fifo"
  /\ \A i \in ChildrenOf(Front(n.path)) : got[i].start <= (CHOOSE g \in Range(got) : g.node.path = n.path).start
AllSeen(d) == \A i \in ChildrenOf(d) : ~LastFifo(got[i].node)

SameEntry(found, n) ==
  /\ found.node.kind = n.kind /\ found.node.id = n.id /\ found.node.x = n.x
  /\ n.kind = "symlink" => found.node.to = n.to
  /\ n.kind = "file" => Content(found) = [k \in 1..n.size |-> n.id]

\* Where a file system would arrive, one component after the other.
RECURSIVE Arrive(_, _, _)
Arrive(cur, rest, links) ==
  IF rest = <<>> THEN {cur}
  ELSE IF NodeAt(cur).kind # "dir" \/ Head(rest) = Slash THEN {}
  ELSE IF Head(rest) = Up THEN IF cur = <<>> THEN {} ELSE Arrive(Front(cur), Tail(rest), links)
  ELSE LET c == Append(cur, Head(rest))
       IN IF c \notin Paths THEN {}
          ELSE IF NodeAt(c).kind # "symlink" THEN Arrive(c, Tail(rest), links)
          ELSE IF links = MaxLinks THEN {}
          ELSE Arrive(cur, NodeAt(c).to \o Tail(rest), links + 1)

\* ".." in the target of n comes after something that is not, by its words, a
\* directory of the archive.
BackFromLink(n) ==
  \E i \in 2..Len(n.to) :
    /\ n.to[i] = Up /\ n.to[i - 1] \notin {Up, Slash}
    /\ LET before == Join(Front(n.path), SubSeq(n.to, 1, i - 1))
       IN before \notin Paths \/ NodeAt(before).kind # "dir"

FoundAs(found, n) == found.ok /\ SameEntry(found, ReadAs(n))
ListsAs(list, kids) == list.ok /\ list.names = Sorted({Last(got[j].node.path) : j \in kids})
FollowedAs(n) ==
  LET there == Arrive(<<>>, n.path, 0)
  IN IF there = {} THEN ~Stat(n.path).ok ELSE \A p \in there : LastFifo(NodeAt(p)) \/ FoundAs(Stat(n.path), NodeAt(p))

\* Whatever the sequential reader returns, a lookup of its path through the
\* goodbye tables returns too, with the same metadata and content, a hardlink
\* as the file it links to; a directory lists exactly its children; names that
\* were not archived do not exist; and following a symbolic link arrives where
\* the file system would.  Left to EntriesListed is a fifo or socket that is
\* the last entry of its directory, with the listing of that directory, and to
\* LinksFollowed a link with ".." after something that is not a directory.
LookupAgrees ==
  WholeRead =>
    /\ \A i \in 2..Len(got) : LastFifo(nodes[i]) \/ FoundAs(Lstat(nodes[i].path), nodes[i])
    /\ \A i \in DOMAIN got : got[i].node.kind = "dir" /\ AllSeen(got[i].node.path) =>
         ListsAs(ReadDir(Lstat(got[i].node.path)), ChildrenOf(got[i].node.path))
    /\ \A d \in Paths, name \in {Last(p) : p \in DOMAIN in.disk \ {<<>>}} :
         NodeAt(d).kind = "dir" /\ Append(d, name) \notin Paths /\ AllSeen(d)
           => Lstat(Append(d, name)) = NotExist
    /\ \A i \in DOMAIN nodes : nodes[i].kind = "symlink" /\ ~BackFromLink(nodes[i]) => FollowedAs(nodes[i])

\* Every directory of an archive can be listed and returns its entries sorted
\* by name, whatever they are (fs.go:314-315: "ReadDir reads the named
\* directory, following symbolic links, and returns its entries sorted by
\* name").
EntriesListed ==
  WholeRead => \A i \in DOMAIN got : got[i].node.kind = "dir" =>
                 ListsAs(ReadDir(Lstat(got[i].node.path)), ChildrenOf(got[i].node.path))

\* A symbolic link inside the archive, whatever its target looks like, leads
\* where the file system it was taken from would lead (fs.go:26-28: "Open and
\* Stat follow symbolic links inside the archive; links with an absolute
\* target, or a relative one leaving the archive, do not resolve").
LinksFollowed == WholeRead => \A i \in DOMAIN nodes : nodes[i].kind = "symlink" => FollowedAs(nodes[i])

-----------------------------------------------------------------------------
(* What a restore leaves in the target directory *)

\* A name on the way cannot be created on this system.
Creatable(p) == \A i \in DOMAIN p : p[i] \notin in.bad

\* n, restored with as much of its metadata as the caller and the system can
\* set, and not changed since.
InPlace(p, n) ==
  /\ Present(target, p) /\ target[p].kind = n.kind
  /\ (Portable /\ n.kind = "symlink") \/ target[p].meta = <<n.id>>
  /\ ~target[p].stale \/ (p = <<>> /\ Shuts(n))
  /\ ~Portable /\ (in.privileged \/ n.id \in in.mine) => target[p].owner = <<n.id>>
  /\ ~Portable /\ n.kind \in {"file", "dir"} => target[p].x = n.x - Quotas(n) - Refusals(n)
  /\ n.kind = "symlink" => target[p].to = n.to
  /\ n.kind = "file" => target[p].data = [k \in 1..n.size |-> n.id]

Impossible(n) == IF Portable THEN n.kind \in {"device", "fifo"} ELSE n.kind = "device" /\ ~in.privileged
Untouched(p) == p \in DOMAIN in.pre /\ target[p] \in {in.pre[p], [in.pre[p] EXCEPT !.stale = TRUE]}

\* The only reasons to refuse: a target with content that may not be touched,
\* or a directory of the target where something else has to go.
Conflict(ps) ==
  \/ in.pre # << >> /\ ~in.over
  \/ \E p \in ps \cap DOMAIN in.pre : in.pre[p].kind = "dir" /\ NodeAt(p).kind # "dir"

\* A regular file of the target where a directory of the archive goes.
FileInTheWay(ps) == in.over /\ \E p \in ps \cap DOMAIN in.pre : in.pre[p].kind = "file" /\ NodeAt(p).kind = "dir"

\* Something of entry n is not in the target at p: the entry itself, its
\* owner, its permissions and time, or one of its other records.
Incomplete(p, n) ==
  \/ p \notin DOMAIN target
  \/ n.kind # "hardlink" /\ \/ target[p].owner # <<n.id>> \/ target[p].meta # <<n.id>> \/ target[p].stale
                            \/ target[p].x < n.x

\* What the portable writer leaves out is no more than the owner, a quota
\* project id, or the metadata of a link.
Minor(p, n) == Portable /\ p \in DOMAIN target /\ n.x = Quotas(n)

\* No warning of an entry that is complete, and one of every entry that is not
\* (below a directory that was left out, of the directory).
WarnsOf(ps, NodeFor(_)) ==
  /\ \A p \in warned : p \in ps /\ Incomplete(p, NodeFor(p))
  /\ \A p \in ps : Incomplete(p, NodeFor(p)) /\ ~Minor(p, NodeFor(p)) /\ (p = <<>> \/ Creatable(Front(p))) => p \in warned

\* A restore of the whole archive that succeeds puts every entry whose name
\* can be created in its place, with its content and its metadata (directory
\* times included, although their content was made after them, and below
\* directories the caller may not enter), hardlinks sharing the inode of their
\* target; it warns of no entry that is complete and of every one of which
\* something is missing (on Windows owners are left out without a warning, and
\* OmissionsReported is about the rest), touches nothing else in the target,
\* and fails only for a conflict (extractor.entry, clear, finish, Apply).  A
\* file where a directory goes is left to FileInTheWayRefused.
Restored ==
  in.mode = "all" /\ ~FileInTheWay({p \in Paths : Creatable(p)}) =>
    /\ xpc = "failed" => Conflict({p \in Paths : Creatable(p)})
    /\ xpc = "done" =>
         /\ \A i \in DOMAIN nodes : LET n == nodes[i] IN
              CASE ~Creatable(n.path) -> n.path \notin DOMAIN target
                [] Creatable(n.path) /\ n.kind = "hardlink" ->
                     IF Creatable(n.to) THEN InPlace(n.path, NodeAt(n.to)) /\ target[n.path].ino = n.to
                     ELSE n.path \notin DOMAIN target
                [] Creatable(n.path) /\ Impossible(n) -> n.path \notin DOMAIN target
                [] OTHER -> InPlace(n.path, n) /\ target[n.path].ino \in {n.path}
         /\ \A p \in DOMAIN target \ Paths : Untouched(p)
         /\ WarnsOf(Paths, NodeAt)

\* With Overwrite a restore is refused when a file of the target is where a
\* directory of the archive goes (restore.go:43-44: "A directory in the way of a
\* non-directory entry (or the reverse) is still an error").
FileInTheWayRefused == FileInTheWay({p \in Paths : Creatable(p)}) => xpc # "done"

\* A restore reports every entry of which it leaves something out (restore.go:
\* 14-15: "Whatever cannot be applied ... is reported through Options.OnWarn");
\* only owners the portable writer leaves as they are (portable.go:22).
OmissionsReported ==
  in.mode = "all" /\ xpc = "done" =>
    \A p \in Paths : LET n == NodeAt(p) IN
      p \in DOMAIN target /\ n.kind # "hardlink" /\ (target[p].meta # <<n.id>> \/ target[p].x < n.x) => p \in warned

\* At least one of what comments of fs.go and restore.go promise of every
\* directory, link, file in the way and omission: an archive and its restore
\* that break this refute all four.
ReadPromises == EntriesListed \/ LinksFollowed \/ FileInTheWayRefused \/ OmissionsReported

\* The archive's entries below a requested path.
Selected == {p \in Paths : \E i \in DOMAIN in.paths : IsPrefix(in.paths[i], p)}
PlainParents == UNION {Parents(in.paths[i]) : i \in DOMAIN in.paths} \ Selected

\* Requests with a special case in the walk: a directory that ends in a fifo
\* or socket, and a symbolic link asked for by its name that leads nowhere or
\* to a directory.
LastInDir(p) ==
  p # <<>> /\ \A q \in Paths : q # <<>> /\ Front(q) = Front(p) => q[Len(q)] <= p[Len(p)]
Ordinary ==
  /\ \A p \in Selected : NodeAt(p).kind = "fifo" => ~LastInDir(p)
  /\ \A p \in Range(in.paths) \cap Paths : NodeAt(p).kind = "symlink" =>
       \E q \in Arrive(<<>>, p, 0) : NodeAt(q).kind # "dir"
  /\ ~FileInTheWay(Selected)

\* A restore of requested paths fails for no other reason than content of the
\* target, a path that is not in the archive or that this system cannot
\* create, or a path given twice (restore.go:98-99: "ExtractPaths restores the
\* named archive paths, each with its subtree, below dir").
RequestsHonoured ==
  in.mode = "paths" /\ xpc = "failed" =>
    \/ Conflict(Selected) \/ \E p \in PlainParents \cap DOMAIN in.pre : in.pre[p].kind # "dir"
    \/ \E i \in DOMAIN in.paths : in.paths[i] \notin Paths \/ ~Creatable(in.paths[i])
    \/ ~IsInjective(in.paths)

=============================================================================
