------------------------------ MODULE TreeScan ------------------------------
(***************************************************************************)
(* Collecting what an archive will hold: the roots queued in an Archive,   *)
(* the Scanner's walk over them, and the merge of their trees under one    *)
(* root.                                                                   *)
(*                                                                         *)
(* A name is a number, in sort order, and a path a sequence of names.  The *)
(* disk maps paths to what lstat, readlink, readdir and the extended       *)
(* attributes say; id stands for the inode and with it for owner, mode,    *)
(* times and content, x for the number of extended attribute records.  The *)
(* tree is kept as the sequence of its nodes in depth-first order, which   *)
(* is the order everything downstream visits it in.                        *)
(***************************************************************************)
EXTENDS Integers, Sequences, FiniteSets, SequencesExt, TLC

CONSTANTS
  Inputs,     \* the disks, calls and options explored
  MaxFaults   \* file system errors a scan may meet

\* Components that are not names: "..", the "/" an absolute link target starts
\* with, and the "*" and "**" of patterns.
Up == 0
Slash == -1
Star == -2
StarStar == -3
\* The names with a meaning: .pxarexclude and .pxarexclude-cli.
PxarExclude == 1
PxarExcludeCLI == 2

Kinds == {"dir", "file", "symlink", "fifo", "device"}
NoLink == <<Slash>>

ASSUME ScanConstants ==
  /\ MaxFaults \in Nat
  /\ \A i \in Inputs : \A p \in DOMAIN i.disk : LET e == i.disk[p] IN
       /\ e.kind \in Kinds
       /\ p # <<>> => Front(p) \in DOMAIN i.disk /\ i.disk[Front(p)].kind = "dir"
       /\ \A q \in DOMAIN i.disk : i.disk[q].id = e.id => i.disk[q] = e
       /\ \A q \in DOMAIN i.disk : q # p /\ i.disk[q].id = e.id => e.kind = "file"

VARIABLES
  in,          \* the disk, the calls and the options of this run
  adds,        \* Archive.adds: the queued roots, and
  streams,     \* Archive.streams and Archive.trees
  calls,       \* how many of the caller's Add calls have been made
  spc,         \* "add", "scan", "done" or "failed"
  next,        \* the root being scanned
  stack,       \* the directories being descended
  patterns,    \* Scanner.patterns
  hardlinks,   \* Scanner.hardlinks: archive path of an inode's first occurrence
  nodes,       \* the node tree
  lost,        \* archive paths reported as skipped
  unread       \* directories whose .pxarexclude could not be read

scanVars == <<in, adds, streams, calls, spc, next, stack, patterns, hardlinks, nodes, lost, unread>>

ScanInit ==
  /\ in \in Inputs
  /\ adds = <<>> /\ streams = <<>> /\ calls = 0
  /\ spc = "add" /\ next = 1 /\ stack = <<>>
  /\ patterns = in.exclude /\ hardlinks = << >>
  /\ nodes = <<>> /\ lost = {} /\ unread = {}

-----------------------------------------------------------------------------
(* The file system, as the Scanner's reader shows it *)

Exists(p) == p \in DOMAIN in.disk

\* Stat follows a final symbolic link: where it leads to, or the path itself.
Followed(p) == IF in.disk[p].kind = "symlink" THEN Tail(in.disk[p].to) ELSE p

IsDir(p) == Exists(p) /\ in.disk[p].kind = "dir"
Nlink(p) == Cardinality({q \in DOMAIN in.disk : in.disk[q].id = in.disk[p].id})

Sorted(S) == [i \in 1..Cardinality(S) |-> CHOOSE n \in S : Cardinality({m \in S : m < n}) = i - 1]

\* ReadDirNames sorts.
ReadDirNames(p) == Sorted({Last(q) : q \in {r \in DOMAIN in.disk : r # <<>> /\ Front(r) = p}})

-----------------------------------------------------------------------------
(* Exclude patterns: text (a sequence of components), anchored, dirOnly    *)
(* and include.                                                            *)

\* matchComps: the components of the pattern against those of a path; "**"
\* stands for any number of components, and for at least one at the end.
MatchComps(pat, path) ==
  LET m[i \in 1..Len(pat) + 1, j \in 1..Len(path) + 1] ==
        CASE i > Len(pat) -> j > Len(path)
          [] i <= Len(pat) /\ pat[i] = StarStar ->
               IF \A h \in i..Len(pat) : pat[h] = StarStar THEN j <= Len(path)
               ELSE \E h \in j..Len(path) + 1 : m[i + 1, h]
          [] OTHER -> /\ j <= Len(path)
                      /\ pat[i] \in {path[j], Star}
                      /\ m[i + 1, j + 1]
  IN m[1, 1]

Match(p, path, dir) ==
  /\ p.dirOnly => dir
  /\ path # <<>>
  /\ \E i \in IF p.anchored THEN {1} ELSE 1..Len(path) :
       MatchComps(p.text, SubSeq(path, i, Len(path)))

\* PatternList.Match: the last pattern that matches decides.
ListExcludes(list, path, dir) ==
  LET hits == {i \in 1..Len(list) : Match(list[i], path, dir)}
  IN hits # {} /\ ~list[CHOOSE i \in hits : \A j \in hits : j <= i].include

\* parseExcludeLine: an anchored line is anchored at the directory of its file.
AnchorAt(p, dir) == IF p.anchored THEN [p EXCEPT !.text = dir \o @] ELSE p

\* ParsePattern refuses an empty body.
Parses(p) == p.text # <<>>

\* excluded: the patterns first, then the caller's Filter.
Excluded(src, path) ==
  \/ ListExcludes(patterns, path, in.disk[src].kind = "dir")
  \/ path \in in.filtered

HasList(src) ==
  LET f == Append(src, PxarExclude) IN in.honour /\ Exists(f) /\ in.disk[f].kind = "file"

\* readPxarExclude: the patterns of the directory's .pxarexclude, without the
\* lines that do not parse.
ExcludeLines(src, path) ==
  IF ~HasList(src) THEN <<>>
  ELSE LET lines == in.disk[Append(src, PxarExclude)].lines
       IN SelectSeq([i \in DOMAIN lines |-> AnchorAt(lines[i], path)], Parses)
-----------------------------------------------------------------------------
(* Queueing roots.  A call that fails queues nothing. *)

ValidAs(n) == n >= PxarExclude

Call == in.calls[calls + 1]

Calling(op) ==
  /\ spc = "add" /\ calls < Len(in.calls) /\ Call.op = op
  /\ calls' = calls + 1
  /\ UNCHANGED <<in, spc, next, stack, patterns, hardlinks, nodes, lost, unread>>

AddDirectoryAs ==
  /\ Calling("dir")
  /\ adds' = IF Exists(Call.path) /\ IsDir(Followed(Call.path)) /\ ValidAs(Call.as)
             THEN Append(adds, Call) ELSE adds
  /\ UNCHANGED streams

AddFile ==
  /\ Calling("file")
  /\ adds' = IF Exists(Call.path) /\ ~IsDir(Call.path) THEN Append(adds, Call) ELSE adds
  /\ UNCHANGED streams

AddStream ==
  /\ Calling("stream")
  /\ streams' = IF ValidAs(Call.as) /\ Call.size >= 0 THEN Append(streams, Call) ELSE streams
  /\ UNCHANGED adds

\* validateTree: directories and streams, with proper names, each once.
ValidTree(tree) ==
  /\ \A i \in DOMAIN tree : /\ tree[i].kind \in {"dir", "file"} /\ tree[i].size >= 0
                            /\ ValidAs(Last(tree[i].path))
  /\ IsInjective([i \in DOMAIN tree |-> tree[i].path])

AddTree ==
  /\ Calling("tree")
  /\ streams' = IF ValidTree(Call.tree) THEN Append(streams, Call) ELSE streams
  /\ UNCHANGED adds

\* One directory, or one tree, and nothing else is the archive's root; anything
\* else is put under a virtual root, which needs Options.Name.
SingleDir == Len(adds) = 1 /\ adds[1].op = "dir" /\ streams = <<>>
SingleTree == adds = <<>> /\ Len(streams) = 1 /\ streams[1].op = "tree"
Single == SingleDir \/ SingleTree
RootPath(a) == IF Single THEN <<>> ELSE <<a.as>>

\* New, which refuses bad patterns, and the beginning of scanRoots.
StartScan ==
  /\ spc = "add" /\ calls = Len(in.calls)
  /\ spc' = IF /\ \A i \in DOMAIN in.exclude : Parses(in.exclude[i])
               /\ adds \o streams # <<>>
               /\ Single \/ in.named
            THEN "scan" ELSE "failed"
  /\ UNCHANGED <<in, adds, streams, calls, next, stack, patterns, hardlinks, nodes, lost, unread>>

-----------------------------------------------------------------------------
(* The walk *)

Node(path, kind, id, size, to, x, multi) ==
  [path |-> path, kind |-> kind, id |-> id, size |-> size, to |-> to, x |-> x, multi |-> multi]

\* readExtras: how many records the extended metadata makes; none is read of
\* a symbolic link.
Extras(e) == IF e.kind = "symlink" THEN 0 ELSE e.x

NodeOf(src, path) ==
  LET e == in.disk[src] IN Node(path, e.kind, e.id, e.size, e.to, Extras(e), e.kind = "file" /\ Nlink(src) > 1)

CanFail == Cardinality(lost) + Cardinality(unread) < MaxFaults

\* Registering a file with several links under its inode, unless one was
\* registered before.
Register(src, path) ==
  LET e == in.disk[src]
  IN IF e.kind = "file" /\ Nlink(src) > 1 /\ e.id \notin DOMAIN hardlinks
     THEN (e.id :> path) @@ hardlinks ELSE hardlinks

\* scanNode for a directory.  Its .pxarexclude may be unreadable, which
\* SkipOnError turns into a warning.
EnterDir(src, path, node, rest) ==
  /\ \E read \in BOOLEAN :
       /\ ~read => CanFail /\ in.skip /\ HasList(src)
       /\ patterns' = IF read THEN patterns \o ExcludeLines(src, path) ELSE patterns
       /\ unread' = IF read THEN unread ELSE unread \union {path}
  /\ stack' = Append(rest, [src |-> src, path |-> path, todo |-> ReadDirNames(src), mark |-> Len(patterns)])
  /\ nodes' = Append(nodes, node)
  /\ UNCHANGED hardlinks

\* scanNode for anything else: the second occurrence of an inode is a link to
\* the first.
AddLeaf(src, path, rest) ==
  LET e == in.disk[src]
  IN /\ nodes' = Append(nodes,
            IF e.kind = "file" /\ e.id \in DOMAIN hardlinks
            THEN Node(path, "hardlink", e.id, 0, hardlinks[e.id], 0, FALSE)
            ELSE NodeOf(src, path))
     /\ hardlinks' = Register(src, path)
     /\ stack' = rest
     /\ UNCHANGED <<patterns, unread>>

\* A root that is a symbolic link is scanned through it, without the extended
\* attributes the link would answer for.
ScanRoot ==
  /\ spc = "scan" /\ stack = <<>> /\ next <= Len(adds)
  /\ LET a == adds[next]
         src == Followed(a.path)
         node == NodeOf(src, RootPath(a))
     IN \/ /\ a.op = "dir"
           /\ EnterDir(src, RootPath(a), IF src = a.path THEN node ELSE [node EXCEPT !.x = 0], <<>>)
           /\ UNCHANGED next
        \/ /\ a.op = "file"
           /\ AddLeaf(a.path, RootPath(a), <<>>)
           /\ next' = next + 1
  /\ UNCHANGED <<in, adds, streams, calls, spc, lost>>

Top == Last(stack)
Child == Head(Top.todo)
ChildSrc == Append(Top.src, Child)
ChildPath == Append(Top.path, Child)
Rest == [stack EXCEPT ![Len(stack)].todo = Tail(@)]
AtChild == spc = "scan" /\ stack # <<>> /\ Top.todo # <<>>

ScanChild ==
  /\ AtChild /\ ~Excluded(ChildSrc, ChildPath)
  /\ \/ in.disk[ChildSrc].kind = "dir" /\ EnterDir(ChildSrc, ChildPath, NodeOf(ChildSrc, ChildPath), Rest)
     \/ in.disk[ChildSrc].kind # "dir" /\ AddLeaf(ChildSrc, ChildPath, Rest)
  /\ UNCHANGED <<in, adds, streams, calls, spc, next, lost>>

OmitChild ==
  /\ AtChild /\ Excluded(ChildSrc, ChildPath)
  /\ stack' = Rest
  /\ UNCHANGED <<in, adds, streams, calls, spc, next, patterns, hardlinks, nodes, lost, unread>>

\* An error about a child under SkipOnError: lstat, readlink, readdir or the
\* extended attributes.  The attributes of a file are read after it was
\* registered as the target of later links.
SkipChild ==
  /\ AtChild /\ in.skip /\ CanFail
  /\ lost' = lost \union {ChildPath}
  /\ \/ UNCHANGED hardlinks
     \/ ~Excluded(ChildSrc, ChildPath) /\ hardlinks' = Register(ChildSrc, ChildPath)
  /\ stack' = Rest
  /\ UNCHANGED <<in, adds, streams, calls, spc, next, patterns, nodes, unread>>

\* An error about a root, or about anything without SkipOnError.
ScanFails ==
  /\ spc = "scan" /\ CanFail
  /\ \/ stack = <<>> /\ next <= Len(adds)
     \/ AtChild /\ ~in.skip
  /\ spc' = "failed"
  /\ UNCHANGED <<in, adds, streams, calls, next, stack, patterns, hardlinks, nodes, lost, unread>>

\* The patterns of a directory's own .pxarexclude end with it, and a root's
\* turn ends with the root.  The mutants keep the patterns, and take every
\* directory for a root.
PatternsKept == patterns
PatternsAfter == SubSeq(patterns, 1, Top.mark)
AlwaysNext == next + 1
RootAfter == IF Len(stack) = 1 THEN next + 1 ELSE next

LeaveDir ==
  /\ spc = "scan" /\ stack # <<>> /\ Top.todo = <<>>
  /\ patterns' = PatternsAfter
  /\ stack' = Front(stack)
  /\ next' = RootAfter
  /\ UNCHANGED <<in, adds, streams, calls, spc, hardlinks, nodes, lost, unread>>

-----------------------------------------------------------------------------
(* One tree *)

StreamNode(i) == Node(<<streams[i].as>>, "file", -i, streams[i].size, NoLink, 0, FALSE)

\* Archive order: a directory before its content, siblings by name.
Before(p, q) ==
  \/ IsStrictPrefix(p, q)
  \/ \E i \in DOMAIN p \cap DOMAIN q : SubSeq(p, 1, i - 1) = SubSeq(q, 1, i - 1) /\ p[i] < q[i]

\* The nodes of a tree the caller built, with its children sorted.
TreeNodes(c) ==
  <<Node(RootPath(c), "dir", c.id, 0, NoLink, 0, FALSE)>> \o
  [i \in DOMAIN c.tree |->
     LET n == SortSeq(c.tree, LAMBDA a, b : Before(a.path, b.path))[i]
     IN Node(RootPath(c) \o n.path, n.kind, n.id, n.size, NoLink, 0, FALSE)]

StreamNodes(i) == IF streams[i].op = "tree" THEN TreeNodes(streams[i]) ELSE <<StreamNode(i)>>

\* VirtualRoot: the roots, streams and trees, sorted by name.
VirtualRoot ==
  LET all == nodes \o FlattenSeq([i \in DOMAIN streams |-> StreamNodes(i)])
      names == Sorted({all[i].path[1] : i \in DOMAIN all})
  IN <<Node(<<>>, "dir", 0, 0, NoLink, 0, FALSE)>> \o
     FlattenSeq([n \in DOMAIN names |-> SelectSeq(all, LAMBDA x : x.path[1] = names[n])])

DropReserved(tree) == SelectSeq(tree, LAMBDA x : x.path = <<>> \/ x.path[1] # PxarExcludeCLI)

\* cliPatternNode: the pattern list as a file, after everything else (v1).
CliPatternNode == Node(<<PxarExcludeCLI>>, "file", -Len(streams) - 1, Len(in.exclude), NoLink, 0, FALSE)

BuildTree ==
  /\ spc = "scan" /\ stack = <<>> /\ next > Len(adds)
  /\ LET named == [i \in DOMAIN (adds \o streams) |-> (adds \o streams)[i].as]
     IN IF ~Single /\ (~IsInjective(named) \/ \E i \in DOMAIN named : ~ValidAs(named[i]))
        THEN spc' = "failed" /\ UNCHANGED nodes
        ELSE /\ spc' = "done"
             /\ nodes' = DropReserved(IF SingleDir THEN nodes ELSE IF SingleTree THEN StreamNodes(1) ELSE VirtualRoot) \o
                         (IF in.exclude # <<>> /\ in.format = 1 THEN <<CliPatternNode>> ELSE <<>>)
  /\ UNCHANGED <<in, adds, streams, calls, next, stack, patterns, hardlinks, lost, unread>>

ScanNext ==
  \/ AddDirectoryAs \/ AddFile \/ AddStream \/ AddTree \/ StartScan
  \/ ScanRoot \/ ScanChild \/ OmitChild \/ SkipChild \/ ScanFails \/ LeaveDir
  \/ BuildTree

-----------------------------------------------------------------------------
(* What the tree should hold, said of the disk alone *)

\* The paths below a root, relative to it.
Base(a) == IF a.op = "dir" THEN Followed(a.path) ELSE a.path
Below(a) ==
  {SubSeq(p, Len(Base(a)) + 1, Len(p)) : p \in {q \in DOMAIN in.disk : IsPrefix(Base(a), q)}}

\* The patterns that govern r: those given by the caller, then the lists of
\* the directories above it, outermost first.
Governing(a, r) ==
  LET listAt(i) == LET d == SubSeq(r, 1, i)
                   IN IF RootPath(a) \o d \in unread THEN <<>>
                      ELSE ExcludeLines(Base(a) \o d, RootPath(a) \o d)
  IN in.exclude \o FlattenSeq([i \in 1..Len(r) |-> listAt(i - 1)])

LeftOut(a, r) ==
  LET path == RootPath(a) \o r
  IN r # <<>> /\ \/ path \in lost \union in.filtered
                 \/ ListExcludes(Governing(a, r), path, IsDir(Base(a) \o r))

\* An entry is kept when neither it nor a directory above it is left out.
Kept(a) == {r \in Below(a) : \A i \in 0..Len(r) : ~LeftOut(a, SubSeq(r, 1, i))}

StreamPaths(s) ==
  {RootPath(s)} \union (IF s.op = "tree" THEN {RootPath(s) \o s.tree[i].path : i \in DOMAIN s.tree} ELSE {})

Reserved(path) == path # <<>> /\ path[1] = PxarExcludeCLI

Expected ==
  {p \in UNION {{RootPath(adds[i]) \o r : r \in Kept(adds[i])} : i \in DOMAIN adds}
         \union UNION {StreamPaths(streams[i]) : i \in DOMAIN streams} \union {<<>>} : ~Reserved(p)}
  \union (IF in.exclude # <<>> /\ in.format = 1 THEN {<<PxarExcludeCLI>>} ELSE {})

\* An entry of the tree, as the Scanner or a queued stream leaves it.
NodeType ==
  [path : Seq(Int), kind : Kinds \union {"hardlink"}, id : Int, size : Nat, to : Seq(Int), x : Nat, multi : BOOLEAN]

\* The nodes are a tree in depth-first order: the root first, every other one below a directory
\* before it, with nothing but that directory's content between them.
TreeInOrder ==
  /\ nodes \in Seq(NodeType) /\ nodes # <<>>
  /\ nodes[1].path = <<>> /\ nodes[1].kind = "dir"
  /\ \A i, j \in DOMAIN nodes : nodes[i].path = nodes[j].path => i = j
  /\ \A k \in 2..Len(nodes) : \E i \in 1..k - 1 :
       /\ nodes[i].kind = "dir" /\ nodes[i].path = Front(nodes[k].path)
       /\ \A m \in i + 1..k - 1 : Len(nodes[m].path) > Len(nodes[i].path)

\* The tree a scan hands to the archive holds exactly the entries that no
\* exclude pattern in force at their place, no filter and no reported error
\* leaves out, each of them once, every directory before its content and
\* siblings in name order, with nothing between a directory and the end of
\* its content that is not below it, whatever .pxarexclude files were met on
\* the way (scanNode's stack of patterns, SkipOnError, dropReserved,
\* VirtualRoot).
KeptExactly ==
  spc = "done" =>
    /\ {nodes[i].path : i \in DOMAIN nodes} = Expected
    /\ Len(nodes) = Cardinality(Expected)
    /\ \A i \in 2..Len(nodes) : Reserved(nodes[i].path) \/ Before(nodes[i - 1].path, nodes[i].path)
    /\ TreeInOrder
=============================================================================
