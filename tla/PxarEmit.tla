------------------------------ MODULE PxarEmit ------------------------------
(***************************************************************************)
(* Writing the node tree as a pxar archive: the emitter's walk, the        *)
(* goodbye tables that close directories, and the size estimates.          *)
(*                                                                         *)
(* Every record is one cell, and so is every unit of content and every     *)
(* item of a goodbye table; a position is the number of cells before it.   *)
(* The payload stream of a split archive is written alongside, in the      *)
(* order of the files (SplitArchive has the two as concurrent processes).  *)
(***************************************************************************)
EXTENDS TreeScan

CONSTANT
  Hash(_)     \* of a name; not injective

VARIABLES
  cells,        \* the archive, or the metadata stream of a split one
  pay,          \* the payload stream of a split archive
  at,           \* the node to write next
  frames,       \* the directories being written
  linkTargets,  \* emitter.linkTargets: where a file with several links starts
  epc           \* "off", "run", "done" or "failed"

emitVars == <<cells, pay, at, frames, linkTargets, epc>>

EmitInit == cells = <<>> /\ pay = <<>> /\ at = 1 /\ frames = <<>> /\ linkTargets = << >> /\ epc = "off"

V2 == in.format = 2
Cell(t, v) == [t |-> t, v |-> v]
Cells(t, v, n) == [i \in 1..n |-> Cell(t, v)]

-----------------------------------------------------------------------------
(* Goodbye tables *)

\* bits.Len64
BitLen(n) == CHOOSE e \in 0..n : n < 2^e /\ \A d \in 0..e - 1 : n >= 2^d

\* insertBST: n items of the sorted sequence, after the first off of them, go
\* below index i of a tree of depth e.  With a last level too short to fill
\* the left half, the root of the subtree comes earlier than the middle.
InsertBST(sorted) ==
  LET ins[n \in Nat, e \in Nat, i \in Nat, off \in Nat] ==
        IF n = 0 THEN << >>
        ELSE LET p == 2^(e - 1)
                 c == (3 * p) \div 2 - 1
                 k == IF n < c THEN p - 1 + n - c ELSE p - 1
             IN (i :> sorted[off + k + 1])
                @@ ins[k, e - 1, 2 * i + 1, off]
                @@ ins[n - k - 1, e - 1, 2 * i + 2, off + k + 1]
  IN ins[Len(sorted), BitLen(Len(sorted)), 0, 0]

PermuteBST(sorted) ==
  LET tree == InsertBST(sorted) IN [i \in 1..Len(sorted) |-> tree[i - 1]]

\* Mutant: the items stay in name order.
SortByName(items) == items

\* Items by hash.  Among equal hashes the order of the children is kept, as
\* sort.Slice does for a dozen items or fewer, which it sorts by insertion.
SortByHash(items) ==
  SortSeq(items, LAMBDA a, b : a.hash < b.hash \/ (a.hash = b.hash /\ a.start < b.start))

\* AppendGoodbye: the record, with offsets counted backwards from its start.
Goodbye(items, entryStart, gbStart) ==
  LET tree == PermuteBST(SortByHash(items))
      size == Len(items) + 2
  IN <<Cell("goodbye", size)>> \o
     [i \in 1..Len(items) |-> Cell("item",
        [hash |-> tree[i].hash, off |-> gbStart - tree[i].start, length |-> tree[i].length])] \o
     <<Cell("tail", [off |-> gbStart - entryStart, size |-> size])>>

-----------------------------------------------------------------------------
(* The emitter *)

EmitStart ==
  /\ spc = "done" /\ epc = "off"
  /\ epc' = "run"
  /\ cells' = IF ~V2 THEN <<>>
              ELSE <<Cell("version", 2)>> \o (IF in.exclude = <<>> THEN <<>> ELSE <<Cell("prelude", in.exclude)>>)
  /\ pay' = IF V2 THEN <<Cell("start", 0)>> ELSE <<>>
  /\ UNCHANGED <<at, frames, linkTargets>>

AtNode == nodes[at]
Filename(n) == IF n.path = <<>> THEN <<>> ELSE <<Cell("filename", Last(n.path))>>

\* Extended attributes, access control lists, capabilities and the quota id:
\* a cell for each record.
ExtraRecords(n) == Cells("xattr", n.id, n.x)

\* metadataBytes: the entry and the records of its extended metadata.
MetadataRecords(n) == <<Cell("entry", [kind |-> n.kind, id |-> n.id])>> \o ExtraRecords(n)
PayloadRecord(n) == <<Cell("payload", n.size)>> \o Cells("data", n.id, n.size)

\* The records after the metadata; a fifo or socket has none.
TypeRecords(n) ==
  CASE n.kind = "file" /\ V2 -> <<Cell("ref", [off |-> Len(pay), size |-> n.size])>>
    [] n.kind = "file" /\ ~V2 -> PayloadRecord(n)
    [] n.kind = "symlink" -> <<Cell("symlink", n.to)>>
    [] n.kind = "device" -> <<Cell("device", n.id)>>
    [] n.kind = "fifo" -> <<>>

\* The goodbye item of a child; the content of a file in a payload stream
\* counts as if it were inline.
WithItem(fs, n, start, length) ==
  [fs EXCEPT ![Len(fs)].items = Append(@, [hash |-> Hash(Last(n.path)), start |-> start, length |-> length])]

\* The node to write next belongs to the innermost open directory.
InOpenDir == at <= Len(nodes) /\ (at > 1 => Front(AtNode.path) = Last(frames).path)

EmitDir ==
  /\ epc = "run" /\ InOpenDir /\ AtNode.kind = "dir"
  /\ cells' = cells \o Filename(AtNode) \o MetadataRecords(AtNode)
  /\ frames' = Append(frames, [path |-> AtNode.path, start |-> Len(cells), items |-> <<>>,
                               entry |-> Len(cells) + Len(Filename(AtNode))])
  /\ at' = at + 1
  /\ UNCHANGED <<pay, linkTargets, epc>>

EmitLeaf ==
  /\ epc = "run" /\ InOpenDir /\ AtNode.kind \notin {"dir", "hardlink"}
  /\ LET n == AtNode
         new == Filename(n) \o MetadataRecords(n) \o TypeRecords(n)
         inPay == V2 /\ n.kind = "file"
     IN /\ cells' = cells \o new
        /\ pay' = IF inPay THEN pay \o PayloadRecord(n) ELSE pay
        /\ linkTargets' = IF n.multi THEN (n.path :> Len(cells)) @@ linkTargets ELSE linkTargets
        /\ frames' = WithItem(frames, n, Len(cells), Len(new) + (IF inPay THEN n.size ELSE 0))
  /\ at' = at + 1
  /\ UNCHANGED epc

\* How far back a link at start finds its target; the mutant counts from
\* the record after the filename.
DistanceFromRecord(start, to) == start + 1 - linkTargets[to]
LinkDistance(start, to) == start - linkTargets[to]

EmitHardlink ==
  /\ epc = "run" /\ InOpenDir /\ AtNode.kind = "hardlink" /\ AtNode.to \in DOMAIN linkTargets
  /\ cells' = cells \o Filename(AtNode) \o
       <<Cell("hardlink", [off |-> LinkDistance(Len(cells), AtNode.to), to |-> AtNode.to])>>
  /\ frames' = WithItem(frames, AtNode, Len(cells), 2)
  /\ at' = at + 1
  /\ UNCHANGED <<pay, linkTargets, epc>>

\* "target not emitted before the link"
EmitUnresolved ==
  /\ epc = "run" /\ InOpenDir /\ AtNode.kind = "hardlink" /\ AtNode.to \notin DOMAIN linkTargets
  /\ epc' = "failed"
  /\ UNCHANGED <<cells, pay, at, frames, linkTargets>>

\* A directory's content is complete: its goodbye table, and its item in the
\* table of its parent.  The root's tail leads to the start of the stream.
EmitGoodbye ==
  /\ epc = "run" /\ at > 1 /\ ~InOpenDir
  /\ LET f == Last(frames)
         root == Len(frames) = 1
         new == Goodbye(f.items, IF root THEN 0 ELSE f.entry, Len(cells))
     IN /\ cells' = cells \o new
        /\ frames' = IF root THEN <<>>
                     ELSE WithItem(Front(frames), f, f.start, Len(cells) + Len(new) - f.start)
        /\ epc' = IF root THEN "done" ELSE "run"
        /\ pay' = IF root /\ V2 THEN Append(pay, Cell("end", 0)) ELSE pay
  /\ UNCHANGED <<at, linkTargets>>

EmitNext == EmitStart \/ EmitDir \/ EmitLeaf \/ EmitHardlink \/ EmitUnresolved \/ EmitGoodbye

-----------------------------------------------------------------------------
(* The size estimates *)

ChildCount(p) == Cardinality({i \in DOMAIN nodes : nodes[i].path # <<>> /\ Front(nodes[i].path) = p})

\* sizeMetadata and the size of a goodbye record; the mutant forgets the tail.
SizeMetadata(n) == 1 + n.x
SizeWithoutTail(n) == n + 1
SizeGoodbye(n) == n + 2

\* One node's share of the archive, or of the metadata stream.
NodeSize(n) ==
  (IF n.path = <<>> THEN 0 ELSE 1) +
  CASE n.kind = "hardlink" -> 1
    [] n.kind = "dir" -> SizeMetadata(n) + SizeGoodbye(ChildCount(n.path))
    [] n.kind = "file" -> SizeMetadata(n) + 1 + (IF V2 THEN 0 ELSE n.size)
    [] n.kind \in {"symlink", "device"} -> SizeMetadata(n) + 1
    [] n.kind = "fifo" -> SizeMetadata(n)

SumOver(f(_), s) == FoldLeft(LAMBDA sum, n : sum + f(n), 0, s)

\* EstimatedSizeV1, and the two sizes of EstimatedSizeV2
EstimateArchive == SumOver(NodeSize, nodes)
EstimateMeta == 1 + (IF in.exclude = <<>> THEN 0 ELSE 1) + SumOver(NodeSize, nodes)
EstimatePayload == 2 + SumOver(LAMBDA n : IF n.kind = "file" THEN 1 + n.size ELSE 0, nodes)

\* The sizes announced for a tree are the sizes of the streams written for it
\* ("an invariant the tests enforce; divergence here is a bug",
\* archive/estimate.go), in both formats and with every kind of record.
EstimateExact ==
  epc = "done" => IF V2 THEN Len(cells) = EstimateMeta /\ Len(pay) = EstimatePayload
                  ELSE Len(cells) = EstimateArchive
=============================================================================
