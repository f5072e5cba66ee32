------------------------------ MODULE Catalog ------------------------------
(***************************************************************************)
(* The .pcat1 catalog of an archive: catalogNode's walk over the node tree *)
(* and the Writer, which writes a directory's table when the directory     *)
(* closes, so that tables refer backwards to those of their children; and  *)
(* the decoder, which starts from the table written last.                  *)
(*                                                                         *)
(* A table is one cell, after one for the magic; an entry has the type,    *)
(* name, size and, for a directory, the distance back to its table.        *)
(***************************************************************************)
EXTENDS TreeScan

VARIABLES
  tables,    \* the catalog file
  open,      \* Writer.stack: directories with the entries recorded so far
  cat,       \* the node to record next
  cpc        \* "off", "run" or "done"

catalogVars == <<tables, open, cat, cpc>>

CatalogInit == tables = <<>> /\ open = <<>> /\ cat = 2 /\ cpc = "off"

\* The archive's entry in the root table is a name no node has.
EntryName == 0

Record(type, name, size, id, back) ==
  [type |-> type, name |-> name, size |-> size, id |-> id, back |-> back]

\* NewWriter and StartDirectory of the archive itself.
CatalogStart ==
  /\ spc = "done" /\ cpc = "off"
  /\ tables' = <<<<>>>>
  /\ open' = <<[path |-> <<>>, name |-> EntryName, entries |-> <<>>],
               [path |-> <<>>, name |-> EntryName, entries |-> <<>>]>>
  /\ cpc' = "run"
  /\ UNCHANGED cat

InCatalogDir == cat <= Len(nodes) /\ Front(nodes[cat].path) = Last(open).path

WithRecord(dirs, r) == [dirs EXCEPT ![Len(dirs)].entries = Append(@, r)]

CatalogStartDirectory ==
  /\ cpc = "run" /\ Len(open) > 1 /\ InCatalogDir /\ nodes[cat].kind = "dir"
  /\ open' = Append(open, [path |-> nodes[cat].path, name |-> Last(nodes[cat].path), entries |-> <<>>])
  /\ cat' = cat + 1
  /\ UNCHANGED <<tables, cpc>>

\* AddFile records size and time, the other calls the name alone.
CatalogAdd ==
  /\ cpc = "run" /\ Len(open) > 1 /\ InCatalogDir /\ nodes[cat].kind # "dir"
  /\ LET n == nodes[cat]
     IN open' = WithRecord(open, Record(n.kind, Last(n.path), IF n.kind = "file" THEN n.size ELSE 0,
                                        IF n.kind = "file" THEN n.id ELSE 0, 0))
  /\ cat' = cat + 1
  /\ UNCHANGED <<tables, cpc>>

\* Mutant: the position of a child's table is written as it is.
TableAbsolute(dir, start) == dir.entries

\* writeTable: positions of child tables become distances.
TableOf(dir, start) ==
  [i \in DOMAIN dir.entries |->
     IF dir.entries[i].type = "dir" THEN [dir.entries[i] EXCEPT !.back = start - @] ELSE dir.entries[i]]

CatalogEndDirectory ==
  /\ cpc = "run" /\ Len(open) > 1 /\ ~InCatalogDir
  /\ tables' = Append(tables, TableOf(Last(open), Len(tables)))
  /\ open' = WithRecord(Front(open), Record("dir", Last(open).name, 0, 0, Len(tables)))
  /\ UNCHANGED <<cat, cpc>>

\* The root table; the trailer, which points at it, is the last table's place.
CatalogFinish ==
  /\ cpc = "run" /\ Len(open) = 1
  /\ tables' = Append(tables, TableOf(open[1], Len(tables)))
  /\ open' = <<>>
  /\ cpc' = "done"
  /\ UNCHANGED cat

CatalogNext ==
  CatalogStart \/ CatalogStartDirectory \/ CatalogAdd \/ CatalogEndDirectory \/ CatalogFinish

-----------------------------------------------------------------------------
(* Decode: the tree as the sequence of its entries, depth first *)

RECURSIVE DecodeTable(_, _)
DecodeTable(pos, path) ==
  FlattenSeq([i \in DOMAIN tables[pos + 1] |->
    LET r == tables[pos + 1][i]
        p == Append(path, r.name)
        one == <<[path |-> p, kind |-> r.type, size |-> r.size, id |-> r.id]>>
    IN IF r.type # "dir" THEN one
       ELSE IF r.back \notin 1..pos - 1 THEN <<[path |-> p, kind |-> "out of range", size |-> 0, id |-> 0]>>
       ELSE one \o DecodeTable(pos - r.back, p)])

\* The decoded catalog lists, under the archive's entry, every node of the
\* tree at its place, with its type and the size and time of the files, in
\* the order of the archive (writer.go: tables "written bottom-up ... so
\* parents reference children by backward delta").
CatalogAgrees ==
  cpc = "done" =>
    LET listed == DecodeTable(Len(tables) - 1, <<>>)
    IN /\ Len(listed) = Len(nodes)
       /\ \A i \in 2..Len(nodes) : LET n == nodes[i] IN
            /\ listed[i].path = <<EntryName>> \o n.path
            /\ listed[i].kind = n.kind
            /\ n.kind = "file" => listed[i].size = n.size /\ listed[i].id = n.id
=============================================================================
