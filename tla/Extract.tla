------------------------------ MODULE Extract ------------------------------
(***************************************************************************)
(* Restoring an archive below a directory: Extract, which takes every      *)
(* entry of a sequential Reader, and ExtractPaths, which walks the FS      *)
(* below the requested paths.                                              *)
(*                                                                         *)
(* The target maps paths to what is there: the inode (named after the path *)
(* it was created at), content, and the metadata applied to it.  Creating  *)
(* or removing an entry changes the time of its directory (stale).  A      *)
(* locked directory, once its metadata is applied, lets only a privileged  *)
(* caller in.  Names that cannot be created are those of Windows, where    *)
(* metadata is written by the portable writer.                             *)
(***************************************************************************)
EXTENDS PxarReader

VARIABLES
  rd,       \* the Reader: position, unread content, open directories
  got,      \* what the Reader has returned: entry and start of its filename
  target,   \* the directory restored into
  dirs,     \* extractor.dirs: directories whose metadata waits for finish
  skip,     \* extractor.skip: a directory left out for its name
  warned,   \* paths the caller was warned about
  asked,    \* ExtractPaths: requested paths done
  todo,     \* ExtractPaths: what the walk visits next
  xpc       \* "off", "read", "walk", "finish", "done" or "failed"

extractVars == <<rd, got, target, dirs, skip, warned, asked, todo, xpc>>

\* Something in the target.  meta is <<id>> once permissions and time of id
\* are applied, owner once its owner is, x counts its other records applied.
Thing(kind, ino, data, to) ==
  [kind |-> kind, ino |-> ino, data |-> data, to |-> to, meta |-> <<>>, owner |-> <<>>, x |-> 0, stale |-> FALSE]

ExtractInit ==
  /\ rd = [pos |-> 0, left |-> 0, dirs |-> <<>>] /\ got = <<>>
  /\ target = << >> /\ dirs = <<>> /\ skip = <<>> /\ warned = {}
  /\ asked = 0 /\ todo = <<>> /\ xpc = "off"

-----------------------------------------------------------------------------
(* The target's file system *)

Portable == in.bad # {}

Present(t, p) == p \in DOMAIN t

\* Permissions of n that keep an unprivileged caller out.
Shuts(n) == ~Portable /\ ~in.privileged /\ n.kind = "dir" /\ n.id \in in.locked
Locked(t, p) == t[p].meta # <<>> /\ Shuts([kind |-> t[p].kind, id |-> t[p].meta[1]])
Enterable(t, p) == Present(t, p) /\ t[p].kind = "dir" /\ ~Locked(t, p)

\* os.Root: where a name leads below the root, links on the way followed and
\* the last component not; nowhere when a directory is missing or closed, or
\* a link leaves the root.
RootLinks == 8
RECURSIVE Lead(_, _, _, _)
Lead(t, cur, rest, links) ==
  IF rest = <<>> THEN {cur}
  ELSE IF ~Enterable(t, cur) \/ Head(rest) = Slash THEN {}
  ELSE IF Head(rest) = Up THEN IF cur = <<>> THEN {} ELSE Lead(t, Front(cur), Tail(rest), links)
  ELSE LET c == Append(cur, Head(rest))
       IN IF Len(rest) = 1 \/ ~Present(t, c) \/ t[c].kind # "symlink" THEN Lead(t, c, Tail(rest), links)
          ELSE IF links = RootLinks THEN {} ELSE Lead(t, cur, t[c].to \o Tail(rest), links + 1)
Place(t, name) == Lead(t, <<>>, name, 0)
There(t, name) == {q \in Place(t, name) : Present(t, q)}

Touch(t, p) == [t EXCEPT ![Front(p)].stale = TRUE]
Create(t, p, thing) == Touch((p :> thing) @@ t, p)
Unlink(t, ps) == FoldSet(LAMBDA p, u : Touch([q \in DOMAIN u \ {p} |-> u[q]], p), t, ps)

\* Mknod: making a device takes privileges, and the portable writer makes no
\* special file.
CanMake(n) == (n.kind = "device" => in.privileged) /\ (n.kind \in {"device", "fifo"} => ~Portable)

-----------------------------------------------------------------------------
(* Apply: the owner, the other records, permissions and time *)

\* chown without privileges: only an owner the caller already is.
CanChown(n) == ~Portable /\ (in.privileged \/ n.id \in in.mine)

\* The records that are set: extended attributes of files and directories,
\* without those the target does not take; never the quota project id.
Quotas(n) == IF n.id \in in.quota THEN 1 ELSE 0
Refusals(n) == IF n.id \in in.refused THEN 1 ELSE 0
RecordsSet(n) == IF ~Portable /\ n.kind \in {"file", "dir"} THEN n.x - Quotas(n) - Refusals(n) ELSE 0

\* The root is reached through itself: with permissions that shut the caller
\* out its time cannot be set any more.
TimeSet(name, n) == name # <<>> \/ ~Shuts(n)

\* The portable writer leaves symbolic links as they are.
Applied(thing, name, n) ==
  IF Portable /\ n.kind = "symlink" THEN thing
  ELSE [thing EXCEPT !.meta = <<n.id>>, !.owner = IF CanChown(n) THEN <<n.id>> ELSE @,
                     !.x = RecordsSet(n), !.stale = ~TimeSet(name, n)]
Apply(t, name, n) == [p \in DOMAIN t |-> IF p \in There(t, name) THEN Applied(t[p], name, n) ELSE t[p]]

\* What Apply warns of.  The portable writer says nothing of owners, quota
\* project ids and links.
ApplyWarns(t, name, n) ==
  \/ There(t, name) = {}
  \/ Portable /\ n.x > Quotas(n)
  \/ ~Portable /\ (~CanChown(n) \/ RecordsSet(n) < n.x \/ ~TimeSet(name, n))

-----------------------------------------------------------------------------
(* clear: what an entry replaces when overwriting *)

\* A directory is in the way of anything else; anything else gives way to a
\* directory too.
InTheWay(name, isDir) == in.over /\ ~isDir /\ \E q \in There(target, name) : target[q].kind = "dir"
Clear(name) == IF in.over THEN Unlink(target, {q \in There(target, name) : target[q].kind # "dir"}) ELSE target

-----------------------------------------------------------------------------
(* entry: one entry restored at rel; then is the state after success *)

Warn(p) == warned' = warned \union {p}
WarnIf(cond, p) == warned' = IF cond THEN warned \union {p} ELSE warned
Skipped(rel) == skip # <<>> /\ IsStrictPrefix(skip, rel)
BadName(rel) == rel # <<>> /\ Last(rel) \in in.bad

\* The name cannot be created on this system: the entry, and for a directory
\* its subtree, is left out with a warning.
EntryBadName(n, rel) ==
  /\ Warn(rel)
  /\ skip' = IF n.kind = "dir" THEN rel ELSE skip
  /\ UNCHANGED <<target, dirs>>

\* Where an entry can still be made after clear.
Free(t, name) == {q \in Place(t, name) : ~Present(t, q)}
Make(t, things) == FoldSet(LAMBDA q, u : Create(u, q, things[q]), t, DOMAIN things)

\* A link whose target is not there, because it was left out, is a warning.
EntryHardlink(n, rel) ==
  LET t == Clear(rel)
      ok == There(t, n.to) # {} /\ Free(t, rel) # {}
  IN /\ target' = IF ok THEN Make(t, [q \in Free(t, rel) |-> t[CHOOSE p \in There(t, n.to) : TRUE]]) ELSE t
     /\ WarnIf(~ok, rel)
     /\ UNCHANGED <<dirs, skip>>

\* A directory that is already there is used as it is.
EntryDir(n, rel) ==
  /\ target' = Make(Clear(rel), [q \in Free(Clear(rel), rel) |-> Thing("dir", q, <<>>, NoLink)])
  /\ dirs' = Append(dirs, [name |-> rel, n |-> n])
  /\ UNCHANGED <<skip, warned>>

\* Regular files, symbolic links and special files: made, then given their
\* metadata.
EntryOther(n, rel, data) ==
  LET t == Clear(rel)
      made == Free(t, rel) # {} /\ CanMake(n)
      u == Make(t, [q \in Free(t, rel) |-> Thing(n.kind, q, data, n.to)])
  IN /\ target' = IF made THEN Apply(u, rel, n) ELSE t
     /\ WarnIf(~made \/ ApplyWarns(u, rel, n), rel)
     /\ UNCHANGED <<dirs, skip>>

\* Errors: a directory in the way, a regular file that is already there, and
\* a file or directory whose parent is not.
Refused(n, rel) ==
  \/ InTheWay(rel, n.kind = "dir")
  \/ n.kind = "file" /\ Free(Clear(rel), rel) = {}
  \/ n.kind = "dir" /\ Place(target, rel) = {}

Entry(n, rel, data, then) ==
  LET usable == ~Skipped(rel) /\ ~BadName(rel)
  IN /\ xpc' = IF usable /\ Refused(n, rel) THEN "failed" ELSE then
     /\ \/ (Skipped(rel) \/ (usable /\ Refused(n, rel))) /\ UNCHANGED <<target, dirs, skip, warned>>
        \/ ~Skipped(rel) /\ BadName(rel) /\ EntryBadName(n, rel)
        \/ /\ usable /\ ~Refused(n, rel)
           /\ \/ n.kind = "hardlink" /\ EntryHardlink(n, rel)
              \/ n.kind = "dir" /\ EntryDir(n, rel)
              \/ n.kind \notin {"dir", "hardlink"} /\ EntryOther(n, rel, data)

-----------------------------------------------------------------------------
(* newExtractor *)

StartExtract ==
  /\ epc = "done" /\ xpc = "off"
  /\ target' = (<<>> :> Thing("dir", <<>>, <<>>, NoLink)) @@ in.pre
  /\ xpc' = IF in.pre # << >> /\ ~in.over THEN "failed"
            ELSE IF in.mode = "all" THEN "read" ELSE "walk"
  /\ UNCHANGED <<rd, got, dirs, skip, warned, asked, todo>>

-----------------------------------------------------------------------------
(* Extract: Reader.Next and entry, until the end of the archive *)

\* Content of the last entry that was not read is discarded (v1; in a split
\* archive it is in the other stream).
NextPos == IF V2 THEN rd.pos ELSE rd.pos + rd.left
AtEnd == got # <<>> /\ rd.dirs = <<>>

ReadGoodbye ==
  /\ xpc = "read" /\ got # <<>> /\ ~AtEnd /\ Peek(NextPos, Len(cells)) = "goodbye"
  /\ rd' = [pos |-> NextPos + Value(NextPos), left |-> 0, dirs |-> Front(rd.dirs)]
  /\ UNCHANGED <<got, target, dirs, skip, warned, asked, todo, xpc>>

\* Next returned d: it is restored, and the content of a file read on the way.
TakeEntry(d, n) ==
  LET read == n.kind = "file" /\ ~Skipped(n.path) /\ ~BadName(n.path)
  IN /\ got' = Append(got, [node |-> n, start |-> NextPos])
     /\ rd' = [pos |-> IF read /\ ~V2 THEN d.pos + n.size ELSE d.pos,
               left |-> IF read THEN 0 ELSE n.size,
               dirs |-> IF n.kind = "dir" THEN Append(rd.dirs, n.path) ELSE rd.dirs]
     /\ Entry(n, n.path, Content(d), "read")

Take(d) ==
  IF d.ok /\ PayloadResolves(d) THEN TakeEntry(d, d.node)
  ELSE xpc' = "failed" /\ UNCHANGED <<rd, got, target, dirs, skip, warned>>

ReadEntry ==
  /\ xpc = "read" /\ ~AtEnd /\ (got # <<>> => Peek(NextPos, Len(cells)) # "goodbye")
  /\ Take(IF got = <<>> THEN RootEntry ELSE DecodeChild(NextPos, Len(cells), Last(rd.dirs)))
  /\ UNCHANGED <<asked, todo>>

ReadEnd ==
  /\ xpc = "read" /\ AtEnd
  /\ xpc' = IF NextPos = Len(cells) THEN "finish" ELSE "failed"
  /\ UNCHANGED <<rd, got, target, dirs, skip, warned, asked, todo>>

-----------------------------------------------------------------------------
(* ExtractPaths: fs.WalkDir below each requested path *)

Covered(p) == \E i \in DOMAIN in.paths : IsStrictPrefix(in.paths[i], p)

\* MkdirAll: the parents that are missing, as plain directories.
Parents(p) == {SubSeq(p, 1, i) : i \in 1..Len(p) - 1}
MkdirAll(p) == [q \in Parents(p) \ DOMAIN target |-> Thing("dir", q, <<>>, NoLink)] @@ target

\* fs.WalkDir begins with Stat, which follows a symbolic link: one that leads
\* nowhere in the archive is an error.
WalkPath ==
  /\ xpc = "walk" /\ todo = <<>> /\ asked < Len(in.paths)
  /\ asked' = asked + 1
  /\ LET p == in.paths[asked + 1]
     IN IF Covered(p) THEN UNCHANGED <<target, todo, xpc>>
        ELSE IF \E q \in Parents(p) : Last(q) \in in.bad \/ (Present(target, q) /\ target[q].kind # "dir")
        THEN xpc' = "failed" /\ UNCHANGED <<target, todo>>
        ELSE /\ target' = MkdirAll(p)
             /\ IF Stat(p).ok THEN todo' = <<p>> /\ UNCHANGED xpc ELSE xpc' = "failed" /\ UNCHANGED todo
  /\ UNCHANGED <<rd, got, dirs, skip, warned>>

\* The walk's function at one name, found as s, with the listing of a
\* directory; a directory that cannot be listed ends the walk.
Visit(name, s, list) ==
  IF ~s.ok \/ ~PayloadResolves(s) THEN xpc' = "failed" /\ UNCHANGED <<target, dirs, skip, warned, todo>>
  ELSE /\ Entry(s.node, name, IF s.node.kind = "file" THEN Content(s) ELSE <<>>,
                IF list.ok THEN "walk" ELSE "failed")
       /\ todo' = IF list.ok THEN [i \in DOMAIN list.names |-> Append(name, list.names[i])] \o Tail(todo)
                  ELSE todo

\* fs.WalkDir: the requested name counts as what Stat found, so that a link to
\* a directory is listed after it was visited; names below count as listed.
WalkedAs(name) == IF name = in.paths[asked] THEN Stat(name) ELSE Lstat(name)
ListingOf(d) == IF d.ok /\ d.node.kind = "dir" THEN ReadDir(d) ELSE [ok |-> TRUE, names |-> <<>>]

VisitPath ==
  /\ xpc = "walk" /\ todo # <<>>
  /\ Visit(Head(todo), Lstat(Head(todo)), ListingOf(WalkedAs(Head(todo))))
  /\ UNCHANGED <<rd, got, asked>>

WalkEnd ==
  /\ xpc = "walk" /\ todo = <<>> /\ asked = Len(in.paths)
  /\ xpc' = "finish"
  /\ UNCHANGED <<rd, got, target, dirs, skip, warned, asked, todo>>

-----------------------------------------------------------------------------
(* finish: the metadata of directories, the last one entered first *)

\* The directory whose turn it is; the mutant takes them as they were entered.
FirstEntered == 1
DeferredAt == Len(dirs)
Deferred == dirs[DeferredAt]

ApplyDir ==
  /\ xpc = "finish" /\ dirs # <<>>
  /\ target' = Apply(target, Deferred.name, Deferred.n)
  /\ WarnIf(ApplyWarns(target, Deferred.name, Deferred.n), Deferred.name)
  /\ dirs' = RemoveAt(dirs, DeferredAt)
  /\ UNCHANGED <<rd, got, skip, asked, todo, xpc>>

FinishDone ==
  /\ xpc = "finish" /\ dirs = <<>>
  /\ xpc' = "done"
  /\ UNCHANGED <<rd, got, target, dirs, skip, warned, asked, todo>>

ExtractNext ==
  \/ StartExtract
  \/ ReadGoodbye \/ ReadEntry \/ ReadEnd
  \/ WalkPath \/ VisitPath \/ WalkEnd
  \/ ApplyDir \/ FinishDone
=============================================================================
