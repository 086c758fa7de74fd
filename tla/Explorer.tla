------------------------------ MODULE Explorer ------------------------------
(***************************************************************************)
(* The editable file explorer.  The tree is a text buffer; whatever a      *)
(* command leaves in it is compared with the listing it was rendered from, *)
(* and the difference is carried out on the disk: reconcile and apply_ops  *)
(* of explorer_reconcile.rs, called by maybe_reconcile_explorer after      *)
(* every command that ends in Normal mode.  `u` and <C-r> run revert_ops   *)
(* and apply_applied over the journal of a transaction.                    *)
(*                                                                         *)
(* A path is the sequence of its names and a name is a number.  The trash  *)
(* directory is one more directory of the same file system, <<0>>, that    *)
(* the tree does not list.  A file is its content.                         *)
(***************************************************************************)
EXTENDS Naturals, FiniteSets, Sequences, SequencesExt

CONSTANTS Tree,        \* the paths and contents at the start
          Typed,       \* the names a user types: sequences, for `a/b`
          RootName,    \* the name the header line shows
          MaxTxns,     \* bound on the transactions
          Faults       \* which move of a transaction may fail; 0 is none

Dir == "dir"
Empty == "empty"
Trash == <<0>>

VARIABLES fs,      \* the disk: path -> Dir or the content of a file
          open,    \* ExplorerTree.expanded
          nodes,   \* ExplorerTree.nodes, and the baseline made from them
          reg,     \* ExplorerPane.trashed: what was trashed and where it is
          undo,    \* undo_stack
          redo,    \* redo_stack
          yank,    \* the lines in the unnamed register
          edited,  \* a command has changed the buffer since the last tick
          buf,     \* the buffer, while edited; at rest it is Render(nodes)
          txns,    \* transactions so far
          rash,    \* history: an edit named a path twice, or one in use
          tangled, \* history: an edit moved an entry under a new directory
          failed,  \* history: an operation has reported an error
          obeyed,  \* history: the disk is what the last edit asked for
          past,    \* history: the files before each entry of undo
          future   \* history: the files before each entry of redo

disk == <<fs, reg, undo, redo, txns>>
history == <<rash, tangled, failed, obeyed, past, future>>
vars == <<disk, open, nodes, yank, edited, buf, history>>

(***************************************************************************)
(* The file system: rename(2), mkdir -p and File::create.                  *)
(***************************************************************************)
Below(f, p) == {q \in DOMAIN f : IsPrefix(p, q)}

IsDir(f, p) == p \in DOMAIN f /\ f[p] = Dir

CanMove(f, from, to) ==
  /\ from \in DOMAIN f
  /\ IsDir(f, Front(to))
  /\ ~IsStrictPrefix(from, to)
  /\ to \in DOMAIN f => \/ f[from] # Dir /\ f[to] # Dir
                        \/ f[from] = Dir /\ f[to] = Dir /\ Below(f, to) = {to}

Moved(f, from, to) ==
  LET Tail1(q, p) == SubSeq(q, Len(p) + 1, Len(q))
      src == Below(f, from)
      dst == {to \o Tail1(q, from) : q \in src}
  IN  [q \in (DOMAIN f \ (src \cup {to})) \cup dst |->
         IF q \in dst THEN f[from \o Tail1(q, to)] ELSE f[q]]

CanMkdir(f, p) == \A q \in Prefixes(p) : q \in DOMAIN f => f[q] = Dir

Mkdir(f, p) == [q \in Prefixes(p) |-> Dir] @@ f

CanCreate(f, p) == IsDir(f, Front(p)) /\ ~IsDir(f, p)

Created(f, p) == (p :> Empty) @@ f

(***************************************************************************)
(* A transaction in progress: the disk, the registry, the journal, the     *)
(* renames parked at a temporary name, the moves made so far and the one   *)
(* that is going to fail.  Every move goes through here.  A journal entry  *)
(* has the place in the tree, "at", and the other place, "away": the trash *)
(* slot, or the old name.                                                  *)
(***************************************************************************)
Begin(fault) ==
  [fs |-> fs, reg |-> reg, jnl |-> <<>>, parked |-> <<>>, moves |-> 0,
   fault |-> fault, errors |-> FALSE]

Fails(w) == [w EXCEPT !.errors = TRUE]

Works(w, from, to) == CanMove(w.fs, from, to) /\ w.moves + 1 # w.fault

Move(w, from, to) ==
  IF Works(w, from, to)
  THEN [w EXCEPT !.fs = Moved(@, from, to), !.moves = @ + 1]
  ELSE Fails([w EXCEPT !.moves = @ + 1])

Entry(op, at, away) == [op |-> op, at |-> at, away |-> away]

Noted(w, e) == [w EXCEPT !.jnl = Append(@, e)]

\* trash_path_in reserves the lowest free slot with a placeholder, which a
\* failed move leaves behind.
Slot(p, n) == Append(Trash, 10 * Last(p) + n)

FreeSlot(f, p) ==
  LET n == CHOOSE k \in 0..9 : /\ Slot(p, k) \notin DOMAIN f
                               /\ \A j \in 0..(k - 1) : Slot(p, j) \in DOMAIN f
  IN  Slot(p, n)

ToTrash(w, p, op) ==
  LET dest == FreeSlot(w.fs, p)
      v == [w EXCEPT !.fs = (dest :> IF IsDir(w.fs, p) THEN Dir ELSE Empty) @@ @]
  IN  IF Works(v, p, dest)
      THEN [Noted(Move(v, p, dest), Entry(op, p, dest))
              EXCEPT !.reg = Append(@, [name |-> Last(p), dest |-> dest])]
      ELSE Move(v, p, dest)

\* The parent of the destination is made first, and is not journalled.
Carry(w, from, to, e) ==
  IF ~CanMkdir(w.fs, Front(to)) THEN Fails(w)
  ELSE LET v == [w EXCEPT !.fs = Mkdir(@, Front(to))]
       IN  IF Works(v, from, to) THEN Noted(Move(v, from, to), e)
                                 ELSE Move(v, from, to)

FromTrash(w, e) ==
  LET v == Carry(w, e.away, e.at, e)
  IN  IF Len(v.jnl) = Len(w.jnl) THEN v
      ELSE [v EXCEPT !.reg = RemoveFirstMatch(@, LAMBDA r : r.dest = e.away)]

(***************************************************************************)
(* The listing, the buffer rendered from it, and its parse.  A line has    *)
(* the depth its indent stands for, a name, the trailing slash and an id   *)
(* (0: none); the header is the first line and has none.                   *)
(***************************************************************************)
Line(depth, name, dir, id) ==
  [depth |-> depth, name |-> name, dir |-> dir, id |-> id]

\* read_children: the directories first, then by name.  push_children goes on
\* below a directory that is expanded.
ReadChildren(f, d) ==
  LET kids == {p \in DOMAIN f \ {<<>>, Trash} : Front(p) = d}
      dirs == {p \in kids : f[p] = Dir}
      Before(p, q) == IF (p \in dirs) = (q \in dirs) THEN Last(p) < Last(q)
                                                     ELSE p \in dirs
      rank == [p \in kids |-> Cardinality({q \in kids : Before(q, p)})]
  IN  [i \in 1..Cardinality(kids) |-> CHOOSE p \in kids : rank[p] = i - 1]

RECURSIVE PushChildren(_, _, _)
PushChildren(f, o, d) ==
  LET kids == ReadChildren(f, d)
  IN  FlattenSeq([i \in DOMAIN kids |->
        <<[path |-> kids[i], dir |-> IsDir(f, kids[i])]>> \o
        IF IsDir(f, kids[i]) /\ kids[i] \in o THEN PushChildren(f, o, kids[i])
                                              ELSE <<>>])

Rebuild(f, o) == PushChildren(f, o, <<>>)

Render(base) ==
  <<Line(0, <<RootName>>, FALSE, 0)>> \o
  [i \in DOMAIN base |->
     Line(Len(base[i].path), <<Last(base[i].path)>>, base[i].dir, i)]

\* One step of parse_buffer: the stack has the directories above the line, and
\* a line without its parent is dropped.
ParseLine(st, line) ==
  LET depth == IF line.depth = 0 THEN 1 ELSE line.depth
      above == SelectSeq(st.stack, LAMBDA s : s.depth < depth)
      path  == (IF depth = 1 THEN <<>> ELSE Last(above).path) \o line.name
      orphan == depth > 1 /\ (above = <<>> \/ Last(above).depth # depth - 1)
  IN  IF orphan THEN [st EXCEPT !.stack = above]
      ELSE [stack |-> IF line.dir
                      THEN Append(above, [depth |-> depth, path |-> path])
                      ELSE above,
            entries |-> Append(st.entries, [id |-> line.id, path |-> path,
                                            dir |-> line.dir])]

Parse(lines) ==
  FoldLeft(ParseLine, [stack |-> <<>>, entries |-> <<>>], SubSeq(lines, 2, Len(lines))).entries

(***************************************************************************)
(* reconcile: renames from the shallowest, trashes from the deepest,       *)
(* creations from the shallowest.                                          *)
(***************************************************************************)
Op(op, path, to, dir, restore) ==
  [op |-> op, path |-> path, to |-> to, dir |-> dir, restore |-> restore]

\* sort_by_key is stable.
Shallow(ops) ==
  LET Above(i, j) == \/ Len(ops[i].path) < Len(ops[j].path)
                     \/ Len(ops[i].path) = Len(ops[j].path) /\ i < j
      order == SortSeq([i \in DOMAIN ops |-> i], Above)
  IN  [i \in DOMAIN ops |-> ops[order[i]]]

Deep(ops) ==
  LET Above(i, j) == \/ Len(ops[i].path) > Len(ops[j].path)
                     \/ Len(ops[i].path) = Len(ops[j].path) /\ i < j
      order == SortSeq([i \in DOMAIN ops |-> i], Above)
  IN  [i \in DOMAIN ops |-> ops[order[i]]]

\* The lines that stand for an entry of the listing: the first with its id.
Matched(base, es) ==
  {k \in DOMAIN es : /\ es[k].id \in DOMAIN base
                     /\ \A j \in 1..(k - 1) : es[j].id # es[k].id}

Retyped(base, es, k) == base[es[k].id].dir # es[k].dir

Reconcile(base, es) ==
  LET hit == Matched(base, es)
      Each(S, OpOf(_)) ==
        LET ks == SelectSeq([k \in DOMAIN es |-> k], LAMBDA k : k \in S)
        IN  [i \in DOMAIN ks |-> OpOf(ks[i])]
      renamed == {k \in hit : /\ ~Retyped(base, es, k)
                              /\ base[es[k].id].path # es[k].path}
      retyped == {k \in hit : Retyped(base, es, k)}
      fresh == retyped \cup (DOMAIN es \ hit)
      gone == SelectSeq([i \in DOMAIN base |-> i],
                        LAMBDA i : \A k \in hit : es[k].id # i)
      TrashOp(p) == Op("Trash", p, p, FALSE, FALSE)
  IN  Shallow(Each(renamed, LAMBDA k : Op("Rename", base[es[k].id].path,
                                          es[k].path, es[k].dir, FALSE)))
      \o Deep(Each(retyped, LAMBDA k : TrashOp(base[es[k].id].path))
              \o [i \in DOMAIN gone |-> TrashOp(base[gone[i]].path)])
      \o Shallow(Each(fresh, LAMBDA k : Op("Create", es[k].path, es[k].path,
                                           es[k].dir, k \notin retyped)))

(***************************************************************************)
(* apply_ops, revert_ops and apply_applied: one operation each.            *)
(***************************************************************************)
Temp(f, p) ==
  LET At(n) == Append(Front(p), 1000 + 10 * Last(p) + n)
  IN  At(CHOOSE k \in 0..9 : At(k) \notin DOMAIN f
                             /\ \A j \in 0..(k - 1) : At(j) \in DOMAIN f)

\* A rename onto a name that the batch is still to vacate waits under a
\* temporary name; onto any other it is refused.
ApplyRename(w, o, vacated) ==
  IF o.to \notin DOMAIN w.fs THEN Carry(w, o.path, o.to, Entry("Renamed", o.to, o.path))
  ELSE IF o.path \notin DOMAIN w.fs THEN w
  ELSE IF o.to \notin vacated THEN Fails(w)
  ELSE LET temp == Temp(w.fs, o.path)
           v == Move(w, o.path, temp)
       IN  IF ~Works(w, o.path, temp) THEN v
           ELSE [Noted(v, Entry("Renamed", temp, o.path)) EXCEPT
                   !.parked = Append(@, [from |-> o.path, temp |-> temp, to |-> o.to])]

\* Mutant: a retyped entry is restored as well.
RestoreIndexAlways(reg1, o) ==
  SelectLastInSeq(reg1, LAMBDA r : r.name = Last(o.path))

RestoreIndex(reg1, o) ==
  IF o.restore THEN SelectLastInSeq(reg1, LAMBDA r : r.name = Last(o.path))
               ELSE 0

\* A name in the registry is restored from the trash, newest first, and
\* leaves the registry even if that fails.
ApplyCreate(w, o) ==
  LET i == RestoreIndex(w.reg, o)
      v == [w EXCEPT !.fs = Mkdir(@, Front(o.path))]
  IN  CASE ~CanMkdir(w.fs, Front(o.path)) -> Fails(w)
        [] CanMkdir(w.fs, Front(o.path)) /\ i # 0 ->
             LET dest == w.reg[i].dest
             IN  Carry([w EXCEPT !.reg = RemoveAt(@, i)], dest, o.path,
                       Entry("Restored", o.path, dest))
        [] OTHER ->
             IF ~(IF o.dir THEN CanMkdir(v.fs, o.path) ELSE CanCreate(v.fs, o.path))
             THEN Fails(v)
             ELSE Noted([v EXCEPT !.fs = IF o.dir THEN Mkdir(@, o.path)
                                                  ELSE Created(@, o.path)],
                        Entry("Created", o.path, o.path))

\* Mutant: the destination is taken to be free.
UnparkOverwrites(w, d) ==
  IF Works(w, d.temp, d.to)
  THEN Noted(Move(w, d.temp, d.to), Entry("Renamed", d.to, d.temp))
  ELSE Move(w, d.temp, d.to)

\* The parked renames, once the batch is through.
Unpark(w, d) ==
  LET hop == Entry("Renamed", d.temp, d.from)
  IN  IF d.to \in DOMAIN w.fs
      THEN LET v == Fails(Move(w, d.temp, d.from))
           IN  IF Works(w, d.temp, d.from)
               THEN [v EXCEPT !.jnl = RemoveFirst(@, hop)]
               ELSE v
      ELSE IF Works(w, d.temp, d.to)
           THEN Noted(Move(w, d.temp, d.to), Entry("Renamed", d.to, d.temp))
           ELSE Move(w, d.temp, d.to)

ApplyOps(w, ops) ==
  LET vacated == {ops[i].path : i \in {j \in DOMAIN ops : ops[j].op # "Create"}}
      Step(v, o) == CASE o.op = "Rename" -> ApplyRename(v, o, vacated)
                      [] o.op = "Trash"  -> ToTrash(v, o.path, "Trashed")
                      [] o.op = "Create" -> ApplyCreate(v, o)
      done == FoldLeft(Step, w, ops)
  IN  FoldLeft(Unpark, done, done.parked)

RevertOne(w, e) ==
  CASE e.op \in {"Created", "Restored"} -> ToTrash(w, e.at, "Restored")
    [] e.op = "Trashed" -> FromTrash(w, e)
    [] e.op = "Renamed" -> Carry(w, e.at, e.away, e)

\* Mutant: the journal is reverted from its first entry.
RevertForward(w, jnl) == FoldLeft(RevertOne, w, jnl)

RevertOps(w, jnl) ==
  LET v == FoldLeft(RevertOne, w, Reverse(jnl))
  IN  [v EXCEPT !.jnl = Reverse(@)]

\* A reverted creation is journalled as Restored, so none is Created here.
ReapplyOne(w, e) ==
  CASE e.op = "Restored" -> FromTrash(w, e)
    [] e.op = "Trashed" -> ToTrash(w, e.at, "Trashed")
    [] e.op = "Renamed" -> Carry(w, e.away, e.at, e)

ApplyApplied(w, jnl) == FoldLeft(ReapplyOne, w, jnl)

(***************************************************************************)
(* A command leaves a buffer behind and ends in Normal mode; before the    *)
(* next key the event loop calls maybe_reconcile_explorer, which renders   *)
(* the buffer anew: between two commands it is Render(nodes).              *)
(***************************************************************************)
Files(f) == [p \in {q \in DOMAIN f : ~IsPrefix(Trash, q) /\ f[q] # Dir} |-> f[p]]

\* A new entry has the path of one that the edit moves, retypes or takes out.
Reuses(base, es, k) ==
  \E i \in DOMAIN base :
    /\ base[i].path = es[k].path
    /\ \A j \in Matched(base, es) :
         es[j].id = i => es[j].path # base[i].path \/ Retyped(base, es, j)

\* A path named twice, or given to a new entry while the disk keeps it.
Overwrites(base, es) ==
  \/ \E j, k \in DOMAIN es : j # k /\ es[j].path = es[k].path
  \/ \E k \in DOMAIN es :
       /\ k \in Matched(base, es) => Retyped(base, es, k)
       /\ es[k].path \in DOMAIN fs /\ ~Reuses(base, es, k)

\* The same, or given to a new entry while another is still to leave it.
Careless(base, es) ==
  \/ Overwrites(base, es)
  \/ \E k \in DOMAIN es \ Matched(base, es) : Reuses(base, es, k)

\* An entry moved below a directory that is new in the same edit.
Tangled(base, es) ==
  \E k \in Matched(base, es), j \in DOMAIN es \ Matched(base, es) :
    /\ es[k].path # base[es[k].id].path
    /\ IsStrictPrefix(es[j].path, es[k].path)

\* A name goes to one entry while its own waits for the name of a third.
Chained(base, es) ==
  \E j, k \in Matched(base, es), i \in DOMAIN base :
    /\ es[j].path = base[es[k].id].path
    /\ es[k].path = base[i].path
    /\ i \notin {es[j].id, es[k].id}

\* Every directory above something new is expanded.
Reveal(o, jnl) ==
  o \cup UNION {Prefixes(Front(jnl[i].at)) :
                  i \in {j \in DOMAIN jnl : jnl[j].op # "Trashed"}}

\* What the buffer asks of the disk f: every entry is there, one that was
\* listed with the content it had, one that was retyped with its new type, and
\* what is no longer in the buffer is gone.
Obeys(f, base, es) ==
  /\ \A k \in DOMAIN es : es[k].path \in DOMAIN f
  /\ \A k \in Matched(base, es) :
       IF Retyped(base, es, k) THEN IsDir(f, es[k].path) = es[k].dir
       ELSE f[es[k].path] = fs[base[es[k].id].path]
  /\ \A i \in DOMAIN base :
       base[i].path \in DOMAIN f =>
         \E k \in DOMAIN es : IsPrefix(base[i].path, es[k].path)

\* maybe_reconcile_explorer
Tick ==
  LET es == Parse(buf)
      ops == Reconcile(nodes, es)
  IN  /\ edited
      /\ edited' = FALSE
      /\ buf' = <<>>
      /\ UNCHANGED yank
      /\ \/ /\ ops = <<>>
            /\ UNCHANGED <<disk, open, nodes, history>>
         \/ /\ ops # <<>>
            /\ \E fault \in Faults :
                 LET w == ApplyOps(Begin(fault), ops)
                     some == w.jnl # <<>>
                 IN  /\ fault <= w.moves
                     /\ fs' = w.fs
                     /\ reg' = w.reg
                     /\ undo' = IF some THEN Append(undo, w.jnl) ELSE undo
                     /\ redo' = IF some THEN <<>> ELSE redo
                     /\ past' = IF some THEN Append(past, Files(fs)) ELSE past
                     /\ future' = IF some THEN <<>> ELSE future
                     /\ open' = Reveal(open, w.jnl)
                     /\ obeyed' = (w.errors \/ Obeys(w.fs, nodes, es))
                     /\ failed' = (failed \/ w.errors)
            /\ nodes' = Rebuild(fs', open')
            /\ rash' = (rash \/ Careless(nodes, es))
            /\ tangled' = (tangled \/ Tangled(nodes, es))
            /\ txns' = txns + 1

Command == ~edited /\ txns < MaxTxns

\* The command leaves these lines in the buffer.
Leaves(lines) ==
  /\ edited' = TRUE
  /\ buf' = lines
  /\ UNCHANGED <<disk, history>>

\* dd, or d on a range of lines.
Cut(i, j) ==
  LET lines == Render(nodes)
  IN  /\ Command
      /\ j <= Len(lines)
      /\ yank' = SubSeq(lines, i, j)
      /\ Leaves(SubSeq(lines, 1, i - 1) \o SubSeq(lines, j + 1, Len(lines)))
      /\ UNCHANGED <<open, nodes>>

\* yy
Yank(i) ==
  /\ Command
  /\ yank' = <<Render(nodes)[i]>>
  /\ UNCHANGED <<disk, open, nodes, edited, buf, history>>

Insert(text, i, lines) ==
  SubSeq(text, 1, i) \o lines \o SubSeq(text, i + 1, Len(text))

IsDirLine(i) == IF i = 1 THEN TRUE ELSE nodes[i - 1].dir

\* P on the line below, or p on a file: the lines keep their ids.
Put(i) ==
  /\ Command
  /\ yank # <<>>
  /\ \/ i <= Len(nodes)
     \/ i = Len(nodes) + 1 /\ ~IsDirLine(i)
  /\ Leaves(Insert(Render(nodes), i, yank))
  /\ UNCHANGED <<yank, open, nodes>>

\* The directory of a line.  Before a command inserts below it, it is expanded.
DirAt(i) == IF i = 1 THEN <<>> ELSE nodes[i - 1].path

Expand(i) ==
  /\ open' = open \cup {DirAt(i)}
  /\ nodes' = IF i = 1 \/ DirAt(i) \in open THEN nodes ELSE Rebuild(fs, open')

\* p on a directory: without ids, as its first children.
PutIn(i) ==
  LET least == CHOOSE d \in {l.depth : l \in ToSet(yank)} :
                 \A l \in ToSet(yank) : d <= l.depth
      lines == [k \in DOMAIN yank |->
                  [yank[k] EXCEPT !.id = 0,
                                  !.depth = @ - least + Len(DirAt(i)) + 1]]
  IN  /\ Command
      /\ yank # <<>>
      /\ IsDirLine(i)
      /\ yank' = lines
      /\ Expand(i)
      /\ Leaves(Insert(Render(nodes'), i, lines))

\* o, a name and <Esc>: below a file as its sibling, below a directory inside.
OpenLine(i, name, dir) ==
  /\ Command
  /\ IF IsDirLine(i)
     THEN /\ Expand(i)
          /\ Leaves(Insert(Render(nodes'), i,
                           <<Line(Len(DirAt(i)) + 1, name, dir, 0)>>))
     ELSE /\ UNCHANGED <<open, nodes>>
          /\ Leaves(Insert(Render(nodes), i,
                           <<Line(Len(nodes[i - 1].path), name, dir, 0)>>))
  /\ UNCHANGED yank

\* The text of a line changed: its name, its slash or its indent.
EditLine(i, line) ==
  /\ Leaves([Render(nodes) EXCEPT ![i] = line])
  /\ UNCHANGED <<yank, open, nodes>>

Rename(i, name) ==
  /\ Command
  /\ EditLine(i, [Render(nodes)[i] EXCEPT !.name = name])

Retype(i) ==
  /\ Command
  /\ EditLine(i, [Render(nodes)[i] EXCEPT !.dir = ~@])

Indent(i, depth) ==
  /\ Command
  /\ EditLine(i, [Render(nodes)[i] EXCEPT !.depth = depth])

\* :m, or dd and p in one tick: the line keeps its id.
MoveLine(i, j) ==
  LET rest == RemoveAt(Render(nodes), i)
  IN  /\ Command
      /\ j <= Len(nodes) /\ j # i - 1
      /\ Leaves(Insert(rest, j, <<Render(nodes)[i]>>))
      /\ UNCHANGED <<yank, open, nodes>>

\* Two names exchanged before the mode is Normal again.
Exchange(i, j) ==
  LET lines == Render(nodes)
  IN  /\ Command
      /\ i < j
      /\ Leaves([lines EXCEPT ![i].name = lines[j].name, ![j].name = lines[i].name])
      /\ UNCHANGED <<yank, open, nodes>>

\* Each of three names replaced by the next, and the last by the first, by one
\* command on several lines.
Shift(i) ==
  LET lines == Render(nodes)
  IN  /\ Command
      /\ i + 2 <= Len(lines)
      /\ Leaves([lines EXCEPT ![i].name = lines[i + 1].name,
                              ![i + 1].name = lines[i + 2].name,
                              ![i + 2].name = lines[i].name])
      /\ UNCHANGED <<yank, open, nodes>>

\* <CR> on a directory.
Activate(i) ==
  /\ Command
  /\ IsDirLine(i)
  /\ open' = IF DirAt(i) \in open THEN open \ {DirAt(i)} ELSE open \cup {DirAt(i)}
  /\ nodes' = Rebuild(fs, open')
  /\ UNCHANGED <<disk, yank, edited, buf, history>>

\* No move of an undo or a redo is made to fail: they overwrite what is in
\* their way, and after a failed move that can be a file.
ExplorerUndo ==
  LET w == RevertOps(Begin(0), Last(undo))
  IN  /\ ~edited
      /\ undo # <<>>
      /\ fs' = w.fs
      /\ reg' = w.reg
      /\ undo' = Front(undo)
      /\ redo' = Append(redo, w.jnl)
      /\ past' = Front(past)
      /\ future' = Append(future, Files(fs))
      /\ failed' = (failed \/ w.errors)
      /\ nodes' = Rebuild(fs', open)
      /\ UNCHANGED <<open, yank, edited, buf, txns, rash, tangled, obeyed>>

ExplorerRedo ==
  LET w == ApplyApplied(Begin(0), Last(redo))
      some == w.jnl # <<>>
  IN  /\ ~edited
      /\ redo # <<>>
      /\ fs' = w.fs
      /\ reg' = w.reg
      /\ undo' = IF some THEN Append(undo, w.jnl) ELSE undo
      /\ redo' = Front(redo)
      /\ past' = IF some THEN Append(past, Files(fs)) ELSE past
      /\ future' = Front(future)
      /\ failed' = (failed \/ w.errors)
      /\ nodes' = Rebuild(fs', open)
      /\ UNCHANGED <<open, yank, edited, buf, txns, rash, tangled, obeyed>>

Init ==
  /\ fs = Tree
  /\ open = {}
  /\ nodes = Rebuild(Tree, {})
  /\ reg = <<>>
  /\ undo = <<>> /\ redo = <<>>
  /\ yank = <<>>
  /\ edited = FALSE /\ buf = <<>>
  /\ txns = 0
  /\ rash = FALSE /\ tangled = FALSE /\ failed = FALSE /\ obeyed = TRUE
  /\ past = <<>> /\ future = <<>>

Rows == 1..(Len(nodes) + 1)

Next ==
  \/ \E i \in Rows : \E j \in {i, i + 1} : Cut(i, j)
  \/ \E i \in Rows : Yank(i)
  \/ \E i \in Rows \cup {0} : Put(i)
  \/ \E i \in Rows : PutIn(i)
  \/ \E i \in Rows, name \in Typed, dir \in BOOLEAN : OpenLine(i, name, dir)
  \/ \E i \in Rows \ {1}, name \in Typed : Rename(i, name)
  \/ \E i \in Rows \ {1} : Retype(i)
  \/ \E i \in Rows \ {1}, depth \in 1..2 : Indent(i, depth)
  \/ \E i \in Rows \ {1}, j \in Rows : MoveLine(i, j)
  \/ \E i, j \in Rows \ {1} : Exchange(i, j)
  \/ \E i \in Rows \ {1} : Shift(i)
  \/ \E i \in Rows \ {1} : Activate(i)
  \/ Tick
  \/ ExplorerUndo
  \/ ExplorerRedo

Spec == Init /\ [][Next]_vars

(***************************************************************************)
(* Properties.                                                             *)
(***************************************************************************)
Contents(f) == {f[p] : p \in DOMAIN f} \ {Dir, Empty}

\* Edits of which a failing move does destroy content: a chain of names
\* (NeverClobbers is about those), a new entry at a path still to be left.
LosesToFault(base, es) ==
  \/ Chained(base, es)
  \/ \E k \in DOMAIN es \ Matched(base, es) : Reuses(base, es, k)

Excepted ==
  /\ edited /\ ~edited'
  /\ LET es == Parse(buf) IN
     \/ Overwrites(nodes, es)
     \/ failed' /\ LosesToFault(nodes, es)

\* No edit of the buffer destroys the content of a file, whichever of its
\* moves fails, and no undo or redo does: what leaves the tree is in the trash.
\* Excepted is an edit that names a path twice or creates an entry where
\* another stays (Overwrites; NoContentDestroyed is about those), one that
\* LosesToFault if a move fails, and everything after an edit that is `rash` or
\* an operation that reported an error.  This is the refusal to overwrite in
\* apply_ops, its parked renames and the choice of trash slots.
NothingLost ==
  [][Contents(fs) \subseteq Contents(fs') \/ rash \/ failed \/ Excepted]_vars

\* `u` puts every file back where it was before the transaction, and <C-r>
\* where it was before the `u`, over any sequence of them, with the trash slots
\* chosen anew each time: revert_ops and apply_applied are each other's inverse
\* on what apply_ops journals.  Excepted is an edit that moves an entry into a
\* directory it creates: the move makes the directory before its creation is
\* journalled, so `u` trashes it with the entry inside.
UndoRedoInverse ==
  [][~rash /\ ~tangled /\ ~failed /\ txns' = txns =>
       /\ Len(undo') < Len(undo) => Files(fs') = Last(past)
       /\ Len(redo') < Len(redo) => Files(fs') = Last(future)]_vars

\* An edit that reports no error leaves the disk as the buffer has it ("makes
\* the filesystem match the buffer"), whatever was trashed, restored, swapped
\* or undone before.
DiskFollowsBuffer == rash \/ failed \/ obeyed

\* Nothing an edit does destroys the content of a file: "Deletions go to a
\* recoverable trash; `u`/`<C-r>` reverse the filesystem operations"
\* (CHANGELOG.md).  It fails: a new line with a name that exists, typed or put
\* from a copy of the line, reaches File::create, which empties the file.
NoContentDestroyed == Contents(Tree) \subseteq Contents(fs)

\* When a parked rename cannot be finished, "move the parked file back to its
\* original name - never clobber, never leave a temp behind" (apply_ops).  It
\* fails: in a chain of names another file has that name by then.
NeverClobbers == [][Contents(fs) \subseteq Contents(fs') \/ rash']_vars

=============================================================================
