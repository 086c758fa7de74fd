--------------------------- MODULE LspClientProofs ---------------------------
(***************************************************************************)
(* Proofs about LspClient.  The two threads meet only in the channels, so  *)
(* the inductive invariant speaks about what the channels hold and in      *)
(* which order: an exit that one side does not know of is on its way, a    *)
(* closed buffer that is still attached has its detach ahead of the next   *)
(* attach of the file, and the commands on their way lead the text a       *)
(* server has to the one the next edits are made on.                       *)
(***************************************************************************)
EXTENDS LspClient, SequenceLemmas, FiniteSetTheorems

-----------------------------------------------------------------------------
(* The messages, and the type invariant *)

AttachCmds == [t : {"attach"}, b : Buffer, f : File, text : 0..MaxEdit]
DetachCmds == [t : {"detach"}, b : Buffer]
ChangeCmds == [t : {"full"}, b : Buffer, text : 0..MaxEdit]
              \cup [t : {"incr"}, b : Buffer, from : 0..Garbled, text : 0..MaxEdit]
OtherCmds  == [t : {"save"}, b : Buffer]
              \cup [t : {"request"}, b : Buffer, r : Req]
              \cup [t : {"exited", "shutdown"}]
Cmds == AttachCmds \cup DetachCmds \cup ChangeCmds \cup OtherCmds

Evts == [t : {"initialized", "exited"}]
        \cup [t : {"response"}, r : Req \cup {Internal}]

Copies == [ver : Nat, text : 0..Garbled]

Awaits == [op : {"idle", "stopped"}]
          \cup [op : {"handshake"}, i : Proc, cmd : AttachCmds]
          \cup [op : {"stopping"}, i : Proc]
          \cup [op : {"quitting"}, i : 0..MaxSpawn]

AppTyped ==
  /\ app \in {"up", "quitting", "gone"}
  /\ keys \in 0..MaxKeys
  /\ slot \in [Buffer -> File \cup {"unused", "closed"}]
  /\ text \in [Buffer -> 0..MaxEdit]
  /\ lastGen \in [Buffer -> 0..NoGen]
  /\ \A b \in Buffer : lastGen[b] = NoGen \/ lastGen[b] <= text[b]
  /\ logFrom \in [Buffer -> 0..Garbled]
  /\ gap \in [Buffer -> BOOLEAN]
  /\ \A b \in Buffer : logFrom[b] <= text[b] \/ (logFrom[b] = Garbled /\ gap[b])
  /\ \A b \in Buffer : slot[b] = "unused" => logFrom[b] = text[b]
  /\ left \subseteq Buffer

StateTyped == lspState \in BOOLEAN

RequestsTyped ==
  /\ nextReq \in 1..(MaxReq + 1)
  /\ pending \subseteq 1..(nextReq - 1)
  /\ seen \subseteq 1..(nextReq - 1)

ChannelsTyped == cmds \in Seq(Cmds) /\ evts \in Seq(Evts)

RuntimeTyped ==
  /\ rt \in Awaits
  /\ servers \in 0..MaxSpawn
  /\ attached \in [Buffer -> Nat]
  /\ uri \in [Buffer -> File \cup {"none"}]
  /\ \A b \in Buffer : attached[b] > 0 => uri[b] \in File

ProcessesTyped ==
  /\ proc \in [Proc -> {"none", "starting", "up", "exiting", "doomed", "dead"}]
  /\ open \in [Proc -> SUBSET (Req \cup {Internal})]
  /\ doc \in [Proc -> [File -> Copies]]

LspTyped == /\ AppTyped /\ StateTyped /\ RequestsTyped
            /\ ChannelsTyped /\ RuntimeTyped /\ ProcessesTyped

-----------------------------------------------------------------------------
(* The server and what each thread holds of it *)

\* The process entered under the key runs or has run, nothing is entered while
\* the dispatcher waits, and only the handshake has a process that starts.
EntryHolds ==
  /\ servers # 0 => rt.op = "idle" /\ proc[servers] \in {"up", "dead"}
  /\ rt.op = "handshake" => proc[rt.i] = "starting"
  /\ \A i \in Proc : proc[i] = "starting" => rt.op = "handshake" /\ rt.i = i

\* Buffers are attached exactly while a process is entered.
AttachmentsHold ==
  /\ servers # 0 => \E b \in Buffer : attached[b] > 0
  /\ servers = 0 /\ rt.op \notin {"quitting", "stopped"} =>
       \A b \in Buffer : attached[b] = 0

\* The news of an exit has not reached the dispatcher yet.
ExitComing == Exits(evts) # {} \/ Exits(cmds) # {}

\* The application holds the server initialized, or will when it has read its
\* events.
Believes == StateAfter(evts)

\* What the application believes of the server, against what the dispatcher
\* knows.
NewsOnTheWay ==
  app # "gone" =>
    /\ Believes =>
         \/ servers # 0 /\ proc[servers] = "up"
         \/ \E i \in Proc : proc[i] \in {"exiting", "doomed"}
         \/ rt.op \in {"quitting", "stopped"}
    /\ servers # 0 => Believes \/ ExitComing
    /\ servers # 0 /\ proc[servers] = "dead" => ExitComing

ServerInv == EntryHolds /\ AttachmentsHold /\ NewsOnTheWay /\ NoServerLeaks

-----------------------------------------------------------------------------
(* The order of commands.  q is the command channel, H what the dispatcher  *)
(* holds already: <<c, f>> when c is attached to f, or is being attached.   *)

AttachAt(q, b, f, k) ==
  k \in DOMAIN q /\ q[k].t = "attach" /\ q[k].b = b /\ q[k].f = f

DetachAt(q, b, k) == k \in DOMAIN q /\ q[k].t = "detach" /\ q[k].b = b

\* A detach of c comes after position j; and before position k.
DetachAfter(q, c, j) == \E m \in Nat : j < m /\ DetachAt(q, c, m)
DetachBetween(q, c, j, k) == \E m \in Nat : j < m /\ m < k /\ DetachAt(q, c, m)

Concerns(c, b) == c.t \notin {"exited", "shutdown"} /\ c.b = b

Held == {p \in Buffer \X File :
           \/ attached[p[1]] > 0 /\ uri[p[1]] = p[2]
           \/ rt.op = "handshake" /\ rt.cmd.b = p[1] /\ rt.cmd.f = p[2]}

\* Before another buffer is attached to a file, the one that has it is
\* detached, unless it was given up at the prompt.
Ordered(q, H, L) ==
  \A c \in Buffer \ L, b \in Buffer, f \in File, k \in Nat :
    b # c /\ AttachAt(q, b, f, k) =>
      /\ <<c, f>> \in H => DetachBetween(q, c, 0, k)
      /\ \A j \in Nat : j < k /\ AttachAt(q, c, f, j) => DetachBetween(q, c, j, k)

\* A buffer has the file of its slot, and once that is closed, its detach comes.
Owned(q, H, L, s) ==
  \A c \in Buffer \ L, f \in File :
    /\ <<c, f>> \in H => s[c] = f \/ (s[c] = "closed" /\ DetachAfter(q, c, 0))
    /\ \A j \in Nat : AttachAt(q, c, f, j) =>
         s[c] = f \/ (s[c] = "closed" /\ DetachAfter(q, c, j))

\* Unused ids have no commands, and given-up buffers only the one attach.
Quiet(q, H, L, s) ==
  \A c \in Buffer :
    /\ s[c] = "unused" =>
         /\ c \notin L /\ \A f \in File : <<c, f>> \notin H
         /\ \A k \in DOMAIN q : ~Concerns(q[k], c)
    /\ c \in L =>
         /\ s[c] = "closed"
         /\ \A k \in DOMAIN q : Concerns(q[k], c) => q[k].t = "attach"

OneSlotPerFile(s) ==
  \A b, c \in Buffer : s[b] = s[c] /\ s[b] \in File => b = c

OrderInv ==
  /\ Ordered(cmds, Held, left)
  /\ Owned(cmds, Held, left, slot)
  /\ Quiet(cmds, Held, left, slot)
  /\ OneSlotPerFile(slot)

-----------------------------------------------------------------------------
(* The documents *)

ServerUp == servers # 0 /\ proc[servers] = "up"

\* A document is open only for an attached buffer.
OpenIsAttached ==
  ServerUp => \A f \in File : doc[servers][f] # Closed =>
                \E b \in Buffer : attached[b] > 0 /\ uri[b] = f

\* The dispatcher counts the version the server has.
VersionsAgree ==
  ServerUp => \A b \in Buffer \ left : attached[b] > 0 =>
                doc[servers][uri[b]].ver = attached[b]

\* Two attached buffers share a file only if one of them was given up.
NoSharedFile ==
  \A b, c \in Buffer \ left :
    attached[b] > 0 /\ attached[c] > 0 /\ uri[b] = uri[c] => b = c

\* A process knows no document before its handshake.
FreshIsEmpty ==
  \A i \in Proc : proc[i] \in {"none", "starting"} => \A f \in File : doc[i][f] = Closed

DocumentInv == OpenIsAttached /\ VersionsAgree /\ NoSharedFile /\ FreshIsEmpty

\* The text of b after command c, if it was T: `Gone` from a detach on.
Gone == MaxEdit + 2
Texts == 0..Gone
Passes(c, b, T) ==
  IF T = Gone \/ ~Concerns(c, b) THEN T
  ELSE IF c.t = "detach" THEN Gone
  ELSE IF c.t \in {"full", "incr"} THEN After(c, T) ELSE T

\* What does not concern b leaves its text alone.
Steady(q, b, h, j) ==
  \A i, k \in j..Len(q) :
    i <= k /\ (\A m \in (i + 1)..k : ~Concerns(q[m], b)) => h[i] = h[k]

\* The commands after position j lead text E of b to one of N: h[k] is the text
\* after the k-th of them.
Leads(q, b, E, j, N) ==
  \E h \in [0..Len(q) -> Texts] :
    /\ h[j] = E /\ h[Len(q)] \in N
    /\ \A k \in (j + 1)..Len(q) : h[k] = Passes(q[k], b, h[k - 1])
    /\ Steady(q, b, h, j)

\* The texts that a server may have of b when it has read everything.
Due(b) == IF gap[b] THEN Texts ELSE {logFrom[b], Gone}
Dues == [b \in Buffer |-> Due(b)]

\* An attach on its way is followed by what leads to a text that is due.
Tells(q, b, N) ==
  \A j \in DOMAIN q : q[j].t = "attach" /\ q[j].b = b => Leads(q, b, q[j].text, j, N)

\* And so is the text the server has, or is about to have.
Synced(q, s, N) ==
  \A b \in Buffer : s[b] \in File =>
    /\ Tells(q, b, N[b])
    /\ ServerUp /\ attached[b] > 0 => Leads(q, b, doc[servers][uri[b]].text, 0, N[b])
    /\ rt.op = "handshake" /\ rt.cmd.b = b => Leads(q, b, rt.cmd.text, 0, N[b])

SyncInv == Synced(cmds, slot, Dues)

LspInv == LspTyped /\ ServerInv /\ OrderInv /\ DocumentInv /\ SyncInv

-----------------------------------------------------------------------------
(* Messages and channels *)

\* The fields a command of each kind has.
LEMMA CommandFacts ==
    ASSUME NEW c \in Cmds
    PROVE  /\ c.t \in {"attach", "detach", "full", "incr", "save", "request",
                       "exited", "shutdown"}
           /\ c.t = "attach" => c \in AttachCmds /\ c.b \in Buffer /\ c.f \in File
                                /\ c.text \in 0..MaxEdit
           /\ c.t \in {"full", "incr"} => c.b \in Buffer /\ c.text \in 0..MaxEdit
           /\ c.t = "detach" => c.b \in Buffer
           /\ c.t = "save" => c.b \in Buffer
           /\ c.t = "request" => c.b \in Buffer /\ c.r \in Req
  BY DEF Cmds, AttachCmds, DetachCmds, ChangeCmds, OtherCmds

\* What the application sends is a command.
LEMMA CommandsTyped ==
    ASSUME LspBounds, NEW b \in Buffer
    PROVE  /\ \A f \in File, n \in 0..MaxEdit : AttachCmd(b, f, n) \in Cmds
           /\ DetachCmd(b) \in Cmds /\ SaveCmd(b) \in Cmds
           /\ \A n \in 0..MaxEdit : FullCmd(b, n) \in Cmds
           /\ \A m \in 0..Garbled, n \in 0..MaxEdit : IncrCmd(b, m, n) \in Cmds
           /\ \A r \in Req : RequestCmd(b, r) \in Cmds
           /\ ExitedCmd \in Cmds /\ ShutdownCmd \in Cmds
  <1>2. \A f \in File, n \in 0..MaxEdit : AttachCmd(b, f, n) \in AttachCmds
    BY DEF AttachCmd, AttachCmds
  <1>3. DetachCmd(b) \in DetachCmds
    BY DEF DetachCmd, DetachCmds
  <1>4. \A n \in 0..MaxEdit : FullCmd(b, n) \in ChangeCmds
    BY DEF FullCmd, ChangeCmds
  <1>5. \A m \in 0..Garbled, n \in 0..MaxEdit : IncrCmd(b, m, n) \in ChangeCmds
    BY DEF IncrCmd, ChangeCmds
  <1>6. /\ SaveCmd(b) \in OtherCmds /\ ExitedCmd \in OtherCmds /\ ShutdownCmd \in OtherCmds
        /\ \A r \in Req : RequestCmd(b, r) \in OtherCmds
    BY DEF SaveCmd, ExitedCmd, ShutdownCmd, RequestCmd, OtherCmds
  <1> QED
    BY <1>2, <1>3, <1>4, <1>5, <1>6 DEF Cmds

\* Events are typed, too.
LEMMA EventsTyped ==
    /\ InitializedEvt \in Evts /\ ExitedEvt \in Evts
    /\ \A r \in Req \cup {Internal} : ResponseEvt(r) \in Evts
  BY DEF InitializedEvt, ExitedEvt, ResponseEvt, Evts

\* The channel after one, and after two, commands are sent together.
LEMMA SendOne ==
    ASSUME NEW S, NEW q \in Seq(S), NEW x \in S
    PROVE  q \o <<x>> = Append(q, x)
  BY Z3

LEMMA SendTwo ==
    ASSUME NEW S, NEW q \in Seq(S), NEW x \in S, NEW y \in S
    PROVE  q \o <<x, y>> = Append(Append(q, x), y)
  BY Z3

\* The exits reported by a drain.
LEMMA ExitBatch ==
    ASSUME NEW n \in Nat
    PROVE  /\ [k \in 1..n |-> ExitedCmd] \in Seq(Cmds)
           /\ Len([k \in 1..n |-> ExitedCmd]) = n
  <1>1. ExitedCmd \in Cmds
    BY DEF Cmds, OtherCmds, ExitedCmd
  <1> QED
    BY <1>1
\* What the dispatcher may be waiting for.
LEMMA AwaitFacts ==
    ASSUME NEW a \in Awaits
    PROVE  /\ a.op \in {"idle", "handshake", "stopping", "quitting", "stopped"}
           /\ a.op = "handshake" => /\ a.i \in Proc /\ a.cmd \in AttachCmds
                                    /\ a.cmd.b \in Buffer /\ a.cmd.f \in File
                                    /\ a.cmd.text \in 0..MaxEdit
           /\ a.op = "stopping" => a.i \in Proc
           /\ a.op = "quitting" => a.i \in 0..MaxSpawn
           /\ a.op = "idle" <=> a = Idle
  BY DEF Awaits, AttachCmds, Idle

LEMMA AwaitsTyped ==
    /\ Idle \in Awaits /\ [op |-> "stopped"] \in Awaits
    /\ \A i \in Proc, c \in AttachCmds : [op |-> "handshake", i |-> i, cmd |-> c] \in Awaits
    /\ \A i \in Proc : [op |-> "stopping", i |-> i] \in Awaits
    /\ \A i \in 0..MaxSpawn : [op |-> "quitting", i |-> i] \in Awaits
  BY DEF Awaits, Idle

\* A batch holds finitely many exits.
LEMMA ExitsFinite ==
    ASSUME NEW S, NEW es \in Seq(S)
    PROVE  /\ Cardinality(Exits(es)) \in Nat
           /\ Cardinality(Exits(es)) = 0 <=> Exits(es) = {}
  <1>1. IsFiniteSet(DOMAIN es)
    <2>1. DOMAIN es = 1..Len(es) /\ Len(es) \in Nat
      BY LenProperties
    <2> QED
      BY <2>1, FS_Interval
  <1>2. Exits(es) \subseteq DOMAIN es
    BY DEF Exits
  <1>3. IsFiniteSet(Exits(es))
    BY <1>1, <1>2, FS_Subset
  <1> QED
    BY <1>3, FS_CardinalityType, FS_EmptySet
-----------------------------------------------------------------------------
(* Types *)

\* The bounds are numbers.
LEMMA BoundsNat ==
    /\ MaxBuffers \in Nat /\ MaxSpawn \in Nat /\ MaxEdit \in Nat
    /\ MaxReq \in Nat /\ MaxKeys \in Nat
    /\ NoGen \in Nat /\ NoGen = MaxEdit + 1
    /\ Garbled \in Nat /\ Garbled = MaxEdit + 1
  BY LspBounds DEF LspBounds, NoGen, Garbled

LEMMA TypedImplies == LspTyped => LspTypeOK
  BY AwaitFacts DEF LspTyped, AppTyped, StateTyped, RequestsTyped, RuntimeTyped,
    ProcessesTyped, LspTypeOK

LEMMA TypedInit == ASSUME Init PROVE LspTyped
  <1> USE BoundsNat
  <1>1. AppTyped /\ RequestsTyped
    BY DEF Init, AppTyped, RequestsTyped
  <1>2. StateTyped
    BY DEF Init, StateTyped
  <1>3. ChannelsTyped
    BY DEF Init, ChannelsTyped
  <1>4. RuntimeTyped
    BY AwaitsTyped DEF Init, RuntimeTyped
  <1>5. ProcessesTyped
    BY DEF Init, ProcessesTyped, Copies, Closed
  <1> QED
    BY <1>1, <1>2, <1>3, <1>4, <1>5 DEF LspTyped

\* What only the dispatcher and the processes do leaves the application alone.
LEMMA RuntimeLeavesApp ==
    ASSUME RuntimeStep \/ HandshakeOk \/ HandshakeFails
           \/ \E i \in Proc : Dies(i) \/ Kill(i) \/ \E r \in Req \cup {Internal} : Answer(i, r)
    PROVE  UNCHANGED <<appVars, keys, gap, left>>
  BY DEF RuntimeStep, HandshakeOk, HandshakeFails, AttachIgnored, AttachRunning,
    AttachSpawn, Detach, Change, DidSave, SendRequest, ServerExited, ShutdownAll,
    Stopped, ThreadEnds, Dies, Kill, Reap, Answer

\* What changes a text and is not a save that succeeds; or drains its log.
ChangesText(b) ==
  \/ WorkspaceEdit(b) \/ Formatted(b) \/ ExEdit(b) \/ Replace(b) \/ ConfirmSubstitute(b)
  \/ \E k \in {0, 1} : SaveFails(b, k)
  \/ \E k \in 1..MaxEdit : TimeTravel(b, k) \/ ExTimeTravel(b, k)
  \/ \E usable \in BOOLEAN : Edit(b, usable) \/ Key(b, usable)

\* The text becomes n, with or without a notification.
TextChange(b, n, m) ==
  \/ Notified(b, n, m) /\ lastGen[b] # n
  \/ NotNotified(b, n, m) /\ text[b] <= n /\ (m <= n \/ m = Garbled)

LEMMA UserCases ==
    ASSUME UserStep
    PROVE  \/ \E b \in Buffer, f \in File : Open(b, f) \/ OpenAborted(b, f)
           \/ \E b \in Buffer : \/ Close(b) \/ Restart(b) \/ SetFiletype(b) \/ Request(b)
                               \/ ChangesText(b) \/ \E k \in {0, 1} : Save(b, k)
           \/ Quit
  BY DEF UserStep, ChangesText

LEMMA ChangeCases ==
    ASSUME AppTyped, NEW b \in Buffer, ChangesText(b)
    PROVE  /\ IsOpen(b) /\ app = "up" /\ keys < MaxKeys /\ keys' = keys + 1
           /\ \E n \in 0..MaxEdit, m \in 0..Garbled : TextChange(b, n, m)
  <1> USE BoundsNat
  <1>0. /\ text[b] \in 0..MaxEdit /\ logFrom[b] \in 0..Garbled
        /\ logFrom[b] <= text[b] \/ logFrom[b] = Garbled
        /\ lastGen[b] = NoGen \/ lastGen[b] <= text[b]
    BY DEF AppTyped
  <1>1. \A k : Changing(b, k) => IsOpen(b) /\ app = "up" /\ keys < MaxKeys /\ keys' = keys + 1
    BY DEF Changing, Handling
  <1>a. ASSUME NEW n \in 0..MaxEdit, NEW m \in 0..Garbled, TextChange(b, n, m)
        PROVE  \E j \in 0..MaxEdit, i \in 0..Garbled : TextChange(b, j, i)
    BY <1>a
  <1>u. Unlogged(b) \in 0..Garbled /\ (Unlogged(b) = text[b] + 1 \/ Unlogged(b) = Garbled)
    BY <1>0 DEF Unlogged
  <1>2. CASE WorkspaceEdit(b)
    <2>1. text[b] + 1 \in 0..MaxEdit /\ TextChange(b, text[b] + 1, Unlogged(b))
      BY <1>0, <1>2 DEF WorkspaceEdit, Changing, TextChange
    <2> QED
      BY <1>1, <1>2, <1>a, <1>u, <2>1 DEF WorkspaceEdit
  <1>3. CASE Formatted(b)
    <2>1. text[b] + 1 \in 0..MaxEdit /\ TextChange(b, text[b] + 1, Unlogged(b))
      BY <1>0, <1>3, <1>u DEF Formatted, Changing, TextChange
    <2> QED
      BY <1>1, <1>3, <1>a, <1>u, <2>1 DEF Formatted
  <1>4. CASE ExEdit(b)
    <2>1. text[b] + 1 \in 0..MaxEdit /\ TextChange(b, text[b] + 1, logFrom[b])
      BY <1>0, <1>4 DEF ExEdit, Changing, TextChange
    <2> QED
      BY <1>0, <1>1, <1>4, <1>a, <2>1 DEF ExEdit
  <1>5. CASE Replace(b) \/ ConfirmSubstitute(b)
    <2>1. /\ text[b] + 1 \in 0..MaxEdit /\ text[b] + 1 \in 0..Garbled
          /\ TextChange(b, text[b] + 1, text[b] + 1)
      BY <1>0, <1>5 DEF Replace, ConfirmSubstitute, Changing, TextChange
    <2> QED
      BY <1>1, <1>5, <1>a, <2>1 DEF Replace, ConfirmSubstitute
  <1>6. ASSUME NEW k \in {0, 1}, SaveFails(b, k)
        PROVE  /\ Changing(b, k)
               /\ \E n \in 0..MaxEdit, m \in 0..Garbled : TextChange(b, n, m)
    <2>1. /\ text[b] + k \in 0..MaxEdit /\ text[b] + k \in 0..Garbled
          /\ TextChange(b, text[b] + k, text[b] + k)
      BY <1>0, <1>6 DEF SaveFails, Changing, TextChange
    <2> QED
      BY <1>6, <1>a, <2>1 DEF SaveFails
  <1>7. ASSUME NEW k \in 1..MaxEdit, TimeTravel(b, k) \/ ExTimeTravel(b, k)
        PROVE  /\ Changing(b, k)
               /\ \E n \in 0..MaxEdit, m \in 0..Garbled : TextChange(b, n, m)
    <2>1. /\ text[b] + k \in 0..MaxEdit /\ (text[b] + k) - 1 \in 0..Garbled
          /\ lastGen[b] # text[b] + k
      BY <1>0, <1>7 DEF TimeTravel, ExTimeTravel, Changing
    <2>2. TextChange(b, text[b] + k, (text[b] + k) - 1)
      BY <1>0, <1>7, <2>1 DEF TimeTravel, ExTimeTravel, TextChange
    <2> QED
      BY <1>7, <1>a, <2>1, <2>2 DEF TimeTravel, ExTimeTravel
  <1>8. ASSUME NEW o \in BOOLEAN, Edit(b, o)
        PROVE  /\ Changing(b, 1)
               /\ \E n \in 0..MaxEdit, m \in 0..Garbled : TextChange(b, n, m)
    <2> DEFINE m == IF o THEN logFrom[b] ELSE text[b] + 1
    <2>1. text[b] + 1 \in 0..MaxEdit /\ m \in 0..Garbled /\ lastGen[b] # text[b] + 1
      BY <1>0, <1>8 DEF Edit, Changing
    <2>2. TextChange(b, text[b] + 1, m)
      BY <1>8, <2>1 DEF Edit, TextChange
    <2> HIDE DEF m
    <2> QED
      BY <1>8, <1>a, <2>1, <2>2 DEF Edit
  <1>9. ASSUME NEW o \in BOOLEAN, Key(b, o)
        PROVE  /\ Handling /\ IsOpen(b)
               /\ \E n \in 0..MaxEdit, m \in 0..Garbled : TextChange(b, n, m)
    <2> DEFINE m == IF o THEN logFrom[b] ELSE text[b]
    <2>1. m \in 0..Garbled
      BY <1>0
    <2>2. TextChange(b, text[b], m)
      BY <1>9 DEF Key, TextChange
    <2> HIDE DEF m
    <2> QED
      BY <1>0, <1>9, <1>a, <2>1, <2>2 DEF Key
  <1> QED
    BY <1>1, <1>2, <1>3, <1>4, <1>5, <1>6, <1>7, <1>8, <1>9 DEF ChangesText, WorkspaceEdit,
      Formatted, ExEdit, Replace, ConfirmSubstitute, Handling

\* The application's side of a command of the user, of a drain and of leaving.
LEMMA AppTypedStep ==
    ASSUME LspTyped, Next
    PROVE  AppTyped' /\ StateTyped' /\ RequestsTyped'
  <1> USE BoundsNat DEF LspTyped
  <1>1. ASSUME NEW b \in Buffer, NEW f \in File, Open(b, f) \/ OpenAborted(b, f)
        PROVE  AppTyped' /\ StateTyped' /\ RequestsTyped'
    <2>1. CASE Open(b, f)
      <3>0. f # "unused" /\ f # "closed"
        BY LspBounds DEF LspBounds
      <3>1. AppTyped'
        BY <2>1, <3>0 DEF Open, Handling, AppTyped
      <3> QED
        BY <2>1, <3>1 DEF Open, StateTyped, RequestsTyped
    <2>2. CASE OpenAborted(b, f)
      <3>1. AppTyped'
        BY <2>2 DEF OpenAborted, Handling, AppTyped
      <3> QED
        BY <2>2, <3>1 DEF OpenAborted, StateTyped, RequestsTyped
    <2> QED
      BY <1>1, <2>1, <2>2
  <1>2. ASSUME NEW b \in Buffer, Close(b) \/ Restart(b) \/ SetFiletype(b)
        PROVE  AppTyped' /\ StateTyped' /\ RequestsTyped'
    <2>1. StateTyped' /\ RequestsTyped'
      BY <1>2 DEF Close, Restart, SetFiletype, StateTyped, RequestsTyped, appVars
    <2>2. keys' \in 0..MaxKeys
      BY <1>2 DEF Close, Restart, SetFiletype, Handling, AppTyped
    <2>3. CASE Close(b)
      BY <2>1, <2>2, <2>3 DEF Close, AppTyped
    <2>4. CASE Restart(b) \/ SetFiletype(b)
      <3>1. UNCHANGED <<app, slot, text, lastGen, logFrom, left>>
        BY <2>4 DEF Restart, SetFiletype, appVars
      <3>2. PICK g \in BOOLEAN : gap' = [gap EXCEPT ![b] = g] /\ (logFrom[b] # text[b] => g)
        BY <2>4 DEF Restart, SetFiletype, AppTyped
      <3>3. gap' \in [Buffer -> BOOLEAN]
        BY <3>2 DEF AppTyped
      <3>4. logFrom[b] = Garbled => logFrom[b] # text[b]
        BY DEF AppTyped
      <3>5. ASSUME NEW c \in Buffer
            PROVE  logFrom[c] <= text[c] \/ (logFrom[c] = Garbled /\ gap'[c])
        <4>1. CASE c = b
          BY <3>2, <3>4, <4>1 DEF AppTyped
        <4>2. CASE c # b
          BY <3>2, <4>2 DEF AppTyped
        <4> QED
          BY <4>1, <4>2
      <3> QED
        BY <2>1, <2>2, <3>1, <3>3, <3>5 DEF AppTyped
    <2> QED
      BY <1>2, <2>3, <2>4
  <1>3. ASSUME NEW b \in Buffer, ChangesText(b)
        PROVE  AppTyped' /\ StateTyped' /\ RequestsTyped'
    <2>1. StateTyped' /\ RequestsTyped'
      BY <1>3, ChangeCases DEF TextChange, Notified, NotNotified, StateTyped, RequestsTyped
    <2>2. slot[b] # "unused" /\ keys' \in 0..MaxKeys
      BY <1>3, ChangeCases, LspBounds DEF IsOpen, LspBounds, AppTyped
    <2>3. PICK n \in 0..MaxEdit, m \in 0..Garbled : TextChange(b, n, m)
      BY <1>3, ChangeCases
    <2>4. CASE Notified(b, n, m)
      <3>1. UNCHANGED <<app, slot, left>> /\ gap' \in [Buffer -> BOOLEAN]
        BY <2>4 DEF Notified, AppTyped
      <3>2. /\ text' = [text EXCEPT ![b] = n] /\ lastGen' = [lastGen EXCEPT ![b] = n]
            /\ logFrom' = [logFrom EXCEPT ![b] = n]
            /\ \A c \in Buffer : c # b => gap'[c] = gap[c]
        BY <2>4 DEF Notified, AppTyped
      <3> QED
        BY <2>1, <2>2, <3>1, <3>2 DEF AppTyped
    <2>5. CASE NotNotified(b, n, m) /\ text[b] <= n /\ (m <= n \/ m = Garbled)
      <3>1. UNCHANGED <<app, slot, left, lastGen>> /\ gap' \in [Buffer -> BOOLEAN]
        BY <2>5 DEF NotNotified, AppTyped
      <3>2. /\ text' = [text EXCEPT ![b] = n] /\ logFrom' = [logFrom EXCEPT ![b] = m]
            /\ gap' = [gap EXCEPT ![b] = @ \/ m # logFrom[b]]
        BY <2>5 DEF NotNotified
      <3>3. /\ text' \in [Buffer -> 0..MaxEdit] /\ logFrom' \in [Buffer -> 0..Garbled]
            /\ \A c \in Buffer : c # b => text'[c] = text[c] /\ logFrom'[c] = logFrom[c]
                                          /\ gap'[c] = gap[c]
            /\ text'[b] = n /\ logFrom'[b] = m
        BY <3>2 DEF AppTyped
      <3>4. m = Garbled => gap'[b]
        <4>1. m = Garbled /\ logFrom[b] = Garbled => gap[b]
          BY DEF AppTyped
        <4> QED
          BY <3>2, <4>1 DEF AppTyped
      <3>5. \A c \in Buffer : logFrom'[c] <= text'[c] \/ (logFrom'[c] = Garbled /\ gap'[c])
        BY <2>5, <3>3, <3>4 DEF AppTyped
      <3>6. \A c \in Buffer : lastGen[c] = NoGen \/ lastGen[c] <= text'[c]
        BY <2>5, <3>3 DEF AppTyped
      <3> QED
        BY <2>1, <2>2, <3>1, <3>3, <3>5, <3>6 DEF AppTyped
    <2> QED
      BY <2>3, <2>4, <2>5 DEF TextChange
  <1>4. ASSUME NEW b \in Buffer, Request(b)
        PROVE  AppTyped' /\ StateTyped' /\ RequestsTyped'
    <2>1. AppTyped' /\ StateTyped'
      BY <1>4 DEF Request, Handling, AppTyped, StateTyped
    <2>2. RequestsTyped'
      BY <1>4 DEF Request, RequestsTyped
    <2> QED
      BY <2>1, <2>2
  <1>5. ASSUME NEW b \in Buffer, NEW k \in {0, 1}, Save(b, k)
        PROVE  AppTyped' /\ StateTyped' /\ RequestsTyped'
    <2>1. text[b] + k \in 0..MaxEdit /\ text[b] + k \in 0..NoGen
      BY <1>5 DEF Save, Changing, AppTyped
    <2>2. slot[b] # "unused"
      BY <1>5, LspBounds DEF Save, Changing, IsOpen, LspBounds
    <2>3. AppTyped'
      BY <1>5, <2>1, <2>2 DEF Save, Changing, Handling, AppTyped
    <2>4. StateTyped' /\ RequestsTyped'
      BY <1>5 DEF Save, StateTyped, RequestsTyped
    <2> QED
      BY <2>3, <2>4
  <1>6. ASSUME Quit \/ Leave PROVE AppTyped' /\ StateTyped' /\ RequestsTyped'
    BY <1>6 DEF Quit, Leave, AppTyped, StateTyped, RequestsTyped
  <1>7. ASSUME NEW late \in SUBSET seen, Drain(late)
        PROVE  AppTyped' /\ StateTyped' /\ RequestsTyped'
    <2>1. StateTyped'
      BY <1>7 DEF Drain, StateAfter, StateTyped
    <2>2. AppTyped' /\ RequestsTyped'
      BY <1>7 DEF Drain, Sweep, AppTyped, RequestsTyped
    <2> QED
      BY <2>1, <2>2
  <1>8. ASSUME UNCHANGED <<appVars, keys, gap, left>>
        PROVE  AppTyped' /\ StateTyped' /\ RequestsTyped'
    BY <1>8 DEF appVars, AppTyped, StateTyped, RequestsTyped
  <1> QED
    BY <1>1, <1>2, <1>3, <1>4, <1>5, <1>6, <1>7, <1>8, RuntimeLeavesApp, UserCases DEF Next
\* The dispatcher takes the head of the channel.
LEMMA TakesFacts ==
    ASSUME ChannelsTyped, NEW t, Takes(t)
    PROVE  /\ cmds # <<>> /\ cmds' = Tail(cmds) /\ cmds' \in Seq(Cmds)
           /\ Head(cmds) \in Cmds /\ Head(cmds).t = t /\ Head(cmds) = cmds[1]
           /\ 1 \in DOMAIN cmds
           /\ rt = Idle /\ rt.op = "idle" /\ app # "gone"
  BY ToSetTail DEF Takes, ChannelsTyped, Running, Idle

\* A notification is a sequence of at most one command.
LEMMA NotifyTyped ==
    ASSUME NEW b \in Buffer, NEW n \in 0..MaxEdit, NEW m \in 0..Garbled
    PROVE  NotifyChange(b, n, m) \in Seq(Cmds)
  <1>1. IncrCmd(b, m, n) \in Cmds /\ FullCmd(b, n) \in Cmds
    BY LspBounds, CommandsTyped
  <1>2. CASE lastGen[b] = n
    BY <1>2 DEF NotifyChange
  <1>3. CASE lastGen[b] # n /\ m # n /\ lspState
    BY <1>1, <1>3 DEF NotifyChange
  <1>4. CASE lastGen[b] # n /\ ~(m # n /\ lspState)
    BY <1>1, <1>4 DEF NotifyChange
  <1> QED
    BY <1>2, <1>3, <1>4

\* A command of the user sends commands and reads no events.
SendsOnly == /\ \E cs \in Seq(Cmds) : Send(cs)
             /\ UNCHANGED <<evts, lspState>>

LEMMA UserSends == ASSUME LspTyped, UserStep PROVE SendsOnly
  <1> USE DEF LspTyped
  <1>0. /\ cmds \in Seq(Cmds) /\ \A b \in Buffer : text[b] \in 0..MaxEdit
    BY DEF ChannelsTyped, AppTyped
  <1>a. ASSUME NEW cs \in Seq(Cmds), Send(cs), UNCHANGED <<evts, lspState>> PROVE SendsOnly
    BY <1>a DEF SendsOnly
  <1>1. ASSUME NEW b \in Buffer, NEW f \in File, Open(b, f) \/ OpenAborted(b, f)
        PROVE  SendsOnly
    <2>1. <<AttachCmd(b, f, text[b])>> \in Seq(Cmds)
      BY <1>0, LspBounds, CommandsTyped
    <2> QED
      BY <1>1, <1>a, <2>1 DEF Open, OpenAborted
  <1>2. ASSUME NEW b \in Buffer, Close(b) PROVE SendsOnly
    <2>1. <<DetachCmd(b)>> \in Seq(Cmds)
      BY LspBounds, CommandsTyped
    <2> QED
      BY <1>2, <1>a, <2>1 DEF Close
  <1>3. ASSUME NEW b \in Buffer, Restart(b) \/ SetFiletype(b) PROVE SendsOnly
    <2>0. slot[b] \in File
      BY <1>3 DEF Restart, SetFiletype, IsOpen
    <2>1. DetachCmd(b) \in Cmds /\ AttachCmd(b, slot[b], text[b]) \in Cmds
      BY <1>0, <2>0, LspBounds, CommandsTyped
    <2>2. /\ <<DetachCmd(b), AttachCmd(b, slot[b], text[b])>> \in Seq(Cmds)
          /\ <<AttachCmd(b, slot[b], text[b])>> \in Seq(Cmds)
      BY <2>1
    <2> QED
      BY <1>3, <1>a, <2>2 DEF Restart, SetFiletype, appVars
  <1>4. ASSUME NEW b \in Buffer, ChangesText(b) PROVE SendsOnly
    <2>1. PICK n \in 0..MaxEdit, m \in 0..Garbled : TextChange(b, n, m)
      BY <1>4, ChangeCases
    <2>2. CASE Notified(b, n, m)
      <3>1. NotifyChange(b, n, m) \in Seq(Cmds)
        BY NotifyTyped
      <3> QED
        BY <1>a, <2>2, <3>1 DEF Notified
    <2>3. CASE NotNotified(b, n, m)
      <3>1. cmds \o <<>> = cmds /\ <<>> \in Seq(Cmds)
        BY <1>0
      <3> QED
        BY <1>a, <2>3, <3>1 DEF NotNotified, Send
    <2> QED
      BY <2>1, <2>2, <2>3 DEF TextChange
  <1>7. ASSUME NEW b \in Buffer, NEW k \in {0, 1}, Save(b, k) PROVE SendsOnly
    <2>0. text[b] + k \in 0..MaxEdit
      BY <1>0, <1>7, BoundsNat DEF Save, Changing
    <2>1. FullCmd(b, text[b] + k) \in Cmds /\ SaveCmd(b) \in Cmds
      BY <2>0, LspBounds, CommandsTyped
    <2>2. <<FullCmd(b, text[b] + k), SaveCmd(b)>> \in Seq(Cmds)
      BY <2>1
    <2> QED
      BY <1>7, <1>a, <2>2 DEF Save
  <1>8. ASSUME NEW b \in Buffer, Request(b) PROVE SendsOnly
    <2>0. nextReq \in Req
      BY <1>8, BoundsNat DEF Request, RequestsTyped, Req
    <2>1. <<RequestCmd(b, nextReq)>> \in Seq(Cmds)
      BY <2>0, LspBounds, CommandsTyped
    <2> QED
      BY <1>8, <1>a, <2>1 DEF Request
  <1>9. ASSUME Quit PROVE SendsOnly
    <2>1. <<ShutdownCmd>> \in Seq(Cmds)
      BY DEF ShutdownCmd, Cmds, OtherCmds
    <2> QED
      BY <1>9, <1>a, <2>1 DEF Quit
  <1> QED
    BY <1>1, <1>2, <1>3, <1>4, <1>7, <1>8, <1>9, UserCases

\* The channels carry messages only.
LEMMA ChannelsTypedStep == ASSUME LspTyped, Next PROVE ChannelsTyped'
  <1> USE DEF LspTyped
  <1>0. /\ cmds \in Seq(Cmds) /\ evts \in Seq(Evts)
    BY DEF ChannelsTyped
  <1>a. ASSUME NEW cs \in Seq(Cmds), Send(cs), evts' = evts PROVE ChannelsTyped'
    <2>1. cmds \o cs \in Seq(Cmds)
      BY <1>0, ConcatProperties
    <2> QED
      BY <1>0, <1>a, <2>1 DEF Send, ChannelsTyped
  <1>b. ASSUME NEW e \in Evts, Emit(e), cmds' = cmds PROVE ChannelsTyped'
    BY <1>0, <1>b, AppendProperties DEF Emit, ChannelsTyped
  <1>c. ASSUME cmds' = Tail(cmds), cmds # <<>>, evts' = evts PROVE ChannelsTyped'
    BY <1>0, <1>c, ToSetTail DEF ChannelsTyped
  <1>1. ASSUME UserStep PROVE ChannelsTyped'
    BY <1>1, <1>a, UserSends DEF SendsOnly
  <1>2. ASSUME NEW late \in SUBSET seen, Drain(late) PROVE ChannelsTyped'
    <2> DEFINE cs == [k \in 1..Cardinality(Exits(evts)) |-> ExitedCmd]
    <2>1. cs \in Seq(Cmds)
      BY <1>0, ExitsFinite, ExitBatch
    <2>2. cmds' = cmds \o cs /\ evts' = <<>>
      BY <1>2 DEF Drain, Send
    <2> HIDE DEF cs
    <2>3. cmds \o cs \in Seq(Cmds)
      BY <1>0, <2>1, ConcatProperties
    <2> QED
      BY <2>2, <2>3 DEF ChannelsTyped
  <1>3. ASSUME Leave \/ HandshakeFails \/ Stopped \/ ThreadEnds PROVE ChannelsTyped'
    BY <1>0, <1>3 DEF Leave, HandshakeFails, Stopped, ThreadEnds, ChannelsTyped
  <1>4. ASSUME \/ AttachIgnored \/ AttachRunning \/ AttachSpawn \/ Detach \/ Change
                \/ DidSave \/ SendRequest \/ ServerExited \/ ShutdownAll
         PROVE  ChannelsTyped'
    <2>1. (\E t : Takes(t)) /\ evts' = evts
      BY <1>4 DEF AttachIgnored, AttachRunning, AttachSpawn, Detach, Change, DidSave,
        SendRequest, ServerExited, ShutdownAll
    <2> QED
      BY <1>c, <2>1 DEF Takes
  <1>5. ASSUME HandshakeOk PROVE ChannelsTyped'
    BY <1>5, <1>b, EventsTyped DEF HandshakeOk
  <1>6. ASSUME NEW i \in Proc, Dies(i) \/ Kill(i) PROVE ChannelsTyped'
    BY <1>0, <1>6, <1>b, EventsTyped DEF Dies, Kill, Reap, ChannelsTyped
  <1>7. ASSUME NEW i \in Proc, NEW r \in Req \cup {Internal}, Answer(i, r)
         PROVE  ChannelsTyped'
    BY <1>7, <1>b, EventsTyped DEF Answer
  <1> QED
    BY <1>1, <1>2, <1>3, <1>4, <1>5, <1>6, <1>7 DEF Next, RuntimeStep

\* What the application does by itself leaves the dispatcher and the servers.
LEMMA AppLeavesRuntime ==
    ASSUME UserStep \/ Leave \/ \E late \in SUBSET seen : Drain(late)
    PROVE  UNCHANGED <<rtVars, srvVars>>
  BY DEF UserStep, Open, OpenAborted, Close, Restart, SetFiletype, Request,
    Edit, TimeTravel, Key, WorkspaceEdit, Formatted, ExEdit, ExTimeTravel, Replace,
    ConfirmSubstitute, Save, SaveFails, Notified, NotNotified, Quit, Leave, Drain

\* A write changes one document of the entered process, if any.
LEMMA WriteTyped ==
    ASSUME LspTyped, NEW f \in File, NEW d \in Copies, Write(f, d)
    PROVE  doc' \in [Proc -> [File -> Copies]]
  BY DEF Write, LspTyped, RuntimeTyped, ProcessesTyped, Proc

LEMMA RuntimeTypedStep == ASSUME LspTyped, Next PROVE RuntimeTyped' /\ ProcessesTyped'
  <1> USE DEF LspTyped
  <1>0. Idle \in Awaits /\ Proc \subseteq 0..MaxSpawn /\ 0 \in 0..MaxSpawn
        /\ Closed \in Copies /\ ChannelsTyped
        /\ (servers # 0 => servers \in Proc)
    BY AwaitsTyped, BoundsNat DEF Proc, Closed, Copies, RuntimeTyped
  <1>1. ASSUME UserStep \/ Leave \/ \E late \in SUBSET seen : Drain(late)
        PROVE  RuntimeTyped' /\ ProcessesTyped'
    BY <1>1, AppLeavesRuntime DEF rtVars, srvVars, RuntimeTyped, ProcessesTyped
  <1>2. ASSUME AttachIgnored \/ DidSave PROVE RuntimeTyped' /\ ProcessesTyped'
    BY <1>2 DEF AttachIgnored, DidSave, rtVars, srvVars, RuntimeTyped, ProcessesTyped
  <1>3. ASSUME AttachRunning PROVE RuntimeTyped' /\ ProcessesTyped'
    <2> DEFINE c == Head(cmds)
    <2>1. c.b \in Buffer /\ c.f \in File /\ c.text \in 0..MaxEdit
      BY <1>0, <1>3, TakesFacts, CommandFacts DEF AttachRunning
    <2>2. [ver |-> 1, text |-> c.text] \in Copies
      BY <2>1, BoundsNat DEF Copies
    <2>3. doc' \in [Proc -> [File -> Copies]]
      BY <1>3, <2>1, <2>2, WriteTyped DEF AttachRunning, DidOpen
    <2>4. attached' = [attached EXCEPT ![c.b] = 1] /\ uri' = [uri EXCEPT ![c.b] = c.f]
          /\ UNCHANGED <<rt, servers, proc, open>>
      BY <1>3 DEF AttachRunning, DidOpen
    <2> HIDE DEF c
    <2> QED
      BY <2>1, <2>3, <2>4 DEF RuntimeTyped, ProcessesTyped
  <1>4. ASSUME AttachSpawn PROVE RuntimeTyped' /\ ProcessesTyped'
    <2>1. Head(cmds) \in AttachCmds
      BY <1>0, <1>4, TakesFacts, CommandFacts DEF AttachSpawn
    <2>2. PICK i \in Proc : /\ proc' = [proc EXCEPT ![i] = "starting"]
                            /\ rt' = [op |-> "handshake", i |-> i, cmd |-> Head(cmds)]
      BY <1>4 DEF AttachSpawn
    <2>3. rt' \in Awaits
      BY <2>1, <2>2, AwaitsTyped
    <2> QED
      BY <1>4, <2>2, <2>3 DEF AttachSpawn, RuntimeTyped, ProcessesTyped
  <1>5. ASSUME Detach PROVE RuntimeTyped' /\ ProcessesTyped'
    <2> DEFINE b == Head(cmds).b
    <2>1. b \in Buffer
      BY <1>0, <1>5, TakesFacts, CommandFacts DEF Detach
    <2>2. attached' = [attached EXCEPT ![b] = 0] /\ uri' = uri
      BY <1>5 DEF Detach
    <2>3. doc' \in [Proc -> [File -> Copies]]
      <3>1. CASE attached[b] = 0
        BY <1>5, <3>1 DEF Detach, ProcessesTyped
      <3>2. CASE attached[b] # 0
        <4>1. uri[b] \in File
          BY <2>1, <3>2 DEF RuntimeTyped
        <4>2. Write(uri[b], Closed)
          BY <1>5, <3>2 DEF Detach
        <4> QED
          BY <1>0, <4>1, <4>2, WriteTyped
      <3> QED
        BY <3>1, <3>2
    <2>4. /\ rt' \in Awaits /\ servers' \in 0..MaxSpawn
          /\ proc' \in [Proc -> {"none", "starting", "up", "exiting", "doomed", "dead"}]
          /\ open' \in [Proc -> SUBSET (Req \cup {Internal})]
      BY <1>0, <1>5, AwaitsTyped DEF Detach, Shutdown, RuntimeTyped, ProcessesTyped
    <2> HIDE DEF b
    <2> QED
      BY <2>1, <2>2, <2>3, <2>4 DEF RuntimeTyped, ProcessesTyped
  <1>6. ASSUME Change PROVE RuntimeTyped' /\ ProcessesTyped'
    <2> DEFINE c == Head(cmds)
               v == attached[c.b] + 1
    <2>1. c.b \in Buffer /\ c.text \in 0..MaxEdit
      BY <1>0, <1>6, TakesFacts, CommandFacts DEF Change
    <2>2. attached[c.b] \in Nat /\ v \in Nat
      BY <2>1 DEF RuntimeTyped
    <2>3. doc' \in [Proc -> [File -> Copies]]
      <3>1. CASE attached[c.b] = 0 \/ servers = 0
        BY <1>6, <3>1 DEF Change, ProcessesTyped
      <3>2. CASE ~(attached[c.b] = 0 \/ servers = 0)
        <4> DEFINE n == After(c, doc[servers][uri[c.b]].text)
        <4>1. uri[c.b] \in File
          BY <2>1, <2>2, <3>2 DEF RuntimeTyped
        <4>2. n \in 0..Garbled
          BY <2>1, BoundsNat DEF After
        <4>3. Write(uri[c.b], [ver |-> v, text |-> n])
          BY <1>6, <3>2 DEF Change
        <4> HIDE DEF n, v, c
        <4>4. [ver |-> v, text |-> n] \in Copies
          BY <2>2, <4>2 DEF Copies
        <4> QED
          BY <4>1, <4>3, <4>4, WriteTyped
      <3> QED
        BY <3>1, <3>2
    <2>4. attached' = [attached EXCEPT ![c.b] = IF @ = 0 THEN 0 ELSE v]
          /\ UNCHANGED <<rt, servers, uri, proc, open>>
      BY <1>6 DEF Change
    <2> HIDE DEF c, v
    <2> QED
      BY <2>1, <2>2, <2>3, <2>4 DEF RuntimeTyped, ProcessesTyped
  <1>7. ASSUME SendRequest PROVE RuntimeTyped' /\ ProcessesTyped'
    <2>1. Head(cmds).r \in Req
      BY <1>0, <1>7, TakesFacts, CommandFacts DEF SendRequest
    <2> QED
      BY <1>0, <1>7, <2>1 DEF SendRequest, rtVars, RuntimeTyped, ProcessesTyped
  <1>8. ASSUME ServerExited PROVE RuntimeTyped' /\ ProcessesTyped'
    BY <1>0, <1>8 DEF ServerExited, RuntimeTyped, ProcessesTyped
  <1>9. ASSUME ShutdownAll PROVE RuntimeTyped' /\ ProcessesTyped'
    <2>1. rt' \in Awaits /\ servers' = 0
      BY <1>9, AwaitsTyped DEF ShutdownAll, RuntimeTyped
    <2> QED
      BY <1>0, <1>9, <2>1 DEF ShutdownAll, Shutdown, RuntimeTyped, ProcessesTyped
  <1>10. ASSUME Stopped \/ ThreadEnds \/ HandshakeFails PROVE RuntimeTyped' /\ ProcessesTyped'
    <2>1. rt' \in Awaits /\ UNCHANGED <<servers, attached, uri, open, doc>>
      BY <1>10, AwaitsTyped DEF Stopped, ThreadEnds, HandshakeFails, srvVars
    <2>2. proc' \in [Proc -> {"none", "starting", "up", "exiting", "doomed", "dead"}]
      BY <1>10 DEF Stopped, ThreadEnds, HandshakeFails, srvVars, ProcessesTyped
    <2> QED
      BY <2>1, <2>2 DEF RuntimeTyped, ProcessesTyped
  <1>11. ASSUME HandshakeOk PROVE RuntimeTyped' /\ ProcessesTyped'
    <2>1. /\ rt.i \in Proc /\ rt.cmd.b \in Buffer /\ rt.cmd.f \in File
          /\ rt.cmd.text \in 0..MaxEdit
      BY <1>11, AwaitFacts DEF HandshakeOk, RuntimeTyped
    <2>2. [ver |-> 1, text |-> rt.cmd.text] \in Copies
      BY <2>1, BoundsNat DEF Copies
    <2>3. ProcessesTyped'
      BY <1>11, <2>1, <2>2 DEF HandshakeOk, ProcessesTyped
    <2> QED
      BY <1>0, <1>11, <2>1, <2>3 DEF HandshakeOk, RuntimeTyped
  <1>12. ASSUME NEW i \in Proc, Dies(i) \/ Kill(i) \/ \E r \in Req \cup {Internal} : Answer(i, r)
         PROVE  RuntimeTyped' /\ ProcessesTyped'
    BY <1>12 DEF Dies, Kill, Reap, Answer, rtVars, RuntimeTyped, ProcessesTyped
  <1> QED
    BY <1>1, <1>2, <1>3, <1>4, <1>5, <1>6, <1>7, <1>8, <1>9, <1>10, <1>11, <1>12
      DEF Next, RuntimeStep

LEMMA TypedStep == ASSUME LspTyped, [Next]_vars PROVE LspTyped'
  <1>1. CASE Next
    BY <1>1, AppTypedStep, ChannelsTypedStep, RuntimeTypedStep DEF LspTyped
  <1>2. CASE UNCHANGED vars
    BY <1>2 DEF vars, appVars, rtVars, srvVars, LspTyped, AppTyped, StateTyped, RequestsTyped,
      ChannelsTyped, RuntimeTyped, ProcessesTyped
  <1> QED
    BY <1>1, <1>2
-----------------------------------------------------------------------------
(* News of the server *)

LEMMA EmitExited ==
    ASSUME LspTyped, Emit(ExitedEvt)
    PROVE  ~Believes' /\ ExitComing'
  <1>1. /\ evts' = Append(evts, ExitedEvt) /\ evts \in Seq(Evts) /\ ExitedEvt \in Evts
        /\ ExitedEvt.t = "exited"
    BY EventsTyped DEF Emit, LspTyped, ChannelsTyped, ExitedEvt
  <1>2. /\ DOMAIN evts' = 1..(Len(evts) + 1) /\ evts'[Len(evts) + 1] = ExitedEvt
        /\ Len(evts) \in Nat
    BY <1>1, AppendProperties, LenProperties
  <1>3. Len(evts) + 1 \in Exits(evts')
    BY <1>1, <1>2 DEF Exits
  <1>4. \A k \in DOMAIN evts' : ~(Len(evts) + 1 < k)
    BY <1>2
  <1> QED
    BY <1>3, <1>4 DEF Believes, StateAfter, ExitComing

LEMMA EmitInitialized ==
    ASSUME LspTyped, Emit(InitializedEvt)
    PROVE  Believes'
  <1>1. /\ evts' = Append(evts, InitializedEvt) /\ evts \in Seq(Evts)
        /\ InitializedEvt \in Evts /\ InitializedEvt.t = "initialized"
    BY EventsTyped DEF Emit, LspTyped, ChannelsTyped, InitializedEvt
  <1>2. /\ DOMAIN evts' = 1..(Len(evts) + 1) /\ evts'[Len(evts) + 1] = InitializedEvt
        /\ Len(evts) \in Nat
    BY <1>1, AppendProperties, LenProperties
  <1>3. \A j \in Exits(evts') : j < Len(evts) + 1
    BY <1>1, <1>2 DEF Exits
  <1> QED
    BY <1>1, <1>2, <1>3 DEF Believes, StateAfter

LEMMA EmitResponse ==
    ASSUME LspTyped, NEW r \in Req \cup {Internal}, Emit(ResponseEvt(r)), lspState' = lspState
    PROVE  (Believes <=> Believes') /\ Exits(evts') = Exits(evts)
  <1>1. /\ evts' = Append(evts, ResponseEvt(r)) /\ evts \in Seq(Evts)
        /\ ResponseEvt(r) \in Evts /\ ResponseEvt(r).t = "response"
    BY EventsTyped DEF Emit, LspTyped, ChannelsTyped, ResponseEvt
  <1>2. /\ DOMAIN evts' = DOMAIN evts \cup {Len(evts) + 1}
        /\ \A k \in DOMAIN evts : evts'[k] = evts[k]
        /\ evts'[Len(evts) + 1].t = "response"
    BY <1>1, ToSetAppend
  <1>3. Exits(evts') = Exits(evts)
    BY <1>2 DEF Exits
  <1> QED
    BY <1>2, <1>3 DEF Believes, StateAfter

\* A command sent adds to the channel, and what was there stays.
LEMMA SendKeepsExits ==
    ASSUME LspTyped, NEW cs \in Seq(Cmds), Send(cs)
    PROVE  /\ Exits(cmds) # {} => Exits(cmds') # {}
           /\ Exits(cs) # {} => Exits(cmds') # {}
  <1>1. /\ cmds' = cmds \o cs /\ cmds \in Seq(Cmds)
    BY DEF Send, LspTyped, ChannelsTyped
  <1>2. /\ DOMAIN cmds' = 1..(Len(cmds) + Len(cs)) /\ Len(cmds) \in Nat /\ Len(cs) \in Nat
        /\ DOMAIN cmds = 1..Len(cmds) /\ DOMAIN cs = 1..Len(cs)
        /\ \A k \in 1..(Len(cmds) + Len(cs)) :
             cmds'[k] = IF k <= Len(cmds) THEN cmds[k] ELSE cs[k - Len(cmds)]
    BY <1>1, ConcatProperties, LenProperties
  <1>3. \A k \in DOMAIN cmds : k \in DOMAIN cmds' /\ cmds'[k] = cmds[k]
    BY <1>2
  <1>4. \A k \in DOMAIN cs : k + Len(cmds) \in DOMAIN cmds' /\ cmds'[k + Len(cmds)] = cs[k]
    BY <1>2
  <1> QED
    BY <1>3, <1>4 DEF Exits

\* Taking another command leaves the news of an exit in the channel.
LEMMA TakeKeepsExits ==
    ASSUME LspTyped, NEW t, Takes(t), t # "exited", Exits(cmds) # {}
    PROVE  Exits(cmds') # {}
  <1>1. PICK k \in DOMAIN cmds : cmds[k].t = "exited"
    BY DEF Exits
  <1>2. cmds \in Seq(Cmds) /\ cmds # <<>> /\ cmds' = Tail(cmds) /\ cmds[1].t = t
    BY TakesFacts DEF LspTyped, ChannelsTyped
  <1>3. /\ Len(cmds) \in Nat \ {0} /\ DOMAIN cmds = 1..Len(cmds)
        /\ DOMAIN cmds' = 1..(Len(cmds) - 1)
        /\ \A i \in 1..(Len(cmds) - 1) : cmds'[i] = cmds[i + 1]
    BY <1>2, ToSetTail
  <1>4. k # 1
    BY <1>1, <1>2
  <1>5. k - 1 \in 1..(Len(cmds) - 1) /\ (k - 1) + 1 = k
    BY <1>3, <1>4
  <1>6. cmds'[k - 1] = cmds[k]
    BY <1>3, <1>5
  <1> QED
    BY <1>1, <1>3, <1>5, <1>6 DEF Exits

\* A drain passes every exit on and leaves what the application believes.
LEMMA DrainNews ==
    ASSUME LspTyped, NEW late \in SUBSET seen, Drain(late)
    PROVE  (Believes <=> Believes') /\ (ExitComing => ExitComing')
  <1>1. evts' = <<>> /\ DOMAIN evts' = {}
    BY DEF Drain
  <1>2. Exits(evts') = {}
    BY <1>1 DEF Exits
  <1>3. lspState' = StateAfter(evts)
    BY DEF Drain
  <1>4. Believes <=> Believes'
    BY <1>1, <1>2, <1>3 DEF Believes, StateAfter
  <1>5. ASSUME ExitComing PROVE ExitComing'
    <2> DEFINE n == Cardinality(Exits(evts))
               cs == [k \in 1..n |-> ExitedCmd]
    <2>1. evts \in Seq(Evts)
      BY DEF LspTyped, ChannelsTyped
    <2>2. n \in Nat /\ (n = 0 <=> Exits(evts) = {})
      BY <2>1, ExitsFinite
    <2>3. Send(cs)
      BY DEF Drain
    <2> HIDE DEF n
    <2>4. cs \in Seq(Cmds)
      BY <2>2, ExitBatch
    <2>5. Exits(evts) # {} => 1 \in Exits(cs)
      BY <2>2 DEF Exits, ExitedCmd
    <2> HIDE DEF cs
    <2> QED
      BY <1>5, <2>3, <2>4, <2>5, SendKeepsExits DEF ExitComing
  <1> QED
    BY <1>4, <1>5
\* What the application does by itself: its own exit apart, it changes nothing
\* of the server, and no news is lost.
LEMMA AppNews ==
    ASSUME LspTyped, UserStep \/ Leave \/ \E late \in SUBSET seen : Drain(late)
    PROVE  /\ Believes <=> Believes'
           /\ ExitComing => ExitComing'
           /\ app' # "gone" => app # "gone"
  <1>1. ASSUME UserStep PROVE (Believes <=> Believes') /\ (ExitComing => ExitComing')
    BY <1>1, UserSends, SendKeepsExits DEF SendsOnly, Believes, StateAfter, ExitComing
  <1>2. ASSUME Leave PROVE (Believes <=> Believes') /\ (ExitComing => ExitComing')
    BY <1>2 DEF Leave, Believes, StateAfter, ExitComing
  <1>3. app' # "gone" => app # "gone"
    BY DEF UserStep, Open, OpenAborted, Close, Restart, SetFiletype, Request,
    Edit, TimeTravel, Key, WorkspaceEdit, Formatted, ExEdit, ExTimeTravel, Replace,
    ConfirmSubstitute, Save, SaveFails, Notified, NotNotified, Quit, Leave, Drain, Handling
  <1> QED
    BY <1>1, <1>2, <1>3, DrainNews

LEMMA TakeNews ==
    ASSUME LspTyped, NEW t, Takes(t), t # "exited", UNCHANGED <<evts, lspState>>
    PROVE  (Believes <=> Believes') /\ (ExitComing => ExitComing')
  BY TakeKeepsExits DEF Believes, StateAfter, ExitComing

-----------------------------------------------------------------------------
(* The server invariant *)

LEMMA ServerInit == ASSUME Init PROVE ServerInv
  <1>1. EntryHolds /\ AttachmentsHold /\ NoServerLeaks
    BY DEF Init, EntryHolds, AttachmentsHold, NoServerLeaks, Alive, Idle, Buffer
  <1>2. ~Believes
    BY DEF Init, Believes, StateAfter
  <1>3. NewsOnTheWay
    BY <1>2 DEF Init, NewsOnTheWay
  <1> QED
    BY <1>1, <1>3 DEF ServerInv

LEMMA ServerStep == ASSUME LspTyped, ServerInv, Next PROVE ServerInv'
  <1>0. /\ ChannelsTyped /\ servers \in 0..MaxSpawn /\ (servers # 0 => servers \in Proc)
        /\ proc \in [Proc -> {"none", "starting", "up", "exiting", "doomed", "dead"}]
        /\ attached \in [Buffer -> Nat] /\ rt \in Awaits /\ 0 \notin Proc
        /\ rt.op \in {"idle", "handshake", "stopping", "quitting", "stopped"}
    BY BoundsNat, AwaitFacts DEF LspTyped, RuntimeTyped, ProcessesTyped, Proc
  <1>1. ASSUME UserStep \/ Leave \/ \E late \in SUBSET seen : Drain(late)
        PROVE  ServerInv'
    <2>1. UNCHANGED <<rt, servers, attached, proc>>
      BY <1>1, AppLeavesRuntime DEF rtVars, srvVars
    <2>2. NewsOnTheWay'
      BY <1>1, <2>1, AppNews DEF ServerInv, NewsOnTheWay
    <2>3. EntryHolds' /\ AttachmentsHold'
      BY <2>1 DEF ServerInv, EntryHolds, AttachmentsHold
    <2>4. NoServerLeaks'
      BY <1>1, <2>1, AppNews DEF ServerInv, NoServerLeaks, Alive
    <2> QED
      BY <2>2, <2>3, <2>4 DEF ServerInv
  <1>2. ASSUME AttachIgnored \/ DidSave \/ SendRequest PROVE ServerInv'
    <2>1. UNCHANGED <<rt, servers, attached, proc, app>>
      BY <1>2 DEF AttachIgnored, DidSave, SendRequest, rtVars, srvVars, appVars
    <2>2. (Believes <=> Believes') /\ (ExitComing => ExitComing')
      BY <1>2, TakeNews DEF AttachIgnored, DidSave, SendRequest, appVars
    <2> QED
      BY <2>1, <2>2 DEF ServerInv, NewsOnTheWay, EntryHolds, AttachmentsHold, NoServerLeaks, Alive
  <1>3. ASSUME AttachRunning \/ Change PROVE ServerInv'
    <2>1. UNCHANGED <<rt, servers, proc, app>>
      BY <1>3 DEF AttachRunning, Change, appVars
    <2>2. (Believes <=> Believes') /\ (ExitComing => ExitComing')
      BY <1>3, TakeNews DEF AttachRunning, Change, appVars
    <2>3. AttachmentsHold'
      <3>1. CASE AttachRunning
        <4>1. Head(cmds).b \in Buffer
          BY <1>0, <3>1, TakesFacts, CommandFacts DEF AttachRunning
        <4>2. servers # 0 /\ attached' = [attached EXCEPT ![Head(cmds).b] = 1]
          BY <3>1 DEF AttachRunning, DidOpen
        <4> QED
          BY <1>0, <2>1, <4>1, <4>2 DEF AttachmentsHold
      <3>2. CASE Change
        <4>1. Head(cmds).b \in Buffer
          BY <1>0, <3>2, TakesFacts, CommandFacts DEF Change
        <4>2. attached' = [attached EXCEPT ![Head(cmds).b] =
                             IF @ = 0 THEN 0 ELSE attached[Head(cmds).b] + 1]
          BY <3>2 DEF Change
        <4>3. \A b \in Buffer : attached'[b] > 0 <=> attached[b] > 0
          BY <1>0, <4>1, <4>2
        <4>4. \A b \in Buffer : attached'[b] = 0 <=> attached[b] = 0
          BY <1>0, <4>1, <4>2
        <4> QED
          BY <2>1, <4>3, <4>4 DEF ServerInv, AttachmentsHold
      <3> QED
        BY <1>3, <3>1, <3>2
    <2> QED
      BY <2>1, <2>2, <2>3 DEF ServerInv, NewsOnTheWay, EntryHolds, NoServerLeaks, Alive
  <1>4. ASSUME AttachSpawn PROVE ServerInv'
    <2>1. PICK i \in Proc : /\ proc[i] = "none" /\ proc' = [proc EXCEPT ![i] = "starting"]
                            /\ rt' = [op |-> "handshake", i |-> i, cmd |-> Head(cmds)]
      BY <1>4 DEF AttachSpawn
    <2>2. /\ UNCHANGED <<servers, attached, app>> /\ servers = 0 /\ rt = Idle
          /\ rt'.op = "handshake" /\ rt'.i = i
      BY <1>0, <1>4, <2>1, TakesFacts DEF AttachSpawn, appVars
    <2>3. (Believes <=> Believes') /\ (ExitComing => ExitComing')
      BY <1>4, TakeNews DEF AttachSpawn, appVars
    <2>4. EntryHolds' /\ NoServerLeaks' /\ AttachmentsHold'
      BY <1>0, <2>1, <2>2 DEF ServerInv, EntryHolds, NoServerLeaks, AttachmentsHold, Alive, Idle
    <2>5. NewsOnTheWay'
      BY <1>0, <2>1, <2>2, <2>3 DEF ServerInv, NewsOnTheWay, Idle
    <2> QED
      BY <2>4, <2>5 DEF ServerInv
  <1>5. ASSUME Detach PROVE ServerInv'
    <2> DEFINE b == Head(cmds).b
    <2>1. /\ b \in Buffer /\ rt = Idle /\ rt.op = "idle" /\ app' = app
          /\ attached' = [attached EXCEPT ![b] = 0]
      BY <1>0, <1>5, TakesFacts, CommandFacts DEF Detach, appVars
    <2>2. (Believes <=> Believes') /\ (ExitComing => ExitComing')
      BY <1>5, TakeNews DEF Detach, appVars
    <2>3. CASE attached[b] > 0 /\ ~StillInUse(b) /\ servers # 0
      <3>1. /\ servers' = 0 /\ rt' = [op |-> "stopping", i |-> servers] /\ rt'.op = "stopping"
            /\ rt'.i = servers
            /\ proc' = [proc EXCEPT ![servers] = IF @ = "up" THEN "exiting" ELSE @]
        BY <1>5, <2>3 DEF Detach, Shutdown
      <3>2. AttachmentsHold'
        <4>1. \A c \in Buffer : attached'[c] = 0
          BY <1>0, <2>1, <2>3 DEF StillInUse
        <4> QED
          BY <3>1, <4>1 DEF AttachmentsHold
      <3> HIDE DEF b
      <3>3. EntryHolds' /\ NoServerLeaks'
        BY <1>0, <2>1, <2>3, <3>1 DEF ServerInv, EntryHolds, NoServerLeaks, Alive
      <3>4. NewsOnTheWay'
        BY <1>0, <2>1, <2>2, <2>3, <3>1 DEF ServerInv, NewsOnTheWay, EntryHolds
      <3> QED
        BY <3>2, <3>3, <3>4 DEF ServerInv
    <2>4. CASE ~(attached[b] > 0 /\ ~StillInUse(b) /\ servers # 0)
      <3>1. UNCHANGED <<servers, rt, proc>>
        BY <1>5, <2>4 DEF Detach
      <3>2. AttachmentsHold'
        <4>1. CASE servers = 0
          <5>1. \A c \in Buffer : attached[c] = 0 => attached'[c] = 0
            BY <1>0, <2>1
          <5> QED
            BY <3>1, <4>1, <5>1 DEF ServerInv, AttachmentsHold
        <4>2. CASE servers # 0 /\ attached[b] = 0
          <5>1. attached' = attached
            BY <1>0, <2>1, <4>2
          <5> QED
            BY <3>1, <5>1 DEF ServerInv, AttachmentsHold
        <4>3. CASE servers # 0 /\ attached[b] # 0
          <5>1. StillInUse(b)
            BY <1>0, <2>1, <2>4, <4>3
          <5> QED
            BY <1>0, <2>1, <3>1, <4>3, <5>1 DEF StillInUse, AttachmentsHold
        <4> QED
          BY <4>1, <4>2, <4>3
      <3> QED
        BY <2>1, <2>2, <3>1, <3>2 DEF ServerInv, NewsOnTheWay, EntryHolds, NoServerLeaks, Alive
    <2> QED
      BY <2>3, <2>4
  <1>6. ASSUME ServerExited PROVE ServerInv'
    <2>1. /\ rt' = rt /\ rt = Idle /\ rt.op = "idle" /\ app' = app /\ servers' = 0
          /\ \A b \in Buffer : attached'[b] = 0
          /\ proc' = [i \in Proc |-> IF i = servers /\ proc[i] = "up" THEN "doomed" ELSE proc[i]]
          /\ UNCHANGED <<evts, lspState>>
      BY <1>0, <1>6, TakesFacts DEF ServerExited, appVars
    <2>2. Believes' <=> Believes
      BY <2>1 DEF Believes, StateAfter
    <2>3. EntryHolds' /\ AttachmentsHold' /\ NoServerLeaks'
      BY <1>0, <2>1 DEF ServerInv, EntryHolds, AttachmentsHold, NoServerLeaks, Alive
    <2>4. NewsOnTheWay'
      BY <1>0, <2>1, <2>2 DEF ServerInv, NewsOnTheWay
    <2> QED
      BY <2>3, <2>4 DEF ServerInv
  <1>7. ASSUME ShutdownAll PROVE ServerInv'
    <2>1. /\ rt' = [op |-> "quitting", i |-> servers] /\ rt'.op = "quitting" /\ rt'.i = servers
          /\ rt = Idle /\ rt.op = "idle" /\ app' = app /\ servers' = 0
          /\ IF servers = 0 THEN proc' = proc
             ELSE proc' = [proc EXCEPT ![servers] = IF @ = "up" THEN "exiting" ELSE @]
      BY <1>0, <1>7, TakesFacts DEF ShutdownAll, Shutdown, appVars
    <2>2. EntryHolds' /\ NoServerLeaks'
      BY <1>0, <2>1 DEF ServerInv, EntryHolds, NoServerLeaks, Alive
    <2> QED
      BY <2>1, <2>2 DEF ServerInv, AttachmentsHold, NewsOnTheWay
  <1>8. ASSUME Stopped PROVE ServerInv'
    <2>1. /\ rt.op = "stopping" /\ proc[rt.i] = "dead" /\ rt' = Idle /\ rt'.op = "idle"
          /\ UNCHANGED <<app, lspState, cmds, evts, servers, attached, proc>>
      BY <1>8 DEF Stopped, srvVars, appVars, Idle
    <2>2. (Believes <=> Believes') /\ (ExitComing <=> ExitComing')
      BY <2>1 DEF Believes, StateAfter, ExitComing
    <2> QED
      BY <1>0, <2>1, <2>2 DEF ServerInv, NewsOnTheWay, EntryHolds, AttachmentsHold,
        NoServerLeaks, Alive
  <1>9. ASSUME ThreadEnds PROVE ServerInv'
    <2>1. /\ rt.op = "quitting" /\ rt' = [op |-> "stopped"] /\ rt'.op = "stopped"
          /\ proc' = [i \in Proc |-> IF Alive(i) THEN "dead" ELSE proc[i]]
          /\ UNCHANGED <<app, servers, attached>>
      BY <1>9 DEF ThreadEnds, appVars
    <2>2. servers = 0
      BY <2>1 DEF ServerInv, EntryHolds
    <2>3. EntryHolds' /\ NoServerLeaks'
      BY <1>0, <2>1, <2>2 DEF ServerInv, EntryHolds, NoServerLeaks, Alive
    <2> QED
      BY <2>1, <2>2, <2>3 DEF ServerInv, NewsOnTheWay, AttachmentsHold
  <1>10. ASSUME HandshakeOk PROVE ServerInv'
    <2>1. rt.op = "handshake" /\ rt.i \in Proc /\ rt.cmd.b \in Buffer
      BY <1>0, <1>10, AwaitFacts DEF HandshakeOk
    <2>2. /\ proc' = [proc EXCEPT ![rt.i] = "up"] /\ servers' = rt.i /\ rt' = Idle
          /\ rt'.op = "idle" /\ attached' = [attached EXCEPT ![rt.cmd.b] = 1] /\ app' = app
      BY <1>10 DEF HandshakeOk, appVars, Idle
    <2>3. Believes'
      BY <1>10, EmitInitialized DEF HandshakeOk
    <2>4. servers' # 0 /\ proc'[servers'] = "up"
      BY <1>0, <2>1, <2>2
    <2>5. EntryHolds' /\ NoServerLeaks'
      BY <1>0, <2>1, <2>2, <2>4 DEF ServerInv, EntryHolds, NoServerLeaks, Alive
    <2>6. AttachmentsHold'
      BY <1>0, <2>1, <2>2, <2>4 DEF AttachmentsHold
    <2>7. NewsOnTheWay'
      BY <2>3, <2>4 DEF NewsOnTheWay
    <2> QED
      BY <2>5, <2>6, <2>7 DEF ServerInv
  <1>11. ASSUME HandshakeFails PROVE ServerInv'
    <2>1. rt.op = "handshake" /\ rt.i \in Proc
      BY <1>0, <1>11, AwaitFacts DEF HandshakeFails
    <2>2. /\ proc' = [proc EXCEPT ![rt.i] = "dead"] /\ rt' = Idle /\ rt'.op = "idle"
          /\ UNCHANGED <<app, lspState, cmds, evts, servers, attached>>
      BY <1>11 DEF HandshakeFails, appVars, Idle
    <2>3. servers = 0 /\ proc[rt.i] = "starting"
      BY <2>1 DEF ServerInv, EntryHolds
    <2>4. Believes' <=> Believes
      BY <2>2 DEF Believes, StateAfter
    <2>5. EntryHolds' /\ NoServerLeaks'
      BY <1>0, <2>1, <2>2, <2>3 DEF ServerInv, EntryHolds, NoServerLeaks, Alive
    <2>6. AttachmentsHold'
      BY <2>1, <2>2, <2>3 DEF ServerInv, AttachmentsHold
    <2>7. NewsOnTheWay'
      BY <1>0, <2>1, <2>2, <2>3, <2>4 DEF ServerInv, NewsOnTheWay
    <2> QED
      BY <2>5, <2>6, <2>7 DEF ServerInv
  <1>12. ASSUME NEW i \in Proc, Dies(i) \/ Kill(i) PROVE ServerInv'
    <2>1. /\ proc[i] \in {"up", "exiting", "doomed"} /\ proc' = [proc EXCEPT ![i] = "dead"]
          /\ UNCHANGED <<app, rt, servers, attached>>
          /\ app # "gone" => Emit(ExitedEvt)
      BY <1>12 DEF Dies, Kill, Reap, Running, rtVars, appVars
    <2>2. app # "gone" => ~Believes' /\ ExitComing'
      BY <2>1, EmitExited
    <2>3. EntryHolds' /\ NoServerLeaks' /\ AttachmentsHold'
      BY <1>0, <2>1 DEF ServerInv, EntryHolds, NoServerLeaks, AttachmentsHold, Alive
    <2>4. NewsOnTheWay'
      BY <2>1, <2>2 DEF NewsOnTheWay
    <2> QED
      BY <2>3, <2>4 DEF ServerInv
  <1>13. ASSUME NEW i \in Proc, NEW r \in Req \cup {Internal}, Answer(i, r) PROVE ServerInv'
    <2>1. /\ UNCHANGED <<app, lspState, cmds, rt, servers, attached, proc>>
          /\ Emit(ResponseEvt(r))
      BY <1>13 DEF Answer, rtVars, appVars
    <2>2. (Believes <=> Believes') /\ (ExitComing <=> ExitComing')
      BY <2>1, EmitResponse DEF ExitComing
    <2> QED
      BY <2>1, <2>2 DEF ServerInv, NewsOnTheWay, EntryHolds, AttachmentsHold, NoServerLeaks, Alive
  <1> QED
    BY <1>1, <1>2, <1>3, <1>4, <1>5, <1>6, <1>7, <1>8, <1>9, <1>10, <1>11, <1>12, <1>13
      DEF Next, RuntimeStep
-----------------------------------------------------------------------------
(* The order of commands, as the channel grows and as it is read *)

\* r is q with more commands behind it.
Grows(q, r) ==
  /\ DOMAIN q \subseteq DOMAIN r /\ DOMAIN r \subseteq Nat \ {0}
  /\ \A k \in DOMAIN q : r[k] = q[k]
  /\ \A k \in DOMAIN r \ DOMAIN q, j \in DOMAIN q : j < k

\* r is q without its first command.
Shrinks(q, r) ==
  /\ 1 \in DOMAIN q
  /\ \A k \in DOMAIN r : k \in Nat \ {0} /\ k + 1 \in DOMAIN q /\ q[k + 1] = r[k]
  /\ \A k \in DOMAIN q : k = 1 \/ (k \in Nat /\ k - 1 \in Nat \ {0}
                                   /\ k - 1 \in DOMAIN r /\ r[k - 1] = q[k])

LEMMA ConcatGrows ==
    ASSUME NEW S, NEW q \in Seq(S), NEW cs \in Seq(S)
    PROVE  /\ Grows(q, q \o cs)
           /\ \A k \in DOMAIN (q \o cs) \ DOMAIN q :
                \E i \in DOMAIN cs : k = Len(q) + i /\ (q \o cs)[k] = cs[i]
           /\ \A i \in DOMAIN cs : /\ Len(q) + i \in DOMAIN (q \o cs) \ DOMAIN q
                                   /\ (q \o cs)[Len(q) + i] = cs[i]
  <1> DEFINE r == q \o cs
             m == Len(q)
             n == Len(cs)
  <1>1. /\ DOMAIN r = 1..(m + n) /\ m \in Nat /\ n \in Nat
        /\ DOMAIN q = 1..m /\ DOMAIN cs = 1..n
        /\ \A k \in 1..(m + n) : r[k] = IF k <= m THEN q[k] ELSE cs[k - m]
    BY ConcatProperties, LenProperties
  <1> HIDE DEF r, m, n
  <1>2. Grows(q, r)
    BY <1>1 DEF Grows
  <1>3. ASSUME NEW k \in DOMAIN r \ DOMAIN q
        PROVE  \E i \in DOMAIN cs : k = m + i /\ r[k] = cs[i]
    <2>1. k - m \in 1..n /\ k = m + (k - m) /\ r[k] = cs[k - m]
      BY <1>1
    <2> QED
      BY <1>1, <2>1
  <1>4. ASSUME NEW i \in DOMAIN cs
        PROVE  m + i \in DOMAIN r \ DOMAIN q /\ r[m + i] = cs[i]
    <2>1. m + i \in 1..(m + n) /\ ~(m + i <= m) /\ (m + i) - m = i
      BY <1>1
    <2> QED
      BY <1>1, <2>1
  <1> QED
    BY <1>2, <1>3, <1>4 DEF r, m, n

LEMMA ConcatOne ==
    ASSUME NEW S, NEW q \in Seq(S), NEW x \in S
    PROVE  /\ Grows(q, q \o <<x>>)
           /\ \A k \in DOMAIN (q \o <<x>>) \ DOMAIN q : (q \o <<x>>)[k] = x
  <1>1. <<x>> \in Seq(S) /\ \A i \in DOMAIN <<x>> : <<x>>[i] = x
    OBVIOUS
  <1> DEFINE cs == <<x>>
  <1> HIDE DEF cs
  <1>2. cs \in Seq(S) /\ \A i \in DOMAIN cs : cs[i] = x
    BY <1>1 DEF cs
  <1>3. /\ Grows(q, q \o cs)
        /\ \A k \in DOMAIN (q \o cs) \ DOMAIN q : \E i \in DOMAIN cs : (q \o cs)[k] = cs[i]
    BY <1>2, ConcatGrows
  <1>4. \A k \in DOMAIN (q \o cs) \ DOMAIN q : (q \o cs)[k] = x
    BY <1>2, <1>3
  <1> QED
    BY <1>3, <1>4 DEF cs

LEMMA TailShrinks ==
    ASSUME NEW S, NEW q \in Seq(S), q # <<>>
    PROVE  Shrinks(q, Tail(q)) /\ q[1] = Head(q)
  <1> DEFINE r == Tail(q)
             n == Len(q)
  <1>1. /\ n \in Nat \ {0} /\ DOMAIN q = 1..n /\ DOMAIN r = 1..(n - 1)
        /\ \A i \in 1..(n - 1) : r[i] = q[i + 1]
        /\ q[1] = Head(q)
    BY ToSetTail
  <1> HIDE DEF r, n
  <1>2. \A k \in DOMAIN r : k \in Nat \ {0} /\ k + 1 \in DOMAIN q /\ q[k + 1] = r[k]
    BY <1>1
  <1>3. ASSUME NEW k \in DOMAIN q, k # 1
        PROVE  k \in Nat /\ k - 1 \in Nat \ {0} /\ k - 1 \in DOMAIN r /\ r[k - 1] = q[k]
    <2>1. k - 1 \in 1..(n - 1) /\ (k - 1) + 1 = k /\ k \in Nat
      BY <1>1, <1>3
    <2>2. r[k - 1] = q[(k - 1) + 1]
      BY <1>1, <2>1
    <2> QED
      BY <1>1, <2>1, <2>2
  <1>4. Shrinks(q, r)
    BY <1>1, <1>2, <1>3 DEF Shrinks
  <1> QED
    BY <1>1, <1>4 DEF r

\* A command about b, which attaches it to no file but f.
About(c, b, f) ==
  /\ c.t \notin {"exited", "shutdown"} => c.b = b
  /\ c.t = "attach" => c.f = f

\* The new commands are all about b.
NewFor(q, r, b, f) == \A k \in DOMAIN r \ DOMAIN q : About(r[k], b, f)

LEMMA OrderGrows ==
    ASSUME NEW q, NEW r, NEW H, NEW L, NEW s, NEW b \in Buffer, NEW f \in File,
           Grows(q, r), NewFor(q, r, b, f),
           Ordered(q, H, L), Owned(q, H, L, s), Quiet(q, H, L, s),
           \A c \in Buffer : c # b => s[c] # f,
           s[b] = f \/ (b \in L /\ s[b] = "closed"),
           s[b] # "unused",
           b \in L => \A k \in DOMAIN r \ DOMAIN q : Concerns(r[k], b) => r[k].t = "attach"
    PROVE  Ordered(r, H, L) /\ Owned(r, H, L, s) /\ Quiet(r, H, L, s)
  <1>1. \A c, k : DetachAt(q, c, k) => DetachAt(r, c, k)
    BY DEF Grows, DetachAt
  <1>2. \A c, j : DetachAfter(q, c, j) => DetachAfter(r, c, j)
    BY <1>1 DEF DetachAfter
  <1>3. \A c, j, k : DetachBetween(q, c, j, k) => DetachBetween(r, c, j, k)
    BY <1>1 DEF DetachBetween
  <1>4. \A c, j : \A k \in DOMAIN r \ DOMAIN q :
          DetachAfter(q, c, j) => DetachBetween(r, c, j, k)
    BY <1>1 DEF Grows, DetachAfter, DetachBetween, DetachAt
  <1>5. \A c, g, k : AttachAt(r, c, g, k) =>
          AttachAt(q, c, g, k) \/ (k \in DOMAIN r \ DOMAIN q /\ c = b /\ g = f)
    BY DEF Grows, NewFor, About, AttachAt
  <1>6. Ordered(r, H, L)
    <2> SUFFICES ASSUME NEW c \in Buffer \ L, NEW d \in Buffer, NEW g \in File, NEW k \in Nat,
                        d # c, AttachAt(r, d, g, k)
                 PROVE  /\ <<c, g>> \in H => DetachBetween(r, c, 0, k)
                        /\ \A j \in Nat : j < k /\ AttachAt(r, c, g, j) =>
                             DetachBetween(r, c, j, k)
      BY DEF Ordered
    <2>1. CASE AttachAt(q, d, g, k)
      <3>1. <<c, g>> \in H => DetachBetween(q, c, 0, k)
        BY <2>1 DEF Ordered
      <3>2. ASSUME NEW j \in Nat, j < k, AttachAt(r, c, g, j) PROVE DetachBetween(r, c, j, k)
        <4>1. j \in DOMAIN q
          BY <2>1, <3>2 DEF Grows, AttachAt
        <4>2. AttachAt(q, c, g, j)
          BY <3>2, <4>1, <1>5
        <4>3. DetachBetween(q, c, j, k)
          BY <2>1, <3>2, <4>2 DEF Ordered
        <4> QED
          BY <4>3, <1>3
      <3> QED
        BY <3>1, <3>2, <1>3
    <2>2. CASE k \in DOMAIN r \ DOMAIN q /\ d = b /\ g = f
      <3>0. s[c] # f /\ c # b
        BY <2>2
      <3>1. <<c, g>> \in H => DetachAfter(q, c, 0)
        BY <2>2, <3>0 DEF Owned
      <3>2. ASSUME NEW j \in Nat, AttachAt(r, c, g, j) PROVE DetachAfter(q, c, j)
        <4>1. AttachAt(q, c, g, j)
          BY <3>0, <3>2, <1>5
        <4> QED
          BY <2>2, <3>0, <4>1 DEF Owned
      <3> QED
        BY <1>4, <2>2, <3>1, <3>2
    <2> QED
      BY <1>5, <2>1, <2>2
  <1>7. Owned(r, H, L, s)
    <2> SUFFICES ASSUME NEW c \in Buffer \ L, NEW g \in File
                 PROVE  /\ <<c, g>> \in H => s[c] = g \/ (s[c] = "closed" /\ DetachAfter(r, c, 0))
                        /\ \A j \in Nat : AttachAt(r, c, g, j) =>
                             s[c] = g \/ (s[c] = "closed" /\ DetachAfter(r, c, j))
      BY DEF Owned
    <2>1. <<c, g>> \in H => s[c] = g \/ (s[c] = "closed" /\ DetachAfter(r, c, 0))
      BY <1>2 DEF Owned
    <2>2. ASSUME NEW j \in Nat, AttachAt(r, c, g, j)
          PROVE  s[c] = g \/ (s[c] = "closed" /\ DetachAfter(r, c, j))
      <3>1. CASE AttachAt(q, c, g, j)
        BY <1>2, <3>1 DEF Owned
      <3>2. CASE c = b /\ g = f
        BY <3>2
      <3> QED
        BY <1>5, <2>2, <3>1, <3>2
    <2> QED
      BY <2>1, <2>2
  <1>8. Quiet(r, H, L, s)
    <2> SUFFICES ASSUME NEW c \in Buffer
                 PROVE  /\ s[c] = "unused" =>
                             /\ c \notin L /\ \A g \in File : <<c, g>> \notin H
                             /\ \A k \in DOMAIN r : ~Concerns(r[k], c)
                        /\ c \in L =>
                             /\ s[c] = "closed"
                             /\ \A k \in DOMAIN r : Concerns(r[k], c) => r[k].t = "attach"
      BY DEF Quiet
    <2>1. ASSUME NEW k \in DOMAIN r, Concerns(r[k], c)
          PROVE  s[c] # "unused" /\ (c \in L => r[k].t = "attach")
      <3>1. CASE k \in DOMAIN q
        <4>1. r[k] = q[k]
          BY <3>1 DEF Grows
        <4>2. Concerns(q[k], c)
          BY <2>1, <4>1
        <4> QED
          BY <3>1, <4>1, <4>2 DEF Quiet
      <3>2. CASE k \notin DOMAIN q
        <4>1. c = b
          BY <2>1, <3>2 DEF NewFor, About, Concerns
        <4> QED
          BY <2>1, <3>2, <4>1
      <3> QED
        BY <3>1, <3>2
    <2> QED
      BY <2>1 DEF Quiet
  <1> QED
    BY <1>6, <1>7, <1>8
\* Exits and shutdowns concern no buffer.
LEMMA OrderSignals ==
    ASSUME NEW q, NEW r, NEW H, NEW L, NEW s, Grows(q, r),
           \A k \in DOMAIN r \ DOMAIN q : r[k].t \in {"exited", "shutdown"},
           Ordered(q, H, L), Owned(q, H, L, s), Quiet(q, H, L, s)
    PROVE  Ordered(r, H, L) /\ Owned(r, H, L, s) /\ Quiet(r, H, L, s)
  <1>1. \A c, k : DetachAt(q, c, k) => DetachAt(r, c, k)
    BY DEF Grows, DetachAt
  <1>2. \A c, j : DetachAfter(q, c, j) => DetachAfter(r, c, j)
    BY <1>1 DEF DetachAfter
  <1>3. \A c, j, k : DetachBetween(q, c, j, k) => DetachBetween(r, c, j, k)
    BY <1>1 DEF DetachBetween
  <1>4. \A c, g, k : AttachAt(r, c, g, k) => AttachAt(q, c, g, k)
    BY DEF Grows, AttachAt
  <1>5. \A c : \A k \in DOMAIN r : Concerns(r[k], c) => k \in DOMAIN q /\ r[k] = q[k]
    BY DEF Grows, Concerns
  <1>6. Ordered(r, H, L)
    BY <1>3, <1>4 DEF Ordered
  <1>7. Owned(r, H, L, s)
    BY <1>2, <1>4 DEF Owned
  <1>8. Quiet(r, H, L, s)
    BY <1>5 DEF Quiet
  <1> QED
    BY <1>6, <1>7, <1>8

\* The dispatcher holds G after the first command: what it held before, unless
\* the command detaches it, and what the command attaches.
HeldAfter(q, H, G) ==
  \A c \in Buffer, f \in File : <<c, f>> \in G =>
    (<<c, f>> \in H /\ ~DetachAt(q, c, 1)) \/ AttachAt(q, c, f, 1)

LEMMA OrderShrinks ==
    ASSUME NEW q, NEW r, NEW H, NEW G, NEW L, NEW s, Shrinks(q, r), HeldAfter(q, H, G),
           Ordered(q, H, L), Owned(q, H, L, s), Quiet(q, H, L, s)
    PROVE  Ordered(r, G, L) /\ Owned(r, G, L, s) /\ Quiet(r, G, L, s)
  <1>1. \A c : \A j, k \in Nat : DetachBetween(q, c, j + 1, k + 1) => DetachBetween(r, c, j, k)
    <2> SUFFICES ASSUME NEW c, NEW j \in Nat, NEW k \in Nat, NEW m \in Nat,
                        j + 1 < m, m < k + 1, DetachAt(q, c, m)
                 PROVE  DetachBetween(r, c, j, k)
      BY DEF DetachBetween
    <2>1. m - 1 \in Nat /\ DetachAt(r, c, m - 1) /\ j < m - 1 /\ m - 1 < k
      BY DEF Shrinks, DetachAt
    <2> QED
      BY <2>1 DEF DetachBetween
  <1>2. \A c : \A j \in Nat : DetachAfter(q, c, j + 1) => DetachAfter(r, c, j)
    <2> SUFFICES ASSUME NEW c, NEW j \in Nat, NEW m \in Nat, j + 1 < m, DetachAt(q, c, m)
                 PROVE  DetachAfter(r, c, j)
      BY DEF DetachAfter
    <2>1. m - 1 \in Nat /\ DetachAt(r, c, m - 1) /\ j < m - 1
      BY DEF Shrinks, DetachAt
    <2> QED
      BY <2>1 DEF DetachAfter
  <1>3. \A c, f : \A k \in Nat : AttachAt(r, c, f, k) => AttachAt(q, c, f, k + 1) /\ k # 0
    BY DEF Shrinks, AttachAt
  <1>4. \A c : \A k \in Nat : ~DetachAt(q, c, 1) /\ DetachBetween(q, c, 0, k) =>
          DetachBetween(q, c, 1, k)
    <2> SUFFICES ASSUME NEW c, NEW k \in Nat, NEW m \in Nat, ~DetachAt(q, c, 1),
                        0 < m, m < k, DetachAt(q, c, m)
                 PROVE  DetachBetween(q, c, 1, k)
      BY DEF DetachBetween
    <2>1. m # 1
      OBVIOUS
    <2>2. 1 < m
      BY <2>1
    <2> QED
      BY <2>2 DEF DetachBetween
  <1>5. \A c : ~DetachAt(q, c, 1) /\ DetachAfter(q, c, 0) => DetachAfter(q, c, 1)
    <2> SUFFICES ASSUME NEW c, NEW m \in Nat, ~DetachAt(q, c, 1), 0 < m, DetachAt(q, c, m)
                 PROVE  DetachAfter(q, c, 1)
      BY DEF DetachAfter
    <2>1. m # 1
      OBVIOUS
    <2>2. 1 < m
      BY <2>1
    <2> QED
      BY <2>2 DEF DetachAfter
  <1>6. Ordered(r, G, L)
    <2> SUFFICES ASSUME NEW c \in Buffer \ L, NEW b \in Buffer, NEW f \in File, NEW k \in Nat,
                        b # c, AttachAt(r, b, f, k)
                 PROVE  /\ <<c, f>> \in G => DetachBetween(r, c, 0, k)
                        /\ \A j \in Nat : j < k /\ AttachAt(r, c, f, j) =>
                             DetachBetween(r, c, j, k)
      BY DEF Ordered
    <2>0. AttachAt(q, b, f, k + 1) /\ k + 1 \in Nat /\ 1 < k + 1 /\ 0 + 1 = 1
      BY <1>3
    <2>1. ASSUME <<c, f>> \in H, ~DetachAt(q, c, 1) PROVE DetachBetween(r, c, 0, k)
      <3>1. DetachBetween(q, c, 0, k + 1)
        BY <2>0, <2>1 DEF Ordered
      <3>2. DetachBetween(q, c, 1, k + 1)
        BY <1>4, <2>0, <2>1, <3>1
      <3> QED
        BY <1>1, <2>0, <3>2
    <2>2. ASSUME AttachAt(q, c, f, 1) PROVE DetachBetween(r, c, 0, k)
      <3>1. DetachBetween(q, c, 1, k + 1)
        BY <2>0, <2>2 DEF Ordered
      <3> QED
        BY <1>1, <2>0, <3>1
    <2>3. ASSUME NEW j \in Nat, j < k, AttachAt(r, c, f, j) PROVE DetachBetween(r, c, j, k)
      <3>1. AttachAt(q, c, f, j + 1) /\ j + 1 \in Nat /\ j + 1 < k + 1
        BY <1>3, <2>3
      <3>2. DetachBetween(q, c, j + 1, k + 1)
        BY <2>0, <3>1 DEF Ordered
      <3> QED
        BY <1>1, <3>2
    <2> QED
      BY <2>1, <2>2, <2>3 DEF HeldAfter
  <1>7. Owned(r, G, L, s)
    <2> SUFFICES ASSUME NEW c \in Buffer \ L, NEW f \in File
                 PROVE  /\ <<c, f>> \in G => s[c] = f \/ (s[c] = "closed" /\ DetachAfter(r, c, 0))
                        /\ \A j \in Nat : AttachAt(r, c, f, j) =>
                             s[c] = f \/ (s[c] = "closed" /\ DetachAfter(r, c, j))
      BY DEF Owned
    <2>0. DetachAfter(q, c, 1) => DetachAfter(r, c, 0)
      <3>1. 0 + 1 = 1
        OBVIOUS
      <3> QED
        BY <1>2, <3>1
    <2>1. ASSUME <<c, f>> \in H, ~DetachAt(q, c, 1)
          PROVE  s[c] = f \/ (s[c] = "closed" /\ DetachAfter(r, c, 0))
      BY <1>5, <2>0, <2>1 DEF Owned
    <2>2. ASSUME AttachAt(q, c, f, 1)
          PROVE  s[c] = f \/ (s[c] = "closed" /\ DetachAfter(r, c, 0))
      BY <2>0, <2>2 DEF Owned
    <2>3. ASSUME NEW j \in Nat, AttachAt(r, c, f, j)
          PROVE  s[c] = f \/ (s[c] = "closed" /\ DetachAfter(r, c, j))
      <3>1. AttachAt(q, c, f, j + 1) /\ j + 1 \in Nat
        BY <1>3, <2>3
      <3>2. s[c] = f \/ (s[c] = "closed" /\ DetachAfter(q, c, j + 1))
        BY <3>1 DEF Owned
      <3> QED
        BY <1>2, <3>2
    <2> QED
      BY <2>1, <2>2, <2>3 DEF HeldAfter
  <1>8. Quiet(r, G, L, s)
    <2>1. \A c : \A k \in DOMAIN r : Concerns(r[k], c) =>
            \E j \in DOMAIN q : q[j] = r[k] /\ Concerns(q[j], c)
      BY DEF Shrinks
    <2>2. \A c \in Buffer, f \in File : s[c] = "unused" => <<c, f>> \notin G
      <3> SUFFICES ASSUME NEW c \in Buffer, NEW f \in File, s[c] = "unused", <<c, f>> \in G
                   PROVE  FALSE
        OBVIOUS
      <3>1. <<c, f>> \notin H
        BY DEF Quiet
      <3>2. AttachAt(q, c, f, 1)
        BY <3>1 DEF HeldAfter
      <3>3. 1 \in DOMAIN q /\ Concerns(q[1], c)
        BY <3>2 DEF AttachAt, Concerns
      <3> QED
        BY <3>3 DEF Quiet
    <2> QED
      BY <2>1, <2>2 DEF Quiet
  <1> QED
    BY <1>6, <1>7, <1>8
\* A buffer id is used for the first time: nothing is known of it yet.
LEMMA SlotTaken ==
    ASSUME NEW q, NEW H, NEW L, NEW M, NEW s \in [Buffer -> File \cup {"unused", "closed"}],
           NEW b \in Buffer, NEW x, s[b] = "unused", x # "unused",
           M = L \/ (M = L \cup {b} /\ x = "closed"),
           Ordered(q, H, L), Owned(q, H, L, s), Quiet(q, H, L, s)
    PROVE  /\ Ordered(q, H, M) /\ Owned(q, H, M, [s EXCEPT ![b] = x])
           /\ Quiet(q, H, M, [s EXCEPT ![b] = x])
  <1> DEFINE z == [s EXCEPT ![b] = x]
  <1>1. z[b] = x /\ \A c \in Buffer : c # b => z[c] = s[c]
    OBVIOUS
  <1> HIDE DEF z
  <1>2. /\ b \notin L /\ \A g \in File : <<b, g>> \notin H
        /\ \A k \in DOMAIN q : ~Concerns(q[k], b)
    BY DEF Quiet
  <1>3. \A g, j : ~AttachAt(q, b, g, j)
    BY <1>2 DEF AttachAt, Concerns
  <1>4. \A c \in Buffer : c # b => (c \in M <=> c \in L)
    OBVIOUS
  <1>5. Ordered(q, H, M)
    BY <1>4 DEF Ordered
  <1>6. Owned(q, H, M, z)
    <2> SUFFICES ASSUME NEW c \in Buffer \ M, NEW g \in File
                 PROVE  /\ <<c, g>> \in H => z[c] = g \/ (z[c] = "closed" /\ DetachAfter(q, c, 0))
                        /\ \A j \in Nat : AttachAt(q, c, g, j) =>
                             z[c] = g \/ (z[c] = "closed" /\ DetachAfter(q, c, j))
      BY DEF Owned
    <2>1. CASE c = b
      BY <1>2, <1>3, <2>1
    <2>2. CASE c # b
      BY <1>1, <1>4, <2>2 DEF Owned
    <2> QED
      BY <2>1, <2>2
  <1>7. Quiet(q, H, M, z)
    BY <1>1, <1>2, <1>4 DEF Quiet
  <1> QED
    BY <1>5, <1>6, <1>7 DEF z

\* A slot is closed once its detach is the last command of the channel.
LEMMA SlotClosed ==
    ASSUME NEW r, NEW H, NEW L, NEW s \in [Buffer -> File \cup {"unused", "closed"}],
           NEW b \in Buffer, s[b] \in File, NEW n \in Nat \ {0}, DetachAt(r, b, n),
           \A k \in DOMAIN r : k \in Nat /\ k <= n,
           Owned(r, H, L, s), Quiet(r, H, L, s)
    PROVE  Owned(r, H, L, [s EXCEPT ![b] = "closed"]) /\ Quiet(r, H, L, [s EXCEPT ![b] = "closed"])
  <1> DEFINE z == [s EXCEPT ![b] = "closed"]
  <1>1. z[b] = "closed" /\ \A c \in Buffer : c # b => z[c] = s[c]
    OBVIOUS
  <1> HIDE DEF z
  <1>2. s[b] # "closed" /\ s[b] # "unused"
    BY LspBounds DEF LspBounds
  <1>3. b \notin L
    BY <1>2 DEF Quiet
  <1>4. DetachAfter(r, b, 0) /\ \A g : \A j \in Nat : AttachAt(r, b, g, j) => DetachAfter(r, b, j)
    <2>1. \A g : \A j \in Nat : AttachAt(r, b, g, j) => j < n
      <3> SUFFICES ASSUME NEW g, NEW j \in Nat, AttachAt(r, b, g, j) PROVE j < n
        OBVIOUS
      <3>1. j # n /\ j <= n
        BY DEF AttachAt, DetachAt
      <3> QED
        BY <3>1
    <2> QED
      BY <2>1 DEF DetachAfter
  <1>5. Owned(r, H, L, z)
    <2> SUFFICES ASSUME NEW c \in Buffer \ L, NEW g \in File
                 PROVE  /\ <<c, g>> \in H => z[c] = g \/ (z[c] = "closed" /\ DetachAfter(r, c, 0))
                        /\ \A j \in Nat : AttachAt(r, c, g, j) =>
                             z[c] = g \/ (z[c] = "closed" /\ DetachAfter(r, c, j))
      BY DEF Owned
    <2>1. CASE c = b
      BY <1>1, <1>4, <2>1
    <2>2. CASE c # b
      BY <1>1, <2>2 DEF Owned
    <2> QED
      BY <2>1, <2>2
  <1>6. Quiet(r, H, L, z)
    BY <1>1, <1>2, <1>3 DEF Quiet
  <1> QED
    BY <1>5, <1>6 DEF z

\* An open buffer sends commands about itself.
LEMMA OpenSends ==
    ASSUME LspTyped, OrderInv, NEW b \in Buffer, IsOpen(b), NEW cs \in Seq(Cmds), Send(cs),
           \A i \in DOMAIN cs : About(cs[i], b, slot[b])
    PROVE  /\ Ordered(cmds', Held, left) /\ Owned(cmds', Held, left, slot)
           /\ Quiet(cmds', Held, left, slot)
  <1>1. cmds \in Seq(Cmds) /\ cmds' = cmds \o cs
    BY DEF LspTyped, ChannelsTyped, Send
  <1>2. /\ Grows(cmds, cmds')
        /\ \A k \in DOMAIN cmds' \ DOMAIN cmds : \E i \in DOMAIN cs : cmds'[k] = cs[i]
    BY <1>1, ConcatGrows
  <1>3. NewFor(cmds, cmds', b, slot[b])
    BY <1>2 DEF NewFor
  <1>4. slot[b] \in File /\ slot[b] # "closed" /\ slot[b] # "unused"
    BY LspBounds DEF LspBounds, IsOpen
  <1>5. b \notin left
    BY <1>4 DEF OrderInv, Quiet
  <1>6. \A c \in Buffer : c # b => slot[c] # slot[b]
    BY <1>4 DEF OrderInv, OneSlotPerFile
  <1> QED
    BY <1>2, <1>3, <1>4, <1>5, <1>6, OrderGrows DEF OrderInv
-----------------------------------------------------------------------------
(* The order invariant *)

LEMMA OrderInit == ASSUME Init PROVE OrderInv
  <1>1. DOMAIN cmds = {} /\ Held = {} /\ left = {}
    BY DEF Init, Held, Idle
  <1>2. Ordered(cmds, Held, left) /\ Owned(cmds, Held, left, slot)
    BY <1>1 DEF Ordered, Owned, AttachAt
  <1>3. Quiet(cmds, Held, left, slot)
    BY <1>1 DEF Quiet
  <1>4. OneSlotPerFile(slot)
    BY LspBounds DEF Init, OneSlotPerFile, LspBounds
  <1> QED
    BY <1>2, <1>3, <1>4 DEF OrderInv

LEMMA OrderUser == ASSUME LspTyped, OrderInv, UserStep PROVE OrderInv'
  <1>0. /\ cmds \in Seq(Cmds) /\ slot \in [Buffer -> File \cup {"unused", "closed"}]
        /\ left \subseteq Buffer /\ \A b \in Buffer : text[b] \in 0..MaxEdit
        /\ \A f \in File : f # "unused" /\ f # "closed"
    BY LspBounds DEF LspTyped, ChannelsTyped, AppTyped, LspBounds
  <1>h. Held' = Held
    BY AppLeavesRuntime DEF Held, rtVars
  <1>a. ASSUME NEW b \in Buffer, IsOpen(b), NEW cs \in Seq(Cmds), Send(cs), UNCHANGED <<slot, left>>,
               \A i \in DOMAIN cs : About(cs[i], b, slot[b])
        PROVE  OrderInv'
    BY <1>a, <1>h, OpenSends DEF OrderInv
  <1>b. ASSUME NEW b \in Buffer, NEW f \in File, NewSlot(b, f), Send(<<AttachCmd(b, f, text[b])>>),
               NEW x, slot' = [slot EXCEPT ![b] = x],
               \/ x = f /\ left' = left
               \/ x = "closed" /\ left' = left \cup {b}
        PROVE  OrderInv'
    <2> DEFINE a == AttachCmd(b, f, text[b])
    <2>1. a \in Cmds /\ <<a>> \in Seq(Cmds)
      BY <1>0, LspBounds, CommandsTyped
    <2>2. a.t = "attach" /\ a.b = b /\ a.f = f /\ About(a, b, f)
      BY DEF AttachCmd, About
    <2>3. cmds' = cmds \o <<a>>
      BY <1>b DEF Send
    <2> HIDE DEF a
    <2>4. /\ Grows(cmds, cmds')
          /\ \A k \in DOMAIN cmds' \ DOMAIN cmds : cmds'[k] = a
      BY <1>0, <2>1, <2>3, ConcatOne
    <2>5. NewFor(cmds, cmds', b, f)
      BY <2>2, <2>4 DEF NewFor
    <2>6. slot[b] = "unused" /\ \A c \in Buffer : slot[c] # f
      BY <1>b DEF NewSlot
    <2>7. /\ Ordered(cmds, Held, left') /\ Owned(cmds, Held, left', slot')
          /\ Quiet(cmds, Held, left', slot')
      BY <1>0, <1>b, <2>6, SlotTaken DEF OrderInv
    <2>8. slot'[b] = x /\ \A c \in Buffer : c # b => slot'[c] = slot[c]
      BY <1>0, <1>b
    <2>9. b \notin left
      BY <1>0, <2>6 DEF OrderInv, Quiet
    <2>10. /\ Ordered(cmds', Held, left') /\ Owned(cmds', Held, left', slot')
           /\ Quiet(cmds', Held, left', slot')
      <3>1. \A c \in Buffer : c # b => slot'[c] # f
        BY <2>6, <2>8
      <3>2. slot'[b] = f \/ (b \in left' /\ slot'[b] = "closed")
        BY <1>b, <2>8
      <3>3. slot'[b] # "unused"
        BY <1>0, <1>b, <2>8
      <3>4. \A k \in DOMAIN cmds' \ DOMAIN cmds : Concerns(cmds'[k], b) => cmds'[k].t = "attach"
        BY <2>2, <2>4
      <3> QED
        BY <2>4, <2>5, <2>7, <3>1, <3>2, <3>3, <3>4, OrderGrows
    <2>11. OneSlotPerFile(slot')
      BY <1>0, <1>b, <2>6, <2>8 DEF OrderInv, OneSlotPerFile
    <2> QED
      BY <1>h, <2>10, <2>11 DEF OrderInv
  <1>1. ASSUME NEW b \in Buffer, NEW f \in File, Open(b, f) \/ OpenAborted(b, f)
        PROVE  OrderInv'
    BY <1>1, <1>b DEF Open, OpenAborted
  <1>2. ASSUME NEW b \in Buffer, Close(b) PROVE OrderInv'
    <2> DEFINE d == DetachCmd(b)
    <2>1. /\ d \in Cmds /\ <<d>> \in Seq(Cmds) /\ d.t = "detach" /\ d.b = b
          /\ About(d, b, slot[b])
      BY LspBounds, CommandsTyped DEF DetachCmd, About
    <2>2. Send(<<d>>) /\ slot' = [slot EXCEPT ![b] = "closed"] /\ left' = left /\ IsOpen(b)
      BY <1>2 DEF Close
    <2> HIDE DEF d
    <2>3. /\ Ordered(cmds', Held, left) /\ Owned(cmds', Held, left, slot)
          /\ Quiet(cmds', Held, left, slot)
      <3>1. \A i \in DOMAIN <<d>> : <<d>>[i] = d
        OBVIOUS
      <3> QED
        BY <2>1, <2>2, <3>1, OpenSends
    <2>4. /\ Len(cmds) + 1 \in Nat \ {0} /\ DetachAt(cmds', b, Len(cmds) + 1)
          /\ \A k \in DOMAIN cmds' : k \in Nat /\ k <= Len(cmds) + 1
      <3>1. cmds' = Append(cmds, d)
        BY <1>0, <2>1, <2>2, SendOne DEF Send
      <3>2. /\ DOMAIN cmds' = 1..(Len(cmds) + 1) /\ cmds'[Len(cmds) + 1] = d /\ Len(cmds) \in Nat
        BY <1>0, <2>1, <3>1, AppendProperties, LenProperties
      <3> QED
        BY <2>1, <3>2 DEF DetachAt
    <2>5. Owned(cmds', Held, left, slot') /\ Quiet(cmds', Held, left, slot')
      BY <1>0, <2>2, <2>3, <2>4, SlotClosed DEF IsOpen
    <2>6. OneSlotPerFile(slot')
      BY <1>0, <2>2 DEF OrderInv, OneSlotPerFile
    <2> QED
      BY <1>h, <2>2, <2>3, <2>5, <2>6 DEF OrderInv
  <1>3. ASSUME NEW b \in Buffer, Restart(b) PROVE OrderInv'
    <2> DEFINE d == DetachCmd(b)
               a == AttachCmd(b, slot[b], text[b])
    <2>1. IsOpen(b) /\ Send(<<d, a>>) /\ UNCHANGED <<slot, left>>
      BY <1>3 DEF Restart, appVars
    <2>2. /\ d \in Cmds /\ a \in Cmds /\ d.t = "detach" /\ d.b = b
          /\ a.t = "attach" /\ a.b = b /\ a.f = slot[b]
          /\ About(d, b, slot[b]) /\ About(a, b, slot[b])
      BY <1>0, <2>1, LspBounds, CommandsTyped DEF DetachCmd, AttachCmd, IsOpen, About
    <2> HIDE DEF d, a
    <2>3. <<d, a>> \in Seq(Cmds) /\ \A i \in DOMAIN <<d, a>> : <<d, a>>[i] = d \/ <<d, a>>[i] = a
      BY <2>2
    <2> QED
      BY <1>a, <2>1, <2>2, <2>3
  <1>4. ASSUME NEW b \in Buffer, SetFiletype(b) PROVE OrderInv'
    <2> DEFINE a == AttachCmd(b, slot[b], text[b])
    <2>1. IsOpen(b) /\ Send(<<a>>) /\ UNCHANGED <<slot, left>>
      BY <1>4 DEF SetFiletype, appVars
    <2>2. a \in Cmds /\ About(a, b, slot[b])
      BY <1>0, <2>1, LspBounds, CommandsTyped DEF AttachCmd, IsOpen, About
    <2> HIDE DEF a
    <2>3. <<a>> \in Seq(Cmds) /\ \A i \in DOMAIN <<a>> : <<a>>[i] = a
      BY <2>2
    <2> QED
      BY <1>a, <2>1, <2>2, <2>3
  <1>n. ASSUME NEW b \in Buffer, NEW n \in 0..MaxEdit, NEW m \in 0..Garbled
        PROVE  /\ NotifyChange(b, n, m) \in Seq(Cmds)
               /\ \A i \in DOMAIN NotifyChange(b, n, m) :
                    About(NotifyChange(b, n, m)[i], b, slot[b])
    <2>1. About(IncrCmd(b, m, n), b, slot[b]) /\ About(FullCmd(b, n), b, slot[b])
      BY DEF IncrCmd, FullCmd, About
    <2>2. \/ NotifyChange(b, n, m) = <<>>
          \/ NotifyChange(b, n, m) = <<IncrCmd(b, m, n)>>
          \/ NotifyChange(b, n, m) = <<FullCmd(b, n)>>
      BY DEF NotifyChange
    <2>3. \A i \in DOMAIN NotifyChange(b, n, m) :
            \/ NotifyChange(b, n, m)[i] = IncrCmd(b, m, n)
            \/ NotifyChange(b, n, m)[i] = FullCmd(b, n)
      BY <2>2
    <2> QED
      BY <2>1, <2>3, NotifyTyped
  <1>5. ASSUME NEW b \in Buffer, ChangesText(b) PROVE OrderInv'
    <2>1. /\ IsOpen(b)
          /\ \E n \in 0..MaxEdit, m \in 0..Garbled : TextChange(b, n, m)
      BY <1>5, ChangeCases DEF LspTyped
    <2>2. PICK n \in 0..MaxEdit, m \in 0..Garbled : TextChange(b, n, m)
      BY <2>1
    <2>3. CASE Notified(b, n, m)
      <3>1. Send(NotifyChange(b, n, m)) /\ UNCHANGED <<slot, left>>
        BY <2>3 DEF Notified
      <3> QED
        BY <1>a, <1>n, <2>1, <3>1
    <2>4. CASE NotNotified(b, n, m)
      BY <1>h, <2>4 DEF NotNotified, OrderInv
    <2> QED
      BY <2>2, <2>3, <2>4 DEF TextChange
  <1>8. ASSUME NEW b \in Buffer, NEW k \in {0, 1}, Save(b, k) PROVE OrderInv'
    <2> DEFINE d == FullCmd(b, text[b] + k)
               a == SaveCmd(b)
    <2>0. text[b] + k \in 0..MaxEdit
      BY <1>0, <1>8, BoundsNat DEF Save, Changing
    <2>1. IsOpen(b) /\ Send(<<d, a>>) /\ UNCHANGED <<slot, left>>
      BY <1>8 DEF Save, Changing
    <2>2. d \in Cmds /\ a \in Cmds /\ About(d, b, slot[b]) /\ About(a, b, slot[b])
      BY <2>0, LspBounds, CommandsTyped DEF FullCmd, SaveCmd, About
    <2> HIDE DEF d, a
    <2>3. <<d, a>> \in Seq(Cmds) /\ \A i \in DOMAIN <<d, a>> : <<d, a>>[i] = d \/ <<d, a>>[i] = a
      BY <2>2
    <2> QED
      BY <1>a, <2>1, <2>2, <2>3
  <1>9. ASSUME NEW b \in Buffer, Request(b) PROVE OrderInv'
    <2> DEFINE a == RequestCmd(b, nextReq)
    <2>0. nextReq \in Req
      BY <1>9, BoundsNat DEF Request, LspTyped, RequestsTyped, Req
    <2>1. IsOpen(b) /\ Send(<<a>>) /\ UNCHANGED <<slot, left>>
      BY <1>9 DEF Request
    <2>2. a \in Cmds /\ About(a, b, slot[b])
      BY <2>0, LspBounds, CommandsTyped DEF RequestCmd, About
    <2> HIDE DEF a
    <2>3. <<a>> \in Seq(Cmds) /\ \A i \in DOMAIN <<a>> : <<a>>[i] = a
      BY <2>2
    <2> QED
      BY <1>a, <2>1, <2>2, <2>3
  <1>10. ASSUME Quit PROVE OrderInv'
    <2>1. ShutdownCmd \in Cmds /\ ShutdownCmd.t = "shutdown" /\ <<ShutdownCmd>> \in Seq(Cmds)
      BY DEF ShutdownCmd, Cmds, OtherCmds
    <2>2. cmds' = cmds \o <<ShutdownCmd>> /\ UNCHANGED <<slot, left>>
      BY <1>10 DEF Quit, Send
    <2>3. Grows(cmds, cmds') /\ \A k \in DOMAIN cmds' \ DOMAIN cmds : cmds'[k] = ShutdownCmd
      BY <1>0, <2>1, <2>2, ConcatOne
    <2> QED
      BY <1>h, <2>1, <2>2, <2>3, OrderSignals DEF OrderInv
  <1> QED
    BY <1>1, <1>2, <1>3, <1>4, <1>5, <1>8, <1>9, <1>10, UserCases
\* A command is taken.
LEMMA OrderTake ==
    ASSUME LspTyped, OrderInv, NEW t, Takes(t), UNCHANGED <<slot, left>>,
           HeldAfter(cmds, Held, Held')
    PROVE  OrderInv'
  <1>1. cmds \in Seq(Cmds) /\ cmds # <<>> /\ cmds' = Tail(cmds)
    BY TakesFacts DEF LspTyped, ChannelsTyped
  <1>2. Shrinks(cmds, cmds')
    BY <1>1, TailShrinks
  <1> QED
    BY <1>2, OrderShrinks DEF OrderInv

\* The channel stays, and the dispatcher holds no more than before.
LEMMA OrderHolds ==
    ASSUME OrderInv, UNCHANGED <<cmds, slot, left>>, Held' \subseteq Held
    PROVE  OrderInv'
  <1>1. Ordered(cmds, Held', left) /\ Owned(cmds, Held', left, slot) /\ Quiet(cmds, Held', left, slot)
    BY DEF OrderInv, Ordered, Owned, Quiet
  <1> QED
    BY <1>1 DEF OrderInv

\* Who is held, pair by pair.
LEMMA HeldFacts ==
    \A c \in Buffer, f \in File : <<c, f>> \in Held <=>
      \/ attached[c] > 0 /\ uri[c] = f
      \/ rt.op = "handshake" /\ rt.cmd.b = c /\ rt.cmd.f = f
  BY DEF Held

LEMMA HeldNext ==
    \A c \in Buffer, f \in File : <<c, f>> \in Held' <=>
      \/ attached'[c] > 0 /\ uri'[c] = f
      \/ rt'.op = "handshake" /\ rt'.cmd.b = c /\ rt'.cmd.f = f
  BY DEF Held

LEMMA OrderStep == ASSUME LspTyped, ServerInv, OrderInv, Next PROVE OrderInv'
  <1>0. /\ ChannelsTyped /\ cmds \in Seq(Cmds)
        /\ attached \in [Buffer -> Nat] /\ rt \in Awaits
        /\ uri \in [Buffer -> File \cup {"none"}]
    BY DEF LspTyped, ChannelsTyped, RuntimeTyped
  <1>1. ASSUME Leave PROVE OrderInv'
    <2>1. Held' = Held
      BY <1>1, AppLeavesRuntime DEF Held, rtVars
    <2> QED
      BY <1>1, <2>1, OrderHolds DEF Leave
  <1>2. ASSUME NEW late \in SUBSET seen, Drain(late) PROVE OrderInv'
    <2> DEFINE cs == [k \in 1..Cardinality(Exits(evts)) |-> ExitedCmd]
    <2>1. Held' = Held
      BY <1>2, AppLeavesRuntime DEF Held, rtVars
    <2>2. cs \in Seq(Cmds) /\ \A i \in DOMAIN cs : cs[i].t = "exited"
      BY ExitsFinite, ExitBatch DEF LspTyped, ChannelsTyped, ExitedCmd
    <2>3. cmds' = cmds \o cs /\ UNCHANGED <<slot, left>>
      BY <1>2 DEF Drain, Send
    <2> HIDE DEF cs
    <2>4. /\ Grows(cmds, cmds')
          /\ \A k \in DOMAIN cmds' \ DOMAIN cmds : \E i \in DOMAIN cs : cmds'[k] = cs[i]
      BY <1>0, <2>2, <2>3, ConcatGrows
    <2>5. \A k \in DOMAIN cmds' \ DOMAIN cmds : cmds'[k].t \in {"exited", "shutdown"}
      BY <2>2, <2>4
    <2> QED
      BY <2>1, <2>3, <2>4, <2>5, OrderSignals DEF OrderInv
  <1>3. ASSUME AttachIgnored \/ DidSave \/ SendRequest PROVE OrderInv'
    <2>1. PICK t \in {"attach", "save", "request"} : Takes(t)
      BY <1>3 DEF AttachIgnored, DidSave, SendRequest
    <2>2. UNCHANGED <<rtVars, slot, left>>
      BY <1>3 DEF AttachIgnored, DidSave, SendRequest, appVars
    <2>3. Held' = Held
      BY <2>2 DEF Held, rtVars
    <2>4. HeldAfter(cmds, Held, Held')
      BY <1>0, <2>1, <2>3, TakesFacts DEF HeldAfter, DetachAt
    <2> QED
      BY <2>1, <2>2, <2>4, OrderTake
  <1>4. ASSUME AttachRunning PROVE OrderInv'
    <2> DEFINE x == Head(cmds)
    <2>1. /\ Takes("attach") /\ x = cmds[1] /\ 1 \in DOMAIN cmds /\ x.t = "attach"
          /\ x.b \in Buffer /\ x.f \in File /\ rt.op = "idle"
      BY <1>0, <1>4, TakesFacts, CommandFacts DEF AttachRunning
    <2>2. /\ attached' = [attached EXCEPT ![x.b] = 1] /\ uri' = [uri EXCEPT ![x.b] = x.f]
          /\ rt' = rt /\ UNCHANGED <<slot, left>>
      BY <1>4 DEF AttachRunning, DidOpen, appVars
    <2> HIDE DEF x
    <2>3. HeldAfter(cmds, Held, Held')
      <3> SUFFICES ASSUME NEW c \in Buffer, NEW f \in File, <<c, f>> \in Held'
                   PROVE  (<<c, f>> \in Held /\ ~DetachAt(cmds, c, 1)) \/ AttachAt(cmds, c, f, 1)
        BY DEF HeldAfter
      <3>1. attached'[c] > 0 /\ uri'[c] = f
        BY <2>1, <2>2, HeldNext
      <3>2. CASE c = x.b
        BY <1>0, <2>1, <2>2, <3>1, <3>2 DEF AttachAt
      <3>3. CASE c # x.b
        BY <1>0, <2>1, <2>2, <3>1, <3>3, HeldFacts DEF DetachAt
      <3> QED
        BY <3>2, <3>3
    <2> QED
      BY <2>1, <2>2, <2>3, OrderTake
  <1>5. ASSUME AttachSpawn PROVE OrderInv'
    <2>1. /\ Takes("attach") /\ Head(cmds) = cmds[1] /\ 1 \in DOMAIN cmds /\ cmds[1].t = "attach"
          /\ UNCHANGED <<slot, left, attached, uri>>
      BY <1>0, <1>5, TakesFacts DEF AttachSpawn, appVars
    <2>2. rt'.op = "handshake" /\ rt'.cmd = cmds[1]
      BY <1>5, <2>1 DEF AttachSpawn
    <2>3. HeldAfter(cmds, Held, Held')
      BY <2>1, <2>2, HeldFacts, HeldNext DEF HeldAfter, AttachAt, DetachAt
    <2> QED
      BY <2>1, <2>3, OrderTake
  <1>6. ASSUME Detach PROVE OrderInv'
    <2> DEFINE x == Head(cmds)
    <2>1. /\ Takes("detach") /\ x = cmds[1] /\ 1 \in DOMAIN cmds /\ x.t = "detach"
          /\ x.b \in Buffer /\ rt.op = "idle"
      BY <1>0, <1>6, TakesFacts, CommandFacts DEF Detach
    <2>2. /\ attached' = [attached EXCEPT ![x.b] = 0] /\ UNCHANGED <<uri, slot, left>>
          /\ rt' = rt \/ rt' = [op |-> "stopping", i |-> servers]
      BY <1>6 DEF Detach, appVars
    <2>3. rt'.op # "handshake"
      BY <2>1, <2>2
    <2> HIDE DEF x
    <2>4. HeldAfter(cmds, Held, Held')
      <3> SUFFICES ASSUME NEW c \in Buffer, NEW f \in File, <<c, f>> \in Held'
                   PROVE  <<c, f>> \in Held /\ ~DetachAt(cmds, c, 1)
        BY DEF HeldAfter
      <3>1. attached'[c] > 0 /\ uri'[c] = f
        BY <2>3, HeldNext
      <3>2. c # x.b
        BY <1>0, <2>1, <2>2, <3>1
      <3> QED
        BY <1>0, <2>1, <2>2, <3>1, <3>2, HeldFacts DEF DetachAt
    <2> QED
      BY <2>1, <2>2, <2>4, OrderTake
  <1>7. ASSUME Change PROVE OrderInv'
    <2> DEFINE x == Head(cmds)
    <2>1. PICK t \in {"full", "incr"} : Takes(t)
      BY <1>7 DEF Change
    <2>2. /\ x = cmds[1] /\ 1 \in DOMAIN cmds /\ x.t = t /\ x.b \in Buffer
      BY <1>0, <2>1, TakesFacts, CommandFacts
    <2>3. /\ attached' = [attached EXCEPT ![x.b] = IF @ = 0 THEN 0 ELSE attached[x.b] + 1]
          /\ UNCHANGED <<rt, uri, slot, left>>
      BY <1>7 DEF Change, appVars
    <2> HIDE DEF x
    <2>4. \A c \in Buffer : attached'[c] > 0 => attached[c] > 0
      BY <1>0, <2>2, <2>3
    <2>5. HeldAfter(cmds, Held, Held')
      BY <2>1, <2>2, <2>3, <2>4, HeldFacts, HeldNext DEF HeldAfter, DetachAt
    <2> QED
      BY <2>1, <2>3, <2>5, OrderTake
  <1>8. ASSUME ServerExited \/ ShutdownAll PROVE OrderInv'
    <2>1. PICK t \in {"exited", "shutdown"} : Takes(t)
      BY <1>8 DEF ServerExited, ShutdownAll
    <2>2. /\ cmds[1].t = t /\ rt.op = "idle" /\ UNCHANGED <<uri, slot, left>>
          /\ rt'.op # "handshake"
          /\ \A c \in Buffer : attached'[c] = 0 \/ attached'[c] = attached[c]
      BY <1>0, <1>8, <2>1, TakesFacts DEF ServerExited, ShutdownAll, appVars
    <2>3. HeldAfter(cmds, Held, Held')
      BY <1>0, <2>1, <2>2, HeldFacts, HeldNext DEF HeldAfter, DetachAt
    <2> QED
      BY <2>1, <2>2, <2>3, OrderTake
  <1>9. ASSUME Stopped \/ ThreadEnds \/ HandshakeFails PROVE OrderInv'
    <2>1. rt'.op # "handshake" /\ UNCHANGED <<cmds, slot, left, attached, uri>>
      BY <1>9 DEF Stopped, ThreadEnds, HandshakeFails, appVars, Idle
    <2>2. Held' \subseteq Held
      BY <2>1 DEF Held
    <2> QED
      BY <2>1, <2>2, OrderHolds
  <1>10. ASSUME HandshakeOk PROVE OrderInv'
    <2>1. /\ rt.op = "handshake" /\ rt.cmd.b \in Buffer /\ rt.cmd.f \in File
      BY <1>0, <1>10, AwaitFacts DEF HandshakeOk
    <2>2. /\ attached' = [attached EXCEPT ![rt.cmd.b] = 1]
          /\ uri' = [uri EXCEPT ![rt.cmd.b] = rt.cmd.f]
          /\ rt'.op # "handshake" /\ UNCHANGED <<cmds, slot, left>>
      BY <1>10 DEF HandshakeOk, appVars, Idle
    <2>3. Held' \subseteq Held
      <3>1. \A c \in Buffer, f \in File : attached'[c] > 0 /\ uri'[c] = f =>
              \/ attached[c] > 0 /\ uri[c] = f
              \/ rt.cmd.b = c /\ rt.cmd.f = f
        BY <1>0, <2>1, <2>2
      <3> QED
        BY <2>1, <2>2, <3>1 DEF Held
    <2> QED
      BY <2>2, <2>3, OrderHolds
  <1>11. ASSUME NEW i \in Proc, Dies(i) \/ Kill(i) \/ \E r \in Req \cup {Internal} : Answer(i, r)
         PROVE  OrderInv'
    <2>1. UNCHANGED <<cmds, slot, left, rtVars>>
      BY <1>11 DEF Dies, Kill, Reap, Answer, appVars
    <2>2. Held' = Held
      BY <2>1 DEF Held, rtVars
    <2> QED
      BY <2>1, <2>2, OrderHolds
  <1> QED
    BY <1>1, <1>2, <1>3, <1>4, <1>5, <1>6, <1>7, <1>8, <1>9, <1>10, <1>11, OrderUser
      DEF Next, RuntimeStep
-----------------------------------------------------------------------------
(* The documents *)

LEMMA DocumentInit == ASSUME Init PROVE DocumentInv
  BY DEF Init, DocumentInv, OpenIsAttached, VersionsAgree, NoSharedFile, FreshIsEmpty, ServerUp

\* No attached buffer has the file that is about to be attached, but for one
\* given up.
LEMMA AttachIsAlone ==
    ASSUME LspTyped, OrderInv, Takes("attach"), NEW c \in Buffer \ left,
           c # Head(cmds).b, attached[c] > 0
    PROVE  uri[c] # Head(cmds).f
  <1> DEFINE x == Head(cmds)
  <1>1. /\ x = cmds[1] /\ 1 \in DOMAIN cmds /\ x.t = "attach" /\ x.b \in Buffer /\ x.f \in File
    BY TakesFacts, CommandFacts DEF LspTyped
  <1> HIDE DEF x
  <1>2. SUFFICES ASSUME uri[c] = x.f PROVE FALSE
    BY DEF x
  <1>3. <<c, x.f>> \in Held
    BY <1>1, <1>2, HeldFacts
  <1>4. AttachAt(cmds, x.b, x.f, 1)
    BY <1>1 DEF AttachAt
  <1>5. DetachBetween(cmds, c, 0, 1)
    BY <1>1, <1>3, <1>4 DEF OrderInv, Ordered, x
  <1> QED
    BY <1>5 DEF DetachBetween

\* Only an attach concerns a buffer that was given up.
LEMMA TakesNotLeft ==
    ASSUME LspTyped, OrderInv, NEW t \in {"detach", "full", "incr"}, Takes(t)
    PROVE  Head(cmds).b \in Buffer \ left
  <1>1. /\ Head(cmds) = cmds[1] /\ 1 \in DOMAIN cmds /\ cmds[1].t = t /\ cmds[1].b \in Buffer
    BY TakesFacts, CommandFacts DEF LspTyped
  <1>2. Concerns(cmds[1], cmds[1].b)
    BY <1>1 DEF Concerns
  <1> QED
    BY <1>1, <1>2 DEF OrderInv, Quiet

\* A step that touches no document and no attachment.
LEMMA DocumentFrame ==
    ASSUME DocumentInv, UNCHANGED <<doc, attached, uri>>, left \subseteq left',
           ServerUp' => ServerUp /\ servers' = servers,
           \A i \in Proc : proc'[i] \in {"none", "starting"} => proc[i] \in {"none", "starting"}
    PROVE  DocumentInv'
  <1>1. OpenIsAttached' /\ VersionsAgree'
    BY DEF DocumentInv, OpenIsAttached, VersionsAgree
  <1>2. NoSharedFile' /\ FreshIsEmpty'
    BY DEF DocumentInv, NoSharedFile, FreshIsEmpty
  <1> QED
    BY <1>1, <1>2 DEF DocumentInv

\* What a write leaves in the documents.
LEMMA WriteFacts ==
    ASSUME LspTyped, NEW f \in File, NEW d, Write(f, d)
    PROVE  /\ \A i \in Proc, g \in File : i # servers \/ g # f => doc'[i][g] = doc[i][g]
           /\ ServerUp => doc'[servers][f] = d
           /\ ~ServerUp => doc' = doc
  BY DEF Write, ServerUp, LspTyped, RuntimeTyped, ProcessesTyped, Proc

LEMMA DocumentStep ==
    ASSUME LspTyped, ServerInv, OrderInv, DocumentInv, Next
    PROVE  DocumentInv'
  <1>0. /\ ChannelsTyped /\ cmds \in Seq(Cmds) /\ left \subseteq Buffer
        /\ attached \in [Buffer -> Nat] /\ rt \in Awaits
        /\ uri \in [Buffer -> File \cup {"none"}]
        /\ \A b \in Buffer : attached[b] > 0 => uri[b] \in File
        /\ servers \in 0..MaxSpawn /\ (servers # 0 => servers \in Proc) /\ 0 \notin Proc
        /\ proc \in [Proc -> {"none", "starting", "up", "exiting", "doomed", "dead"}]
        /\ doc \in [Proc -> [File -> Copies]]
    BY BoundsNat DEF LspTyped, ChannelsTyped, RuntimeTyped, ProcessesTyped, AppTyped, Proc
  <1>1. ASSUME UserStep \/ Leave \/ \E late \in SUBSET seen : Drain(late)
        PROVE  DocumentInv'
    <2>1. UNCHANGED <<rtVars, srvVars>>
      BY <1>1, AppLeavesRuntime
    <2>2. left \subseteq left'
      BY <1>1 DEF UserStep, Open, OpenAborted, Close, Restart, SetFiletype, Request,
    Edit, TimeTravel, Key, WorkspaceEdit, Formatted, ExEdit, ExTimeTravel, Replace,
    ConfirmSubstitute, Save, SaveFails, Notified, NotNotified, Quit, Leave, Drain
    <2> QED
      BY <2>1, <2>2, DocumentFrame DEF rtVars, srvVars, ServerUp
  <1>2. ASSUME AttachIgnored \/ DidSave \/ SendRequest PROVE DocumentInv'
    <2>1. UNCHANGED <<rtVars, proc, doc, left>>
      BY <1>2 DEF AttachIgnored, DidSave, SendRequest, srvVars
    <2> QED
      BY <2>1, DocumentFrame DEF rtVars, ServerUp
  <1>3. ASSUME AttachRunning PROVE DocumentInv'
    <2> DEFINE x == Head(cmds)
    <2>1. /\ Takes("attach") /\ x.b \in Buffer /\ x.f \in File
          /\ attached[x.b] = 0 /\ servers # 0
      BY <1>0, <1>3, TakesFacts, CommandFacts DEF AttachRunning
    <2>2. /\ attached' = [attached EXCEPT ![x.b] = 1] /\ uri' = [uri EXCEPT ![x.b] = x.f]
          /\ Write(x.f, [ver |-> 1, text |-> x.text])
          /\ UNCHANGED <<servers, proc, left>>
      BY <1>3 DEF AttachRunning, DidOpen
    <2>3. \A c \in Buffer \ left : c # x.b /\ attached[c] > 0 => uri[c] # x.f
      BY <2>1, AttachIsAlone
    <2> DEFINE d == [ver |-> 1, text |-> x.text]
    <2>4. d.ver = 1
      OBVIOUS
    <2>5. Write(x.f, d)
      BY <2>2
    <2> HIDE DEF x, d
    <2>6. /\ \A i \in Proc, g \in File : i # servers \/ g # x.f => doc'[i][g] = doc[i][g]
          /\ ServerUp => doc'[servers][x.f] = d
          /\ ~ServerUp => doc' = doc
      BY <2>1, <2>5, WriteFacts
    <2>7. /\ attached'[x.b] = 1 /\ uri'[x.b] = x.f
          /\ \A c \in Buffer : c # x.b => attached'[c] = attached[c] /\ uri'[c] = uri[c]
          /\ (ServerUp' <=> ServerUp) /\ servers \in Proc
      BY <1>0, <2>1, <2>2 DEF ServerUp
    <2>8. OpenIsAttached'
      <3> SUFFICES ASSUME ServerUp, NEW f \in File, doc'[servers][f] # Closed
                   PROVE  \E b \in Buffer : attached'[b] > 0 /\ uri'[b] = f
        BY <2>2, <2>7 DEF OpenIsAttached
      <3>1. CASE f = x.f
        BY <2>1, <2>7, <3>1
      <3>2. CASE f # x.f
        <4>1. doc[servers][f] # Closed
          BY <2>6, <2>7, <3>2
        <4>2. PICK b \in Buffer : attached[b] > 0 /\ uri[b] = f
          BY <4>1 DEF DocumentInv, OpenIsAttached
        <4>3. b # x.b
          BY <2>1, <4>2
        <4> QED
          BY <2>7, <4>2, <4>3
      <3> QED
        BY <3>1, <3>2
    <2>9. VersionsAgree'
      <3> SUFFICES ASSUME ServerUp, NEW b \in Buffer \ left, attached'[b] > 0
                   PROVE  doc'[servers][uri'[b]].ver = attached'[b]
        BY <2>2, <2>7 DEF VersionsAgree
      <3>1. CASE b = x.b
        BY <2>4, <2>6, <2>7, <3>1
      <3>2. CASE b # x.b
        <4>1. attached[b] > 0 /\ uri[b] \in File /\ uri[b] # x.f
          BY <1>0, <2>3, <2>7, <3>2
        <4>2. doc[servers][uri[b]].ver = attached[b]
          BY <4>1 DEF DocumentInv, VersionsAgree
        <4> QED
          BY <2>6, <2>7, <3>2, <4>1, <4>2
      <3> QED
        BY <3>1, <3>2
    <2>10. NoSharedFile'
      BY <2>2, <2>3, <2>7 DEF DocumentInv, NoSharedFile
    <2>11. FreshIsEmpty'
      <3>1. proc[servers] \in {"up", "dead"}
        BY <2>1 DEF ServerInv, EntryHolds
      <3> QED
        BY <2>2, <2>6, <3>1 DEF DocumentInv, FreshIsEmpty
    <2> QED
      BY <2>8, <2>9, <2>10, <2>11 DEF DocumentInv
  <1>4. ASSUME AttachSpawn PROVE DocumentInv'
    <2>1. PICK i \in Proc : proc[i] = "none" /\ proc' = [proc EXCEPT ![i] = "starting"]
      BY <1>4 DEF AttachSpawn
    <2>2. servers' = 0 /\ UNCHANGED <<doc, attached, uri, left>>
      BY <1>4 DEF AttachSpawn
    <2>3. \A j \in Proc : proc'[j] \in {"none", "starting"} => proc[j] \in {"none", "starting"}
      BY <1>0, <2>1
    <2> QED
      BY <2>2, <2>3, DocumentFrame DEF ServerUp
  <1>5. ASSUME Detach PROVE DocumentInv'
    <2> DEFINE b == Head(cmds).b
    <2>1. b \in Buffer \ left
      BY <1>5, TakesNotLeft DEF Detach
    <2>2. /\ attached' = [attached EXCEPT ![b] = 0] /\ UNCHANGED <<uri, left>>
          /\ IF attached[b] = 0 THEN doc' = doc ELSE Write(uri[b], Closed)
          /\ \/ UNCHANGED <<servers, proc>>
             \/ /\ servers # 0 /\ servers' = 0
                /\ proc' = [proc EXCEPT ![servers] = IF @ = "up" THEN "exiting" ELSE @]
      BY <1>5 DEF Detach, Shutdown
    <2> HIDE DEF b
    <2>3. /\ attached'[b] = 0 /\ \A c \in Buffer : c # b => attached'[c] = attached[c]
      BY <1>0, <2>1, <2>2
    <2>4. /\ ServerUp' => ServerUp /\ servers' = servers
          /\ \A i \in Proc : proc'[i] \in {"none", "starting"} => proc'[i] = proc[i] /\ i # servers
      BY <1>0, <2>2 DEF ServerUp, ServerInv, EntryHolds
    <2>5. NoSharedFile'
      BY <1>0, <2>1, <2>2, <2>3 DEF DocumentInv, NoSharedFile
    <2>6. CASE attached[b] = 0
      <3>1. attached' = attached /\ doc' = doc
        BY <1>0, <2>1, <2>2, <2>6
      <3> QED
        BY <2>2, <2>4, <3>1, DocumentFrame
    <2>7. CASE attached[b] # 0
      <3>1. uri[b] \in File /\ Write(uri[b], Closed) /\ attached[b] > 0
        BY <1>0, <2>1, <2>2, <2>7
      <3>2. /\ \A i \in Proc, g \in File : i # servers \/ g # uri[b] => doc'[i][g] = doc[i][g]
            /\ ServerUp => doc'[servers][uri[b]] = Closed
        BY <3>1, WriteFacts
      <3>3. ServerUp => servers \in Proc
        BY <1>0 DEF ServerUp
      <3>4. OpenIsAttached'
        <4> SUFFICES ASSUME ServerUp, NEW f \in File, doc'[servers][f] # Closed
                     PROVE  \E c \in Buffer : attached'[c] > 0 /\ uri[c] = f
          BY <2>2, <2>4 DEF OpenIsAttached
        <4>1. f # uri[b] /\ doc[servers][f] # Closed
          BY <3>2, <3>3
        <4>2. PICK c \in Buffer : attached[c] > 0 /\ uri[c] = f
          BY <4>1 DEF DocumentInv, OpenIsAttached
        <4> QED
          BY <2>3, <4>1, <4>2
      <3>5. VersionsAgree'
        <4> SUFFICES ASSUME ServerUp, NEW c \in Buffer \ left, attached'[c] > 0
                     PROVE  doc'[servers][uri[c]].ver = attached'[c]
          BY <2>2, <2>4 DEF VersionsAgree
        <4>1. c # b /\ attached[c] > 0
          BY <2>3
        <4>2. uri[c] # uri[b] /\ uri[c] \in File
          BY <1>0, <2>1, <3>1, <4>1 DEF DocumentInv, NoSharedFile
        <4>3. doc[servers][uri[c]].ver = attached[c]
          BY <4>1 DEF DocumentInv, VersionsAgree
        <4> QED
          BY <2>3, <3>2, <3>3, <4>1, <4>2, <4>3
      <3>6. FreshIsEmpty'
        BY <2>4, <3>2 DEF DocumentInv, FreshIsEmpty
      <3> QED
        BY <2>5, <3>4, <3>5, <3>6 DEF DocumentInv
    <2> QED
      BY <2>6, <2>7
  <1>6. ASSUME Change PROVE DocumentInv'
    <2> DEFINE x == Head(cmds)
               v == attached[x.b] + 1
               n == After(x, doc[servers][uri[x.b]].text)
               d == [ver |-> v, text |-> n]
    <2>1. x.b \in Buffer \ left
      BY <1>6, TakesNotLeft DEF Change
    <2>2. /\ attached' = [attached EXCEPT ![x.b] = IF @ = 0 THEN 0 ELSE v]
          /\ IF attached[x.b] = 0 \/ servers = 0 THEN doc' = doc ELSE Write(uri[x.b], d)
          /\ UNCHANGED <<servers, uri, proc, left>>
      BY <1>6 DEF Change
    <2>3. d.ver = v
      OBVIOUS
    <2>4. v \in Nat /\ v > 0 /\ attached[x.b] \in Nat
      BY <1>0, <2>1
    <2> HIDE DEF x, v, d
    <2>5. /\ attached'[x.b] = IF attached[x.b] = 0 THEN 0 ELSE v
          /\ \A c \in Buffer : c # x.b => attached'[c] = attached[c]
          /\ ServerUp' <=> ServerUp
      BY <1>0, <2>1, <2>2 DEF ServerUp
    <2>6. NoSharedFile'
      BY <1>0, <2>1, <2>2, <2>5 DEF DocumentInv, NoSharedFile
    <2>7. CASE attached[x.b] = 0
      <3>1. attached' = attached /\ doc' = doc
        BY <1>0, <2>1, <2>2, <2>7
      <3> QED
        BY <2>2, <2>5, <3>1, DocumentFrame
    <2>8. CASE servers = 0
      <3>1. ~ServerUp' /\ doc' = doc
        BY <2>2, <2>5, <2>8 DEF ServerUp
      <3>2. FreshIsEmpty'
        BY <2>2, <3>1 DEF DocumentInv, FreshIsEmpty
      <3> QED
        BY <2>6, <3>1, <3>2 DEF DocumentInv, OpenIsAttached, VersionsAgree
    <2>9. CASE attached[x.b] # 0 /\ servers # 0
      <3>1. uri[x.b] \in File /\ Write(uri[x.b], d) /\ attached[x.b] > 0 /\ attached'[x.b] = v
            /\ servers \in Proc
        BY <1>0, <2>1, <2>2, <2>4, <2>5, <2>9
      <3>2. /\ \A i \in Proc, g \in File : i # servers \/ g # uri[x.b] => doc'[i][g] = doc[i][g]
            /\ ServerUp => doc'[servers][uri[x.b]] = d
        BY <3>1, WriteFacts
      <3>3. OpenIsAttached'
        <4> SUFFICES ASSUME ServerUp, NEW f \in File, doc'[servers][f] # Closed
                     PROVE  \E c \in Buffer : attached'[c] > 0 /\ uri[c] = f
          BY <2>2, <2>5 DEF OpenIsAttached
        <4>1. CASE f = uri[x.b]
          BY <2>1, <2>4, <3>1, <4>1
        <4>2. CASE f # uri[x.b]
          <5>1. doc[servers][f] # Closed
            BY <3>1, <3>2, <4>2
          <5>2. PICK c \in Buffer : attached[c] > 0 /\ uri[c] = f
            BY <5>1 DEF DocumentInv, OpenIsAttached
          <5> QED
            BY <2>5, <4>2, <5>2
        <4> QED
          BY <4>1, <4>2
      <3>4. VersionsAgree'
        <4> SUFFICES ASSUME ServerUp, NEW c \in Buffer \ left, attached'[c] > 0
                     PROVE  doc'[servers][uri[c]].ver = attached'[c]
          BY <2>2, <2>5 DEF VersionsAgree
        <4>1. CASE c = x.b
          BY <2>3, <3>1, <3>2, <4>1
        <4>2. CASE c # x.b
          <5>1. attached[c] > 0 /\ attached'[c] = attached[c]
            BY <2>5, <4>2
          <5>2. uri[c] # uri[x.b] /\ uri[c] \in File
            BY <1>0, <2>1, <3>1, <4>2, <5>1 DEF DocumentInv, NoSharedFile
          <5>3. doc[servers][uri[c]].ver = attached[c]
            BY <5>1 DEF DocumentInv, VersionsAgree
          <5> QED
            BY <3>1, <3>2, <5>1, <5>2, <5>3
        <4> QED
          BY <4>1, <4>2
      <3>5. FreshIsEmpty'
        <4>1. proc[servers] \in {"up", "dead"}
          BY <2>9 DEF ServerInv, EntryHolds
        <4> QED
          BY <2>2, <3>2, <4>1 DEF DocumentInv, FreshIsEmpty
      <3> QED
        BY <2>6, <3>3, <3>4, <3>5 DEF DocumentInv
    <2> QED
      BY <2>7, <2>8, <2>9
  <1>7. ASSUME ServerExited PROVE DocumentInv'
    <2>1. /\ servers' = 0 /\ doc' = doc /\ \A b \in Buffer : attached'[b] = 0
          /\ proc' = [i \in Proc |-> IF i = servers /\ proc[i] = "up" THEN "doomed" ELSE proc[i]]
      BY <1>7 DEF ServerExited
    <2>2. FreshIsEmpty'
      BY <1>0, <2>1 DEF DocumentInv, FreshIsEmpty
    <2> QED
      BY <2>1, <2>2 DEF DocumentInv, OpenIsAttached, VersionsAgree, NoSharedFile, ServerUp
  <1>8. ASSUME ShutdownAll PROVE DocumentInv'
    <2>1. /\ servers' = 0 /\ UNCHANGED <<doc, attached, uri, left>>
          /\ IF servers = 0 THEN proc' = proc
             ELSE proc' = [proc EXCEPT ![servers] = IF @ = "up" THEN "exiting" ELSE @]
      BY <1>8 DEF ShutdownAll, Shutdown
    <2>2. \A j \in Proc : proc'[j] \in {"none", "starting"} => proc[j] \in {"none", "starting"}
      BY <1>0, <2>1
    <2> QED
      BY <2>1, <2>2, DocumentFrame DEF ServerUp
  <1>9. ASSUME Stopped \/ ThreadEnds \/ HandshakeFails PROVE DocumentInv'
    <2>1. /\ rt.op \in {"stopping", "quitting", "handshake"}
          /\ UNCHANGED <<doc, attached, uri, left, servers>>
      BY <1>9 DEF Stopped, ThreadEnds, HandshakeFails, srvVars
    <2>2. servers = 0
      BY <2>1 DEF ServerInv, EntryHolds
    <2>3. \A j \in Proc : proc'[j] \in {"none", "starting"} => proc[j] \in {"none", "starting"}
      BY <1>0, <1>9 DEF Stopped, ThreadEnds, HandshakeFails, srvVars
    <2> QED
      BY <2>1, <2>2, <2>3, DocumentFrame DEF ServerUp
  <1>10. ASSUME HandshakeOk PROVE DocumentInv'
    <2> DEFINE x == rt.cmd
               d == [ver |-> 1, text |-> x.text]
    <2>1. rt.op = "handshake" /\ rt.i \in Proc /\ x.b \in Buffer /\ x.f \in File
      BY <1>0, <1>10, AwaitFacts DEF HandshakeOk
    <2>2. /\ proc' = [proc EXCEPT ![rt.i] = "up"] /\ servers' = rt.i
          /\ doc' = [doc EXCEPT ![rt.i][x.f] = d]
          /\ attached' = [attached EXCEPT ![x.b] = 1] /\ uri' = [uri EXCEPT ![x.b] = x.f]
          /\ left' = left
      BY <1>10 DEF HandshakeOk
    <2>3. d.ver = 1
      OBVIOUS
    <2> HIDE DEF x, d
    <2>4. servers = 0 /\ proc[rt.i] = "starting" /\ \A b \in Buffer : attached[b] = 0
      BY <2>1 DEF ServerInv, EntryHolds, AttachmentsHold
    <2>5. /\ attached'[x.b] = 1 /\ uri'[x.b] = x.f
          /\ \A b \in Buffer : attached'[b] > 0 => b = x.b
      BY <1>0, <2>1, <2>2, <2>4
    <2>6. /\ doc'[rt.i][x.f] = d
          /\ \A i \in Proc, f \in File : i # rt.i \/ f # x.f => doc'[i][f] = doc[i][f]
      BY <1>0, <2>1, <2>2
    <2>7. \A f \in File : doc[rt.i][f] = Closed
      BY <2>1, <2>4 DEF DocumentInv, FreshIsEmpty
    <2>8. OpenIsAttached'
      BY <2>1, <2>2, <2>5, <2>6, <2>7 DEF OpenIsAttached
    <2>9. VersionsAgree'
      BY <2>1, <2>2, <2>3, <2>5, <2>6 DEF VersionsAgree
    <2>10. NoSharedFile'
      BY <2>5 DEF NoSharedFile
    <2>11. FreshIsEmpty'
      BY <1>0, <2>1, <2>2, <2>6 DEF DocumentInv, FreshIsEmpty
    <2> QED
      BY <2>8, <2>9, <2>10, <2>11 DEF DocumentInv
  <1>11. ASSUME NEW i \in Proc, Dies(i) \/ Kill(i) PROVE DocumentInv'
    <2>1. proc' = [proc EXCEPT ![i] = "dead"] /\ UNCHANGED <<rtVars, doc, left>>
      BY <1>11 DEF Dies, Kill, Reap
    <2>2. ServerUp' => ServerUp /\ servers' = servers
      BY <1>0, <2>1 DEF ServerUp, rtVars
    <2> QED
      BY <1>0, <2>1, <2>2, DocumentFrame DEF rtVars
  <1>12. ASSUME NEW i \in Proc, NEW r \in Req \cup {Internal}, Answer(i, r) PROVE DocumentInv'
    <2>1. UNCHANGED <<rtVars, doc, proc, left>>
      BY <1>12 DEF Answer
    <2> QED
      BY <2>1, DocumentFrame DEF rtVars, ServerUp
  <1> QED
    BY <1>1, <1>2, <1>3, <1>4, <1>5, <1>6, <1>7, <1>8, <1>9, <1>10, <1>11, <1>12
      DEF Next, RuntimeStep
-----------------------------------------------------------------------------
(* What the server is told *)

\* The texts of the application, the wrong one and none at all are apart.
LEMMA TextNumbers ==
    /\ Gone \in Texts /\ Garbled \in Texts /\ Gone \notin 0..Garbled
    /\ 0..Garbled \subseteq Texts
    /\ \A n \in 0..MaxEdit : n \in 0..Garbled /\ n \in Texts /\ n # Garbled /\ n # Gone
  BY BoundsNat DEF Texts, Gone

LEMMA PassesTyped ==
    ASSUME NEW c \in Cmds, NEW b, NEW T \in Texts
    PROVE  Passes(c, b, T) \in Texts
  <1>1. c.t \in {"full", "incr"} => After(c, T) \in Texts
    BY TextNumbers, CommandFacts DEF After
  <1> QED
    BY <1>1, TextNumbers DEF Passes

\* One more command leads on to what it makes of the texts.
LEMMA LeadsAppend ==
    ASSUME NEW q \in Seq(Cmds), NEW c \in Cmds, NEW b, NEW E, NEW j \in 0..Len(q),
           NEW N, NEW M, Leads(q, b, E, j, N),
           \A T \in Texts : T \in N => Passes(c, b, T) \in M
    PROVE  Leads(Append(q, c), b, E, j, M)
  <1> DEFINE n == Len(q)
             r == Append(q, c)
  <1>1. /\ n \in Nat /\ Len(r) = n + 1 /\ r[n + 1] = c /\ \A k \in 1..n : r[k] = q[k]
        /\ j \in Nat /\ j <= n
    OBVIOUS
  <1>2. PICK h \in [0..n -> Texts] :
          /\ h[j] = E /\ h[n] \in N
          /\ \A k \in (j + 1)..n : h[k] = Passes(q[k], b, h[k - 1])
          /\ Steady(q, b, h, j)
    BY DEF Leads
  <1> DEFINE x == Passes(c, b, h[n])
             g == [k \in 0..(n + 1) |-> IF k <= n THEN h[k] ELSE x]
  <1>3. x \in Texts /\ x \in M /\ (~Concerns(c, b) => x = h[n])
    <2>1. h[n] \in Texts
      BY <1>1, <1>2
    <2> QED
      BY <1>2, <2>1, PassesTyped DEF Passes
  <1>4. /\ g \in [0..(n + 1) -> Texts] /\ g[n + 1] = x
        /\ \A k \in 0..n : g[k] = h[k]
    <2> HIDE DEF x
    <2> QED
      BY <1>1, <1>2, <1>3
  <1> HIDE DEF x, g, r, n
  <1>5. ASSUME NEW k \in (j + 1)..(n + 1) PROVE g[k] = Passes(r[k], b, g[k - 1])
    <2>1. CASE k <= n
      <3>1. k \in 1..n /\ k \in 0..n /\ k - 1 \in 0..n /\ k \in (j + 1)..n
        BY <1>1, <2>1
      <3> QED
        BY <1>1, <1>2, <1>4, <3>1
    <2>2. CASE ~(k <= n)
      <3>1. k = n + 1 /\ k - 1 = n /\ n \in 0..n
        BY <1>1, <2>2
      <3> QED
        BY <1>1, <1>4, <3>1 DEF x
    <2> QED
      BY <2>1, <2>2
  <1>6. ASSUME NEW i \in j..(n + 1), NEW k \in j..(n + 1), i <= k,
               \A m \in (i + 1)..k : ~Concerns(r[m], b)
        PROVE  g[i] = g[k]
    <2>1. CASE k <= n
      <3>1. i \in j..n /\ k \in j..n /\ i \in 0..n /\ k \in 0..n
        BY <1>1, <1>6, <2>1
      <3>2. \A m \in (i + 1)..k : m \in 1..n
        BY <1>1, <2>1
      <3>3. \A m \in (i + 1)..k : ~Concerns(q[m], b)
        BY <1>1, <1>6, <3>2
      <3> QED
        BY <1>2, <1>4, <1>6, <3>1, <3>3 DEF Steady, n
    <2>2. CASE ~(k <= n) /\ i = k
      BY <2>2
    <2>3. CASE ~(k <= n) /\ i # k
      <3>1. k = n + 1 /\ i \in j..n /\ n \in j..n /\ i \in 0..n /\ n \in 0..n /\ i <= n
        BY <1>1, <1>6, <2>3
      <3>2. \A m \in (i + 1)..n : m \in (i + 1)..k /\ m \in 1..n
        BY <1>1, <3>1
      <3>3. \A m \in (i + 1)..n : ~Concerns(q[m], b)
        BY <1>1, <1>6, <3>2
      <3>4. h[i] = h[n]
        BY <1>2, <3>1, <3>3 DEF Steady, n
      <3>5. k \in (i + 1)..k
        BY <1>1, <3>1
      <3>6. x = h[n]
        BY <1>1, <1>3, <1>6, <3>1, <3>5
      <3> QED
        BY <1>4, <3>1, <3>4, <3>6
    <2> QED
      BY <2>1, <2>2, <2>3
  <1>7. Steady(r, b, g, j)
    BY <1>1, <1>6 DEF Steady
  <1>8. g[j] = E /\ g[n + 1] \in M
    BY <1>1, <1>2, <1>3, <1>4
  <1>9. \A k \in (j + 1)..(n + 1) : g[k] = Passes(r[k], b, g[k - 1])
    BY <1>5
  <1>10. Leads(r, b, E, j, M)
    BY <1>1, <1>4, <1>7, <1>8, <1>9 DEF Leads
  <1> QED
    BY <1>10 DEF r

\* Behind the last command there is nothing to lead elsewhere.
LEMMA LeadsLast ==
    ASSUME NEW q \in Seq(Cmds), NEW b, NEW E \in Texts, NEW N, E \in N
    PROVE  Leads(q, b, E, Len(q), N)
  <1> DEFINE n == Len(q)
             h == [k \in 0..n |-> E]
  <1>1. n \in Nat
    OBVIOUS
  <1>2. h \in [0..n -> Texts] /\ \A k \in 0..n : h[k] = E
    OBVIOUS
  <1> HIDE DEF n, h
  <1>3. \A k \in n..n : k \in 0..n
    BY <1>1
  <1>4. Steady(q, b, h, n)
    BY <1>2, <1>3 DEF Steady, n
  <1>5. (n + 1)..n = {} /\ n \in 0..n
    BY <1>1
  <1> QED
    BY <1>2, <1>4, <1>5 DEF Leads, n

\* Commands that are not about b lead nowhere.
LEMMA LeadsIdle ==
    ASSUME NEW q \in Seq(Cmds), NEW cs \in Seq(Cmds), NEW b, NEW E, NEW j \in 0..Len(q),
           NEW N, Leads(q, b, E, j, N), \A i \in DOMAIN cs : ~Concerns(cs[i], b)
    PROVE  Leads(q \o cs, b, E, j, N)
  <1> DEFINE n == Len(q)
             r == q \o cs
             l == n + Len(cs)
  <1>1. /\ n \in Nat /\ l \in Nat /\ n <= l /\ Len(r) = l /\ j \in Nat /\ j <= n
        /\ \A k \in 1..n : r[k] = q[k]
    BY ConcatProperties
  <1>2. \A k \in (n + 1)..l : ~Concerns(r[k], b)
    <2>1. \A k \in (n + 1)..l : k - n \in DOMAIN cs /\ k \in 1..l /\ ~(k <= n)
      BY <1>1
    <2>2. \A k \in 1..l : ~(k <= n) => r[k] = cs[k - n]
      BY ConcatProperties
    <2> QED
      BY <2>1, <2>2
  <1>3. PICK h \in [0..n -> Texts] :
          /\ h[j] = E /\ h[n] \in N
          /\ \A k \in (j + 1)..n : h[k] = Passes(q[k], b, h[k - 1])
          /\ Steady(q, b, h, j)
    BY DEF Leads
  <1> DEFINE g == [k \in 0..l |-> IF k <= n THEN h[k] ELSE h[n]]
  <1> HIDE DEF n, r, l
  <1>4. /\ g \in [0..l -> Texts]
        /\ \A k \in 0..n : k \in 0..l /\ g[k] = h[k]
        /\ \A k \in n..l : g[k] = h[n]
    BY <1>1, <1>3
  <1> HIDE DEF g
  <1>5. ASSUME NEW k \in (j + 1)..l PROVE g[k] = Passes(r[k], b, g[k - 1])
    <2>1. CASE k <= n
      <3>1. k \in 1..n /\ k \in 0..n /\ k - 1 \in 0..n /\ k \in (j + 1)..n
        BY <1>1, <2>1
      <3> QED
        BY <1>1, <1>3, <1>4, <3>1
    <2>2. CASE ~(k <= n)
      <3>1. k \in (n + 1)..l /\ k \in n..l /\ k - 1 \in n..l
        BY <1>1, <2>2
      <3> QED
        BY <1>2, <1>4, <3>1 DEF Passes
    <2> QED
      BY <2>1, <2>2
  <1>6. ASSUME NEW i \in j..l, NEW k \in j..l, i <= k,
               \A m \in (i + 1)..k : ~Concerns(r[m], b)
        PROVE  g[i] = g[k]
    <2>1. CASE k <= n
      <3>1. i \in j..n /\ k \in j..n /\ i \in 0..n /\ k \in 0..n
        BY <1>1, <1>6, <2>1
      <3>2. \A m \in (i + 1)..k : m \in 1..n
        BY <1>1, <2>1
      <3>3. \A m \in (i + 1)..k : ~Concerns(q[m], b)
        BY <1>1, <1>6, <3>2
      <3> QED
        BY <1>3, <1>4, <1>6, <3>1, <3>3 DEF Steady, n
    <2>2. CASE i >= n
      BY <1>1, <1>4, <1>6, <2>2
    <2>3. CASE ~(k <= n) /\ ~(i >= n)
      <3>1. k \in n..l /\ i \in j..n /\ n \in j..n /\ i \in 0..n /\ i <= n
        BY <1>1, <1>6, <2>3
      <3>2. \A m \in (i + 1)..n : m \in (i + 1)..k /\ m \in 1..n
        BY <1>1, <3>1
      <3>3. \A m \in (i + 1)..n : ~Concerns(q[m], b)
        BY <1>1, <1>6, <3>2
      <3>4. h[i] = h[n]
        BY <1>3, <3>1, <3>3 DEF Steady, n
      <3> QED
        BY <1>4, <3>1, <3>4
    <2> QED
      BY <1>1, <2>1, <2>2, <2>3
  <1>7. Steady(r, b, g, j)
    BY <1>1, <1>6 DEF Steady
  <1>8. g[j] = E /\ g[l] \in N
    BY <1>1, <1>3, <1>4
  <1>9. Leads(r, b, E, j, N)
    BY <1>1, <1>4, <1>5, <1>7, <1>8 DEF Leads
  <1> QED
    BY <1>9 DEF r

LEMMA LeadsRelax ==
    ASSUME NEW q, NEW b, NEW E, NEW j, NEW N, NEW M, N \subseteq M, Leads(q, b, E, j, N)
    PROVE  Leads(q, b, E, j, M)
  BY DEF Leads

\* The first command is taken: what came after it leads on, and so does what
\* it makes of the text.
LEMMA LeadsTail ==
    ASSUME NEW q \in Seq(Cmds), q # <<>>, NEW b, NEW N
    PROVE  /\ \A E : \A j \in 0..Len(Tail(q)) : Leads(q, b, E, j + 1, N) => Leads(Tail(q), b, E, j, N)
           /\ \A E : Leads(q, b, E, 0, N) => Leads(Tail(q), b, Passes(q[1], b, E), 0, N)
  <1> DEFINE r == Tail(q)
             n == Len(q)
             l == n - 1
  <1>1. /\ n \in Nat \ {0} /\ l \in Nat /\ n = l + 1 /\ Len(r) = l
        /\ \A i \in 1..l : r[i] = q[i + 1]
    BY ToSetTail
  <1> HIDE DEF r, n, l
  <1>2. ASSUME NEW E, NEW j \in 0..l, Leads(q, b, E, j + 1, N)
        PROVE  Leads(r, b, E, j, N)
    <2>1. PICK h \in [0..n -> Texts] :
            /\ h[j + 1] = E /\ h[n] \in N
            /\ \A k \in ((j + 1) + 1)..n : h[k] = Passes(q[k], b, h[k - 1])
            /\ Steady(q, b, h, j + 1)
      BY <1>2 DEF Leads, n
    <2> DEFINE g == [k \in 0..l |-> h[k + 1]]
    <2>2. g \in [0..l -> Texts] /\ \A k \in 0..l : g[k] = h[k + 1]
      BY <1>1, <2>1
    <2> HIDE DEF g
    <2>3. g[j] = E /\ g[l] \in N
      BY <1>1, <2>1, <2>2
    <2>4. ASSUME NEW k \in (j + 1)..l PROVE g[k] = Passes(r[k], b, g[k - 1])
      <3>1. /\ k \in 1..l /\ k \in 0..l /\ k - 1 \in 0..l /\ (k - 1) + 1 = k /\ (k + 1) - 1 = k
            /\ k + 1 \in ((j + 1) + 1)..n
        BY <1>1
      <3>2. h[k + 1] = Passes(q[k + 1], b, h[k])
        BY <2>1, <3>1
      <3>3. g[k] = h[k + 1] /\ g[k - 1] = h[k] /\ r[k] = q[k + 1]
        BY <1>1, <2>2, <3>1
      <3> QED
        BY <3>2, <3>3
    <2>5. ASSUME NEW i \in j..l, NEW k \in j..l, i <= k,
                 \A m \in (i + 1)..k : ~Concerns(r[m], b)
          PROVE  g[i] = g[k]
      <3>1. /\ i \in 0..l /\ k \in 0..l /\ i + 1 \in (j + 1)..n /\ k + 1 \in (j + 1)..n
            /\ i + 1 <= k + 1
        BY <1>1, <2>5
      <3>2. ASSUME NEW m \in ((i + 1) + 1)..(k + 1) PROVE ~Concerns(q[m], b)
        <4>1. m - 1 \in (i + 1)..k /\ m - 1 \in 1..l /\ (m - 1) + 1 = m
          BY <1>1, <3>1
        <4>2. r[m - 1] = q[(m - 1) + 1]
          BY <1>1, <4>1
        <4> QED
          BY <2>5, <4>1, <4>2
      <3>3. h[i + 1] = h[k + 1]
        BY <2>1, <3>1, <3>2 DEF Steady, n
      <3> QED
        BY <2>2, <3>1, <3>3
    <2>6. Steady(r, b, g, j)
      BY <1>1, <2>5 DEF Steady
    <2> QED
      BY <1>1, <2>2, <2>3, <2>4, <2>6 DEF Leads
  <1>3. ASSUME NEW E, Leads(q, b, E, 0, N)
        PROVE  Leads(q, b, Passes(q[1], b, E), 0 + 1, N)
    <2>1. PICK h \in [0..n -> Texts] :
            /\ h[0] = E /\ h[n] \in N
            /\ \A k \in (0 + 1)..n : h[k] = Passes(q[k], b, h[k - 1])
            /\ Steady(q, b, h, 0)
      BY <1>3 DEF Leads, n
    <2>2. 1 \in (0 + 1)..n /\ 1 - 1 = 0 /\ 0 + 1 = 1
      BY <1>1
    <2>3. h[1] = Passes(q[1], b, E)
      BY <2>1, <2>2
    <2>4. \A k \in (1 + 1)..n : k \in (0 + 1)..n
      BY <1>1
    <2>5. \A i \in 1..n : i \in 0..n
      BY <1>1
    <2>6. Steady(q, b, h, 1)
      BY <2>1, <2>5 DEF Steady, n
    <2>7. Leads(q, b, Passes(q[1], b, E), 1, N)
      BY <2>1, <2>3, <2>4, <2>6 DEF Leads, n
    <2> QED
      BY <2>2, <2>7
  <1>4. ASSUME NEW E, Leads(q, b, E, 0, N)
        PROVE  Leads(r, b, Passes(q[1], b, E), 0, N)
    BY <1>1, <1>2, <1>3, <1>4
  <1> QED
    BY <1>1, <1>2, <1>4 DEF r

\* The dispatcher has heard nothing of b.
Fresh(q, b) ==
  /\ \A k \in DOMAIN q : ~Concerns(q[k], b)
  /\ ~(attached[b] > 0) /\ ~(rt.op = "handshake" /\ rt.cmd.b = b)

\* The application sends c, slots s become z, and what is due was N, is now M.
LEMMA SyncedAppend ==
    ASSUME NEW q \in Seq(Cmds), NEW c \in Cmds, NEW s, NEW z, NEW N, NEW M, Synced(q, s, N),
           \A b \in Buffer : z[b] \in File =>
             /\ s[b] \in File \/ Fresh(q, b)
             /\ \A T \in Texts : T \in N[b] => Passes(c, b, T) \in M[b]
             /\ c.t = "attach" /\ c.b = b => c.text \in M[b]
    PROVE  Synced(Append(q, c), z, M)
  <1> SUFFICES ASSUME NEW b \in Buffer, z[b] \in File
               PROVE  /\ Tells(Append(q, c), b, M[b])
                      /\ ServerUp /\ attached[b] > 0 =>
                           Leads(Append(q, c), b, doc[servers][uri[b]].text, 0, M[b])
                      /\ rt.op = "handshake" /\ rt.cmd.b = b =>
                           Leads(Append(q, c), b, rt.cmd.text, 0, M[b])
    BY DEF Synced
  <1> DEFINE r == Append(q, c)
             n == Len(q)
  <1>1. /\ n \in Nat /\ 0 \in 0..n /\ Len(r) = n + 1 /\ DOMAIN q = 1..n /\ DOMAIN r = 1..(n + 1)
        /\ r[n + 1] = c /\ \A k \in 1..n : r[k] = q[k]
        /\ r \in Seq(Cmds)
    OBVIOUS
  <1>2. \A E : \A j \in 0..n : Leads(q, b, E, j, N[b]) => Leads(r, b, E, j, M[b])
    BY LeadsAppend
  <1> HIDE DEF r, n
  <1>3. CASE s[b] \in File
    <2>1. /\ Tells(q, b, N[b])
          /\ ServerUp /\ attached[b] > 0 => Leads(q, b, doc[servers][uri[b]].text, 0, N[b])
          /\ rt.op = "handshake" /\ rt.cmd.b = b => Leads(q, b, rt.cmd.text, 0, N[b])
      BY <1>3 DEF Synced
    <2>2. ASSUME NEW j \in DOMAIN r, r[j].t = "attach", r[j].b = b
          PROVE  Leads(r, b, r[j].text, j, M[b])
      <3>1. CASE j <= n
        <4>1. j \in DOMAIN q /\ j \in 0..n /\ r[j] = q[j]
          BY <1>1, <3>1
        <4> QED
          BY <1>2, <2>1, <2>2, <4>1 DEF Tells
      <3>2. CASE ~(j <= n)
        <4>1. j = Len(r) /\ r[j] = c
          BY <1>1, <3>2
        <4>2. c.text \in M[b] /\ c.text \in Texts
          BY <2>2, <4>1, CommandFacts, TextNumbers
        <4> QED
          BY <1>1, <4>1, <4>2, LeadsLast
      <3> QED
        BY <3>1, <3>2
    <2> QED
      BY <1>1, <1>2, <2>1, <2>2 DEF Tells, r
  <1>4. CASE Fresh(q, b)
    <2>1. ASSUME NEW j \in DOMAIN r, r[j].t = "attach", r[j].b = b
          PROVE  Leads(r, b, r[j].text, j, M[b])
      <3>1. j \notin 1..n
        BY <1>1, <1>4, <2>1 DEF Fresh, Concerns
      <3>2. j = Len(r) /\ r[j] = c
        BY <1>1, <3>1
      <3>3. c.text \in M[b] /\ c.text \in Texts
        BY <2>1, <3>2, CommandFacts, TextNumbers
      <3> QED
        BY <1>1, <3>2, <3>3, LeadsLast
    <2> QED
      BY <1>4, <2>1 DEF Fresh, Tells, r
  <1> QED
    BY <1>3, <1>4

\* More is due than was, or slots close.
LEMMA SyncedRelax ==
    ASSUME NEW q, NEW s, NEW z, NEW N, NEW M, Synced(q, s, N),
           \A b \in Buffer : z[b] \in File => s[b] \in File /\ N[b] \subseteq M[b]
    PROVE  Synced(q, z, M)
  <1> SUFFICES ASSUME NEW b \in Buffer, z[b] \in File
               PROVE  /\ Tells(q, b, M[b])
                      /\ ServerUp /\ attached[b] > 0 =>
                           Leads(q, b, doc[servers][uri[b]].text, 0, M[b])
                      /\ rt.op = "handshake" /\ rt.cmd.b = b => Leads(q, b, rt.cmd.text, 0, M[b])
    BY DEF Synced
  <1>1. /\ Tells(q, b, N[b])
        /\ ServerUp /\ attached[b] > 0 => Leads(q, b, doc[servers][uri[b]].text, 0, N[b])
        /\ rt.op = "handshake" /\ rt.cmd.b = b => Leads(q, b, rt.cmd.text, 0, N[b])
    BY DEF Synced
  <1>2. \A E, j : Leads(q, b, E, j, N[b]) => Leads(q, b, E, j, M[b])
    BY LeadsRelax
  <1> QED
    BY <1>1, <1>2 DEF Tells

LEMMA SyncInit == ASSUME Init PROVE SyncInv
  <1>1. \A b \in Buffer : slot[b] \notin File
    BY LspBounds DEF Init, LspBounds
  <1> QED
    BY <1>1 DEF SyncInv, Synced

\* What is due of a buffer.
LEMMA DueFacts ==
    /\ \A b \in Buffer : Dues[b] = Due(b) /\ Gone \in Due(b)
    /\ \A b \in Buffer : /\ gap'[b] => Dues'[b] = Texts
                         /\ ~gap'[b] => Dues'[b] = {logFrom'[b], Gone}
                         /\ logFrom'[b] \in Texts => logFrom'[b] \in Dues'[b]
                         /\ Gone \in Dues'[b]
    /\ \A b \in Buffer : gap'[b] = gap[b] /\ logFrom'[b] = logFrom[b] => Dues'[b] = Due(b)
  BY TextNumbers DEF Due, Dues

\* Only the application has moved.
LEMMA SyncLifts ==
    ASSUME UNCHANGED <<rtVars, srvVars>>, Synced(cmds', slot', Dues')
    PROVE  SyncInv'
  <1>1. UNCHANGED <<rt, servers, attached, uri, doc, proc>> /\ (ServerUp' <=> ServerUp)
    BY DEF rtVars, srvVars, ServerUp
  <1> QED
    BY <1>1 DEF SyncInv, Synced, Tells

\* Nobody has heard of an unused buffer.
LEMMA UnusedIsFresh ==
    ASSUME LspTyped, OrderInv, NEW b \in Buffer, slot[b] = "unused"
    PROVE  Fresh(cmds, b)
  <1>1. \A f \in File : <<b, f>> \notin Held
    BY DEF OrderInv, Quiet
  <1>2. attached[b] > 0 => uri[b] \in File
    BY DEF LspTyped, RuntimeTyped
  <1>3. rt.op = "handshake" => rt.cmd.f \in File
    BY AwaitFacts DEF LspTyped, RuntimeTyped
  <1>4. ~(attached[b] > 0) /\ ~(rt.op = "handshake" /\ rt.cmd.b = b)
    BY <1>1, <1>2, <1>3, HeldFacts
  <1> QED
    BY <1>4 DEF OrderInv, Quiet, Fresh

\* The application sends one command, which is about b only.
LEMMA SyncSends ==
    ASSUME LspTyped, OrderInv, SyncInv, UNCHANGED <<rtVars, srvVars>>,
           NEW b \in Buffer, NEW c \in Cmds, cmds' = Append(cmds, c),
           \A d \in Buffer : d # b => ~Concerns(c, d),
           \A d \in Buffer : slot'[d] \in File => slot[d] \in File \/ slot[d] = "unused",
           \A d \in Buffer : d # b => gap'[d] = gap[d] /\ logFrom'[d] = logFrom[d],
           slot'[b] \in File =>
             /\ \A T \in Texts : T \in Due(b) => Passes(c, b, T) \in Dues'[b]
             /\ c.t = "attach" => c.text \in Dues'[b]
    PROVE  SyncInv'
  <1>1. cmds \in Seq(Cmds)
    BY DEF LspTyped, ChannelsTyped
  <1>2. ASSUME NEW d \in Buffer, slot'[d] \in File
        PROVE  /\ slot[d] \in File \/ Fresh(cmds, d)
               /\ \A T \in Texts : T \in Dues[d] => Passes(c, d, T) \in Dues'[d]
               /\ c.t = "attach" /\ c.b = d => c.text \in Dues'[d]
    <2>1. slot[d] \in File \/ Fresh(cmds, d)
      BY <1>2, UnusedIsFresh
    <2>2. CASE d = b
      BY <1>2, <2>1, <2>2, DueFacts
    <2>3. CASE d # b
      <3>1. ~Concerns(c, d) /\ Dues'[d] = Due(d) /\ Dues[d] = Due(d)
        BY <2>3, DueFacts
      <3> QED
        BY <2>1, <3>1 DEF Passes, Concerns
    <2> QED
      BY <2>2, <2>3
  <1>3. Synced(Append(cmds, c), slot', Dues')
    BY <1>1, <1>2, SyncedAppend DEF SyncInv
  <1> QED
    BY <1>3, SyncLifts

\* It sends two, and what is due in between is N.
LEMMA SyncSendsTwo ==
    ASSUME LspTyped, SyncInv, UNCHANGED <<rtVars, srvVars, slot>>,
           NEW b \in Buffer, NEW c \in Cmds, NEW e \in Cmds, NEW N,
           cmds' = Append(Append(cmds, c), e),
           \A d \in Buffer : d # b => ~Concerns(c, d) /\ ~Concerns(e, d),
           \A d \in Buffer : d # b => gap'[d] = gap[d] /\ logFrom'[d] = logFrom[d],
           \A T \in Texts : T \in Due(b) => Passes(c, b, T) \in N,
           \A T \in Texts : T \in N => Passes(e, b, T) \in Dues'[b],
           c.t # "attach", e.t = "attach" => e.text \in Dues'[b]
    PROVE  SyncInv'
  <1> DEFINE I == [d \in Buffer |-> IF d = b THEN N ELSE Due(d)]
             q == Append(cmds, c)
  <1>1. cmds \in Seq(Cmds) /\ q \in Seq(Cmds) /\ cmds' = Append(q, e)
    BY DEF LspTyped, ChannelsTyped
  <1>2. I[b] = N /\ \A d \in Buffer : d # b => I[d] = Due(d) /\ Dues'[d] = Due(d)
    BY DueFacts
  <1>3. \A d \in Buffer : Dues[d] = Due(d)
    BY DueFacts
  <1>4. \A d \in Buffer : d # b => \A T : Passes(c, d, T) = T /\ Passes(e, d, T) = T
    BY DEF Passes
  <1>5. /\ c.b = b \/ c.t # "attach"
        /\ \A d \in Buffer : e.t = "attach" /\ e.b = d => d = b
    BY DEF Concerns
  <1> HIDE DEF I
  <1>6. Synced(q, slot, I)
    <2>1. \A d \in Buffer : \A T \in Texts : T \in Dues[d] => Passes(c, d, T) \in I[d]
      BY <1>2, <1>3, <1>4
    <2> QED
      BY <1>1, <2>1, SyncedAppend DEF SyncInv
  <1> HIDE DEF q
  <1>7. Synced(Append(q, e), slot, Dues')
    <2>1. \A d \in Buffer : \A T \in Texts : T \in I[d] => Passes(e, d, T) \in Dues'[d]
      BY <1>2, <1>4
    <2> QED
      BY <1>1, <1>5, <1>6, <2>1, SyncedAppend
  <1> QED
    BY <1>1, <1>7, SyncLifts

\* Nothing is sent, and no less is due.
LEMMA SyncSilent ==
    ASSUME SyncInv, UNCHANGED <<rtVars, srvVars, slot, cmds>>,
           \A d \in Buffer : Due(d) \subseteq Dues'[d]
    PROVE  SyncInv'
  <1>1. \A d \in Buffer : slot'[d] \in File => slot[d] \in File /\ Dues[d] \subseteq Dues'[d]
    BY DueFacts
  <1>2. Synced(cmds, slot', Dues')
    BY <1>1, SyncedRelax DEF SyncInv
  <1> QED
    BY <1>2, SyncLifts

\* Signals to the dispatcher are about no buffer.
LEMMA SyncSignals ==
    ASSUME LspTyped, SyncInv, UNCHANGED <<rtVars, srvVars, slot, logFrom, gap>>,
           NEW cs \in Seq(Cmds), cmds' = cmds \o cs,
           \A i \in DOMAIN cs : cs[i].t \in {"exited", "shutdown"}
    PROVE  SyncInv'
  <1>1. cmds \in Seq(Cmds) /\ Dues' = Dues
    BY DEF LspTyped, ChannelsTyped, Dues, Due
  <1> DEFINE r == cmds \o cs
             n == Len(cmds)
  <1>2. /\ n \in Nat /\ DOMAIN cmds = 1..n
        /\ \A j \in DOMAIN r : j \in 1..n \/ r[j].t # "attach"
        /\ \A j \in 1..n : r[j] = cmds[j]
    <2>1. /\ Grows(cmds, r) /\ DOMAIN cmds = 1..n /\ n \in Nat
          /\ \A k \in DOMAIN r \ DOMAIN cmds : \E i \in DOMAIN cs : r[k] = cs[i]
      BY <1>1, ConcatGrows, LenProperties
    <2> HIDE DEF r
    <2> QED
      BY <2>1 DEF Grows
  <1>3. \A b \in Buffer : \A i \in DOMAIN cs : ~Concerns(cs[i], b)
    BY DEF Concerns
  <1>4. \A b \in Buffer : \A E : \A j \in 0..n :
          Leads(cmds, b, E, j, Dues[b]) => Leads(r, b, E, j, Dues[b])
    BY <1>1, <1>3, LeadsIdle
  <1> HIDE DEF r, n
  <1>5. ASSUME NEW b \in Buffer, slot[b] \in File
        PROVE  /\ Tells(r, b, Dues[b])
               /\ ServerUp /\ attached[b] > 0 =>
                    Leads(r, b, doc[servers][uri[b]].text, 0, Dues[b])
               /\ rt.op = "handshake" /\ rt.cmd.b = b => Leads(r, b, rt.cmd.text, 0, Dues[b])
    <2>1. /\ Tells(cmds, b, Dues[b])
          /\ ServerUp /\ attached[b] > 0 => Leads(cmds, b, doc[servers][uri[b]].text, 0, Dues[b])
          /\ rt.op = "handshake" /\ rt.cmd.b = b => Leads(cmds, b, rt.cmd.text, 0, Dues[b])
      BY <1>5 DEF SyncInv, Synced
    <2>2. 0 \in 0..n /\ \A j \in 1..n : j \in 0..n
      BY <1>2
    <2>3. Tells(r, b, Dues[b])
      BY <1>2, <1>4, <2>1, <2>2 DEF Tells
    <2> QED
      BY <1>4, <2>1, <2>2, <2>3
  <1>6. Synced(cmds', slot', Dues')
    BY <1>1, <1>5 DEF Synced, r
  <1> QED
    BY <1>6, SyncLifts

\* A change that is announced: the whole text closes every gap, edits lead on
\* from the text they were made on.
LEMMA SyncNotified ==
    ASSUME LspTyped, OrderInv, SyncInv, UNCHANGED <<rtVars, srvVars>>,
           NEW b \in Buffer, NEW n \in 0..MaxEdit, NEW m \in 0..Garbled,
           Notified(b, n, m), lastGen[b] # n
    PROVE  SyncInv'
  <1>0. /\ cmds \in Seq(Cmds) /\ gap \in [Buffer -> BOOLEAN] /\ logFrom \in [Buffer -> 0..Garbled]
        /\ text \in [Buffer -> 0..MaxEdit]
        /\ logFrom[b] <= text[b] \/ (logFrom[b] = Garbled /\ gap[b])
        /\ lspState \in BOOLEAN
    BY DEF LspTyped, ChannelsTyped, AppTyped, StateTyped
  <1>1. /\ logFrom' = [logFrom EXCEPT ![b] = n] /\ slot' = slot
        /\ gap' = [gap EXCEPT ![b] = /\ m # n /\ lspState
                                     /\ @ \/ m # logFrom[b]]
        /\ Send(NotifyChange(b, n, m))
    BY DEF Notified
  <1>2. /\ logFrom'[b] = n /\ \A d \in Buffer : d # b => gap'[d] = gap[d] /\ logFrom'[d] = logFrom[d]
        /\ gap'[b] <=> (m # n /\ lspState /\ (gap[b] \/ m # logFrom[b]))
    BY <1>0, <1>1
  <1>3. \A d \in Buffer : slot'[d] \in File => slot[d] \in File \/ slot[d] = "unused"
    BY <1>1
  <1>4. CASE m # n /\ lspState
    <2> DEFINE c == IncrCmd(b, m, n)
    <2>1. c \in Cmds /\ c.t = "incr" /\ c.b = b /\ c.from = m /\ c.text = n
      BY LspBounds, CommandsTyped DEF IncrCmd
    <2>2. Send(<<c>>)
      BY <1>1, <1>4 DEF NotifyChange
    <2> HIDE DEF c
    <2>3. cmds' = Append(cmds, c)
      BY <1>0, <2>1, <2>2, SendOne DEF Send
    <2>4. Concerns(c, b) /\ \A d \in Buffer : d # b => ~Concerns(c, d)
      BY <2>1 DEF Concerns
    <2>5. ASSUME NEW T \in Texts, T \in Due(b) PROVE Passes(c, b, T) \in Dues'[b]
      <3>1. CASE gap'[b]
        BY <2>1, <3>1, PassesTyped, DueFacts
      <3>2. CASE ~gap'[b]
        <4>1. ~gap[b] /\ m = logFrom[b]
          BY <1>2, <1>4, <3>2
        <4>2. T = m \/ T = Gone
          BY <2>5, <4>1 DEF Due
        <4>3. m # Garbled
          BY <1>0, <4>1, BoundsNat
        <4>4. T = m => Passes(c, b, T) = n \/ Passes(c, b, T) = Gone
          BY <2>1, <2>4, <4>3 DEF Passes, After
        <4>5. T = Gone => Passes(c, b, T) = Gone
          BY DEF Passes
        <4> QED
          BY <1>2, <3>2, <4>2, <4>4, <4>5, DueFacts
      <3> QED
        BY <3>1, <3>2
    <2> QED
      BY <1>2, <1>3, <2>1, <2>3, <2>4, <2>5, SyncSends
  <1>5. CASE ~(m # n /\ lspState)
    <2> DEFINE c == FullCmd(b, n)
    <2>1. c \in Cmds /\ c.t = "full" /\ c.b = b /\ c.text = n
      BY LspBounds, CommandsTyped DEF FullCmd
    <2>2. Send(<<c>>)
      BY <1>1, <1>5 DEF NotifyChange
    <2> HIDE DEF c
    <2>3. cmds' = Append(cmds, c)
      BY <1>0, <2>1, <2>2, SendOne DEF Send
    <2>4. Concerns(c, b) /\ \A d \in Buffer : d # b => ~Concerns(c, d)
      BY <2>1 DEF Concerns
    <2>5. ASSUME NEW T \in Texts, T \in Due(b) PROVE Passes(c, b, T) \in Dues'[b]
      <3>1. Passes(c, b, T) = n \/ Passes(c, b, T) = Gone
        BY <2>1, <2>4 DEF Passes, After
      <3> QED
        BY <1>2, <3>1, TextNumbers, DueFacts
    <2> QED
      BY <1>2, <1>3, <2>1, <2>3, <2>4, <2>5, SyncSends
  <1> QED
    BY <1>4, <1>5

LEMMA SyncUser == ASSUME LspTyped, OrderInv, SyncInv, UserStep PROVE SyncInv'
  <1>0. /\ cmds \in Seq(Cmds) /\ slot \in [Buffer -> File \cup {"unused", "closed"}]
        /\ text \in [Buffer -> 0..MaxEdit] /\ gap \in [Buffer -> BOOLEAN]
        /\ logFrom \in [Buffer -> 0..Garbled]
        /\ \A b \in Buffer : slot[b] = "unused" => logFrom[b] = text[b]
        /\ \A b \in Buffer : text[b] \in Texts
        /\ \A f \in File : f # "unused" /\ f # "closed"
        /\ UNCHANGED <<rtVars, srvVars>>
    BY LspBounds, TextNumbers, AppLeavesRuntime DEF LspTyped, ChannelsTyped, AppTyped, LspBounds
  <1>1. ASSUME NEW b \in Buffer, NEW f \in File, Open(b, f) \/ OpenAborted(b, f)
        PROVE  SyncInv'
    <2> DEFINE a == AttachCmd(b, f, text[b])
    <2>1. a \in Cmds /\ a.t = "attach" /\ a.b = b /\ a.text = text[b]
      BY <1>0, LspBounds, CommandsTyped DEF AttachCmd
    <2>2. /\ Send(<<a>>) /\ UNCHANGED <<logFrom, gap>> /\ slot[b] = "unused"
          /\ slot' = [slot EXCEPT ![b] = f] \/ slot' = [slot EXCEPT ![b] = "closed"]
      BY <1>1 DEF Open, OpenAborted, NewSlot
    <2> HIDE DEF a
    <2>3. \A c \in Buffer : slot'[c] \in File => slot[c] \in File \/ slot[c] = "unused"
      BY <1>0, <2>2
    <2>4. cmds' = Append(cmds, a)
      BY <1>0, <2>1, <2>2, SendOne DEF Send
    <2>5. \A d \in Buffer : d # b => ~Concerns(a, d)
      BY <2>1 DEF Concerns
    <2>6. \A T \in Texts : T \in Due(b) => Passes(a, b, T) \in Dues'[b]
      BY <2>1, <2>2, DueFacts DEF Passes
    <2>7. a.text \in Dues'[b]
      BY <1>0, <2>1, <2>2, DueFacts
    <2> QED
      BY <1>0, <2>1, <2>2, <2>3, <2>4, <2>5, <2>6, <2>7, SyncSends
  <1>2. ASSUME NEW b \in Buffer, Close(b) PROVE SyncInv'
    <2> DEFINE a == DetachCmd(b)
    <2>1. a \in Cmds /\ a.t = "detach" /\ a.b = b
      BY LspBounds, CommandsTyped DEF DetachCmd
    <2>2. /\ Send(<<a>>) /\ UNCHANGED <<logFrom, gap>> /\ slot' = [slot EXCEPT ![b] = "closed"]
      BY <1>2 DEF Close
    <2> HIDE DEF a
    <2>3. /\ \A c \in Buffer : slot'[c] \in File => slot[c] \in File \/ slot[c] = "unused"
          /\ slot'[b] \notin File
      BY <1>0, <2>2
    <2>4. cmds' = Append(cmds, a)
      BY <1>0, <2>1, <2>2, SendOne DEF Send
    <2>5. \A d \in Buffer : d # b => ~Concerns(a, d)
      BY <2>1 DEF Concerns
    <2> QED
      BY <1>0, <2>1, <2>2, <2>3, <2>4, <2>5, SyncSends
  <1>3. ASSUME NEW b \in Buffer, Restart(b) PROVE SyncInv'
    <2> DEFINE d == DetachCmd(b)
               a == AttachCmd(b, slot[b], text[b])
    <2>1. /\ Send(<<d, a>>) /\ UNCHANGED <<slot, logFrom>> /\ slot[b] \in File
          /\ gap' = [gap EXCEPT ![b] = logFrom[b] # text[b]]
      BY <1>3 DEF Restart, appVars, IsOpen
    <2>2. /\ d \in Cmds /\ d.t = "detach" /\ d.b = b
          /\ a \in Cmds /\ a.t = "attach" /\ a.b = b /\ a.text = text[b]
      BY <1>0, <2>1, LspBounds, CommandsTyped DEF DetachCmd, AttachCmd
    <2> HIDE DEF d, a
    <2>3. cmds' = Append(Append(cmds, d), a)
      BY <1>0, <2>1, <2>2, SendTwo DEF Send
    <2>4. \A c \in Buffer : c # b => ~Concerns(d, c) /\ ~Concerns(a, c)
      BY <2>2 DEF Concerns
    <2>5. /\ \A c \in Buffer : c # b => gap'[c] = gap[c] /\ logFrom'[c] = logFrom[c]
          /\ gap'[b] <=> logFrom[b] # text[b]
      BY <1>0, <2>1
    <2>6. \A T \in Texts : Passes(d, b, T) \in {Gone}
      BY <2>2 DEF Passes, Concerns
    <2>7. \A T \in Texts : T \in {Gone} => Passes(a, b, T) \in Dues'[b]
      BY DueFacts DEF Passes
    <2>8. a.text \in Dues'[b]
      BY <1>0, <2>1, <2>2, <2>5, DueFacts
    <2> QED
      BY <1>0, <2>1, <2>2, <2>3, <2>4, <2>5, <2>6, <2>7, <2>8, SyncSendsTwo
  <1>4. ASSUME NEW b \in Buffer, SetFiletype(b) PROVE SyncInv'
    <2> DEFINE a == AttachCmd(b, slot[b], text[b])
    <2>1. /\ Send(<<a>>) /\ UNCHANGED <<slot, logFrom>> /\ slot[b] \in File
          /\ gap' = [gap EXCEPT ![b] = @ \/ logFrom[b] # text[b]]
      BY <1>4 DEF SetFiletype, appVars, IsOpen
    <2>2. a \in Cmds /\ a.t = "attach" /\ a.b = b /\ a.text = text[b]
      BY <1>0, <2>1, LspBounds, CommandsTyped DEF AttachCmd
    <2> HIDE DEF a
    <2>3. cmds' = Append(cmds, a)
      BY <1>0, <2>1, <2>2, SendOne DEF Send
    <2>4. \A d \in Buffer : d # b => ~Concerns(a, d)
      BY <2>2 DEF Concerns
    <2>5. /\ \A c \in Buffer : c # b => gap'[c] = gap[c] /\ logFrom'[c] = logFrom[c]
          /\ gap'[b] <=> gap[b] \/ logFrom[b] # text[b]
      BY <1>0, <2>1
    <2>6. \A T \in Texts : T \in Due(b) => Passes(a, b, T) \in Dues'[b]
      <3>1. \A T : Passes(a, b, T) = T
        BY <2>2 DEF Passes
      <3>2. Dues'[b] = Texts \/ Dues'[b] = Due(b)
        BY <1>0, <2>1, <2>5, DueFacts
      <3> QED
        BY <3>1, <3>2
    <2>7. a.text \in Dues'[b]
      BY <1>0, <2>1, <2>2, <2>5, DueFacts
    <2>8. \A d \in Buffer : slot'[d] \in File => slot[d] \in File \/ slot[d] = "unused"
      BY <2>1
    <2> QED
      BY <1>0, <2>2, <2>3, <2>4, <2>5, <2>6, <2>7, <2>8, SyncSends
  <1>5. ASSUME NEW b \in Buffer, ChangesText(b) PROVE SyncInv'
    <2>1. PICK n \in 0..MaxEdit, m \in 0..Garbled : TextChange(b, n, m)
      BY <1>5, ChangeCases DEF LspTyped
    <2>2. CASE Notified(b, n, m) /\ lastGen[b] # n
      BY <1>0, <2>2, SyncNotified
    <2>3. CASE NotNotified(b, n, m)
      <3>1. /\ logFrom' = [logFrom EXCEPT ![b] = m] /\ gap' = [gap EXCEPT ![b] = @ \/ m # logFrom[b]]
            /\ UNCHANGED <<slot, cmds>>
        BY <2>3 DEF NotNotified
      <3>2. \A d \in Buffer : (gap'[d] = gap[d] /\ logFrom'[d] = logFrom[d]) \/ gap'[d]
        BY <1>0, <3>1
      <3>3. \A d \in Buffer : Due(d) \subseteq Dues'[d]
        <4>1. \A d \in Buffer : Due(d) \subseteq Texts
          BY <1>0, TextNumbers DEF Due
        <4> QED
          BY <3>2, <4>1, DueFacts
      <3> QED
        BY <1>0, <3>1, <3>3, SyncSilent
    <2> QED
      BY <2>1, <2>2, <2>3 DEF TextChange
  <1>6. ASSUME NEW b \in Buffer, NEW k \in {0, 1}, Save(b, k) PROVE SyncInv'
    <2> DEFINE n == text[b] + k
               d == FullCmd(b, n)
               a == SaveCmd(b)
    <2>0. n \in 0..MaxEdit
      BY <1>0, <1>6, BoundsNat DEF Save, Changing
    <2>1. /\ Send(<<d, a>>) /\ UNCHANGED slot
          /\ logFrom' = [logFrom EXCEPT ![b] = n] /\ gap' = [gap EXCEPT ![b] = FALSE]
      BY <1>6 DEF Save
    <2> HIDE DEF n
    <2>2. /\ d \in Cmds /\ d.t = "full" /\ d.b = b /\ d.text = n
          /\ a \in Cmds /\ a.t = "save" /\ a.b = b
      BY <2>0, LspBounds, CommandsTyped DEF FullCmd, SaveCmd
    <2> HIDE DEF d, a
    <2>3. cmds' = Append(Append(cmds, d), a)
      BY <1>0, <2>1, <2>2, SendTwo DEF Send
    <2>4. \A c \in Buffer : c # b => ~Concerns(d, c) /\ ~Concerns(a, c)
      BY <2>2 DEF Concerns
    <2>5. /\ \A c \in Buffer : c # b => gap'[c] = gap[c] /\ logFrom'[c] = logFrom[c]
          /\ ~gap'[b] /\ logFrom'[b] = n
      BY <1>0, <2>1
    <2>6. \A T \in Texts : Passes(d, b, T) \in {n, Gone}
      BY <2>2 DEF Passes, Concerns, After
    <2>7. \A T \in Texts : T \in {n, Gone} => Passes(a, b, T) \in Dues'[b]
      BY <2>2, <2>5, DueFacts DEF Passes
    <2> QED
      BY <1>0, <2>1, <2>2, <2>3, <2>4, <2>5, <2>6, <2>7, SyncSendsTwo
  <1>7. ASSUME NEW b \in Buffer, Request(b) PROVE SyncInv'
    <2> DEFINE a == RequestCmd(b, nextReq)
    <2>0. nextReq \in Req
      BY <1>7, BoundsNat DEF Request, LspTyped, RequestsTyped, Req
    <2>1. Send(<<a>>) /\ UNCHANGED <<slot, logFrom, gap>>
      BY <1>7 DEF Request
    <2>2. a \in Cmds /\ a.t = "request" /\ a.b = b
      BY <2>0, LspBounds, CommandsTyped DEF RequestCmd
    <2> HIDE DEF a
    <2>3. cmds' = Append(cmds, a)
      BY <1>0, <2>1, <2>2, SendOne DEF Send
    <2>4. \A d \in Buffer : d # b => ~Concerns(a, d)
      BY <2>2 DEF Concerns
    <2>5. \A T \in Texts : T \in Due(b) => Passes(a, b, T) \in Dues'[b]
      BY <2>1, <2>2, DueFacts DEF Passes
    <2>6. \A d \in Buffer : slot'[d] \in File => slot[d] \in File \/ slot[d] = "unused"
      BY <2>1
    <2> QED
      BY <1>0, <2>1, <2>2, <2>3, <2>4, <2>5, <2>6, SyncSends
  <1>8. ASSUME Quit PROVE SyncInv'
    <2>1. UNCHANGED <<slot, logFrom, gap>> /\ cmds' = cmds \o <<ShutdownCmd>>
      BY <1>8 DEF Quit, Send
    <2>2. /\ <<ShutdownCmd>> \in Seq(Cmds)
          /\ \A i \in DOMAIN <<ShutdownCmd>> : <<ShutdownCmd>>[i].t = "shutdown"
      BY DEF Cmds, OtherCmds, ShutdownCmd
    <2> QED
      BY <1>0, <2>1, <2>2, SyncSignals
  <1> QED
    BY <1>1, <1>2, <1>3, <1>4, <1>5, <1>6, <1>7, <1>8, UserCases

\* A command is taken: what a text led to, what the command makes of it leads
\* to, and so does the text of an attach.
LEMMA SyncTake ==
    ASSUME LspTyped, SyncInv, NEW t, Takes(t), UNCHANGED <<slot, logFrom, gap>>
    PROVE  /\ \A b \in Buffer : slot[b] \in File => Tells(cmds', b, Due(b))
           /\ \A b \in Buffer : \A E :
                Leads(cmds, b, E, 0, Due(b)) =>
                  Leads(cmds', b, Passes(Head(cmds), b, E), 0, Due(b))
           /\ \A b \in Buffer :
                slot[b] \in File /\ t = "attach" /\ Head(cmds).b = b =>
                  Leads(cmds', b, Head(cmds).text, 0, Due(b))
  <1>1. /\ cmds \in Seq(Cmds) /\ cmds # <<>> /\ cmds' = Tail(cmds) /\ Head(cmds) = cmds[1]
        /\ 1 \in DOMAIN cmds /\ cmds[1].t = t
    BY TakesFacts DEF LspTyped, ChannelsTyped
  <1>2. ASSUME NEW b \in Buffer
        PROVE  /\ \A E : \A j \in 0..Len(cmds') :
                    Leads(cmds, b, E, j + 1, Due(b)) => Leads(cmds', b, E, j, Due(b))
               /\ \A E : Leads(cmds, b, E, 0, Due(b)) =>
                    Leads(cmds', b, Passes(cmds[1], b, E), 0, Due(b))
    BY <1>1, LeadsTail
  <1>3. ASSUME NEW b \in Buffer, slot[b] \in File
        PROVE  Tells(cmds, b, Due(b))
    BY <1>3, DueFacts DEF SyncInv, Synced
  <1>4. ASSUME NEW b \in Buffer, slot[b] \in File, NEW j \in DOMAIN cmds',
               cmds'[j].t = "attach", cmds'[j].b = b
        PROVE  Leads(cmds', b, cmds'[j].text, j, Due(b))
    <2>1. j \in 0..Len(cmds') /\ j + 1 \in DOMAIN cmds /\ cmds'[j] = cmds[j + 1]
      BY <1>1, ToSetTail
    <2> QED
      BY <1>2, <1>3, <1>4, <2>1 DEF Tells
  <1>5. ASSUME NEW b \in Buffer, slot[b] \in File, t = "attach", cmds[1].b = b
        PROVE  Leads(cmds', b, cmds[1].text, 0, Due(b))
    <2>1. Leads(cmds, b, cmds[1].text, 1, Due(b))
      BY <1>1, <1>3, <1>5 DEF Tells
    <2>2. 0 \in 0..Len(cmds') /\ 0 + 1 = 1
      BY <1>1, ToSetTail
    <2> QED
      BY <1>2, <2>1, <2>2
  <1> QED
    BY <1>1, <1>2, <1>4, <1>5 DEF Tells

LEMMA SyncStep ==
    ASSUME LspTyped, ServerInv, OrderInv, DocumentInv, SyncInv, Next
    PROVE  SyncInv'
  <1>0. /\ ChannelsTyped /\ cmds \in Seq(Cmds) /\ left \subseteq Buffer
        /\ attached \in [Buffer -> Nat] /\ rt \in Awaits
        /\ uri \in [Buffer -> File \cup {"none"}]
        /\ \A b \in Buffer : attached[b] > 0 => uri[b] \in File
        /\ (servers # 0 => servers \in Proc) /\ 0 \notin Proc
        /\ proc \in [Proc -> {"none", "starting", "up", "exiting", "doomed", "dead"}]
        /\ doc \in [Proc -> [File -> Copies]]
    BY BoundsNat DEF LspTyped, ChannelsTyped, RuntimeTyped, ProcessesTyped, AppTyped, Proc
  <1>l. \A b \in Buffer : slot[b] \in File => b \notin left
    BY LspBounds DEF OrderInv, Quiet, LspBounds
  <1>s. \A b \in Buffer : slot[b] \in File =>
          /\ ServerUp /\ attached[b] > 0 =>
               Leads(cmds, b, doc[servers][uri[b]].text, 0, Due(b))
          /\ rt.op = "handshake" /\ rt.cmd.b = b =>
               Leads(cmds, b, rt.cmd.text, 0, Due(b))
    BY DueFacts DEF SyncInv, Synced
  <1>d. ASSUME UNCHANGED <<logFrom, gap>> PROVE \A b \in Buffer : Dues'[b] = Due(b)
    BY <1>d, DueFacts
  \* What is to be shown once the application is left alone.
  <1>g. ASSUME UNCHANGED <<slot, logFrom, gap>>, \A b \in Buffer : slot[b] \in File => Tells(cmds', b, Due(b)),
               \A b \in Buffer : slot[b] \in File =>
                 /\ ServerUp' /\ attached'[b] > 0 =>
                      Leads(cmds', b, doc'[servers'][uri'[b]].text, 0, Due(b))
                 /\ rt'.op = "handshake" /\ rt'.cmd.b = b =>
                      Leads(cmds', b, rt'.cmd.text, 0, Due(b))
        PROVE  SyncInv'
    BY <1>d, <1>g DEF SyncInv, Synced, Tells
  \* Nothing is taken, no document written.
  <1>k. ASSUME UNCHANGED <<slot, logFrom, gap, cmds, doc, attached, uri>>,
               ServerUp' => ServerUp /\ servers' = servers,
               rt' = rt \/ rt'.op # "handshake"
        PROVE  SyncInv'
    <2>1. \A b \in Buffer : slot[b] \in File => Tells(cmds', b, Due(b))
      BY <1>k, DueFacts DEF SyncInv, Synced, Tells
    <2> QED
      BY <1>g, <1>k, <1>s, <2>1
  <1>1. ASSUME UserStep PROVE SyncInv'
    BY <1>1, SyncUser
  <1>2. ASSUME Leave PROVE SyncInv'
    <2>1. UNCHANGED <<rtVars, srvVars, slot, logFrom, gap, cmds>>
      BY <1>2 DEF Leave
    <2> QED
      BY <1>k, <2>1 DEF rtVars, srvVars, ServerUp
  <1>3. ASSUME NEW late \in SUBSET seen, Drain(late) PROVE SyncInv'
    <2> DEFINE cs == [k \in 1..Cardinality(Exits(evts)) |-> ExitedCmd]
    <2>1. UNCHANGED <<rtVars, srvVars, slot, logFrom, gap>> /\ cmds' = cmds \o cs
      BY <1>3 DEF Drain, Send
    <2>2. cs \in Seq(Cmds) /\ \A i \in DOMAIN cs : cs[i].t = "exited"
      BY ExitsFinite, ExitBatch DEF LspTyped, ChannelsTyped, ExitedCmd
    <2> HIDE DEF cs
    <2> QED
      BY <2>1, <2>2, SyncSignals
  <1>4. ASSUME AttachIgnored \/ DidSave \/ SendRequest PROVE SyncInv'
    <2>1. PICK t \in {"attach", "save", "request"} : Takes(t)
      BY <1>4 DEF AttachIgnored, DidSave, SendRequest
    <2>2. UNCHANGED <<rtVars, proc, doc, slot, logFrom, gap>>
      BY <1>4 DEF AttachIgnored, DidSave, SendRequest, appVars, srvVars
    <2>3. \A b \in Buffer : \A E : Passes(Head(cmds), b, E) = E
      BY <1>0, <2>1, TakesFacts DEF Passes
    <2>4. /\ \A b \in Buffer : slot[b] \in File => Tells(cmds', b, Due(b))
          /\ \A b \in Buffer : \A E :
               Leads(cmds, b, E, 0, Due(b)) => Leads(cmds', b, E, 0, Due(b))
      BY <2>1, <2>2, <2>3, SyncTake
    <2>5. UNCHANGED <<rt, servers, attached, uri>> /\ (ServerUp' <=> ServerUp)
      BY <2>2 DEF rtVars, ServerUp
    <2> QED
      BY <1>g, <1>s, <2>2, <2>4, <2>5
  <1>5. ASSUME AttachRunning PROVE SyncInv'
    <2> DEFINE x == Head(cmds)
    <2>1. /\ Takes("attach") /\ x.t = "attach" /\ x.b \in Buffer /\ x.f \in File
          /\ servers # 0 /\ rt.op = "idle"
      BY <1>0, <1>5, TakesFacts, CommandFacts DEF AttachRunning
    <2>2. /\ attached' = [attached EXCEPT ![x.b] = 1] /\ uri' = [uri EXCEPT ![x.b] = x.f]
          /\ Write(x.f, [ver |-> 1, text |-> x.text])
          /\ UNCHANGED <<servers, proc, rt, slot, logFrom, gap>>
      BY <1>5 DEF AttachRunning, DidOpen, appVars
    <2>3. \A c \in Buffer \ left : c # x.b /\ attached[c] > 0 => uri[c] # x.f
      BY <2>1, AttachIsAlone
    <2>4. /\ \A i \in Proc, g \in File : i # servers \/ g # x.f => doc'[i][g] = doc[i][g]
          /\ ServerUp => doc'[servers][x.f] = [ver |-> 1, text |-> x.text]
      BY <2>1, <2>2, WriteFacts
    <2>5. ServerUp => doc'[servers][x.f].text = x.text
      BY <2>4
    <2>9. \A b \in Buffer : \A E : Passes(x, b, E) = E
      BY <2>1 DEF Passes
    <2>6. /\ \A b \in Buffer : slot[b] \in File => Tells(cmds', b, Due(b))
          /\ \A b \in Buffer : \A E :
               Leads(cmds, b, E, 0, Due(b)) => Leads(cmds', b, E, 0, Due(b))
          /\ \A b \in Buffer : slot[b] \in File /\ x.b = b =>
               Leads(cmds', b, x.text, 0, Due(b))
      BY <2>1, <2>2, <2>9, SyncTake
    <2> HIDE DEF x
    <2>7. ASSUME NEW b \in Buffer, slot[b] \in File, ServerUp', attached'[b] > 0
          PROVE  Leads(cmds', b, doc'[servers'][uri'[b]].text, 0, Due(b))
      <3>0. ServerUp /\ servers' = servers /\ servers \in Proc
        BY <1>0, <2>1, <2>2, <2>7 DEF ServerUp
      <3>1. CASE b = x.b
        <4>1. uri'[b] = x.f
          BY <1>0, <2>1, <2>2, <3>1
        <4> QED
          BY <2>5, <2>6, <2>7, <3>0, <3>1, <4>1
      <3>2. CASE b # x.b
        <4>1. attached[b] > 0 /\ uri'[b] = uri[b] /\ uri[b] \in File
          BY <1>0, <2>1, <2>2, <2>7, <3>2
        <4>2. uri[b] # x.f
          BY <1>l, <2>3, <2>7, <3>2, <4>1
        <4>3. doc'[servers][uri[b]] = doc[servers][uri[b]]
          BY <2>4, <3>0, <4>1, <4>2
        <4> QED
          BY <1>s, <2>6, <2>7, <3>0, <4>1, <4>3
      <3> QED
        BY <3>1, <3>2
    <2> QED
      BY <1>g, <2>1, <2>2, <2>6, <2>7
  <1>6. ASSUME AttachSpawn PROVE SyncInv'
    <2>1. /\ Takes("attach") /\ servers' = 0 /\ UNCHANGED <<slot, logFrom, gap>>
          /\ rt'.op = "handshake" /\ rt'.cmd = Head(cmds)
      BY <1>6 DEF AttachSpawn, appVars
    <2>2. /\ \A b \in Buffer : slot[b] \in File => Tells(cmds', b, Due(b))
          /\ \A b \in Buffer : slot[b] \in File /\ Head(cmds).b = b =>
               Leads(cmds', b, Head(cmds).text, 0, Due(b))
      BY <2>1, SyncTake
    <2> QED
      BY <1>g, <2>1, <2>2 DEF ServerUp
  <1>7. ASSUME Detach PROVE SyncInv'
    <2> DEFINE x == Head(cmds)
    <2>1. Takes("detach") /\ x.t = "detach" /\ x.b \in Buffer \ left /\ rt.op = "idle"
      BY <1>0, <1>7, TakesFacts, TakesNotLeft DEF Detach
    <2>2. /\ attached' = [attached EXCEPT ![x.b] = 0] /\ UNCHANGED <<uri, slot, logFrom, gap>>
          /\ IF attached[x.b] = 0 THEN doc' = doc ELSE Write(uri[x.b], Closed)
          /\ UNCHANGED <<servers, proc, rt>> \/ servers' = 0
          /\ rt' = rt \/ rt' = [op |-> "stopping", i |-> servers]
      BY <1>7 DEF Detach, appVars
    <2>3. /\ \A b \in Buffer : slot[b] \in File => Tells(cmds', b, Due(b))
          /\ \A b \in Buffer : \A E :
               b # x.b /\ Leads(cmds, b, E, 0, Due(b)) => Leads(cmds', b, E, 0, Due(b))
      <3>1. \A b \in Buffer : \A E : b # x.b => Passes(x, b, E) = E
        BY DEF Passes, Concerns
      <3> QED
        BY <2>1, <2>2, <3>1, SyncTake
    <2>4. rt'.op # "handshake"
      BY <2>1, <2>2
    <2> HIDE DEF x
    <2>5. ASSUME NEW b \in Buffer, slot[b] \in File, ServerUp', attached'[b] > 0
          PROVE  Leads(cmds', b, doc'[servers'][uri'[b]].text, 0, Due(b))
      <3>1. ServerUp /\ servers' = servers /\ servers \in Proc
        BY <1>0, <2>2, <2>5 DEF ServerUp
      <3>2. b # x.b /\ attached[b] > 0 /\ uri[b] \in File
        BY <1>0, <2>1, <2>2, <2>5
      <3>3. doc'[servers][uri[b]] = doc[servers][uri[b]]
        <4>1. CASE attached[x.b] = 0
          BY <2>2, <4>1
        <4>2. CASE attached[x.b] # 0
          <5>1. attached[x.b] > 0 /\ uri[x.b] \in File /\ Write(uri[x.b], Closed)
            BY <1>0, <2>1, <2>2, <4>2
          <5>2. uri[b] # uri[x.b]
            BY <1>l, <2>1, <2>5, <3>2, <5>1 DEF DocumentInv, NoSharedFile
          <5> QED
            BY <3>1, <3>2, <5>1, <5>2, WriteFacts
        <4> QED
          BY <4>1, <4>2
      <3> QED
        BY <1>s, <2>2, <2>3, <2>5, <3>1, <3>2, <3>3
    <2> QED
      BY <1>g, <2>2, <2>3, <2>4, <2>5
  <1>8. ASSUME Change PROVE SyncInv'
    <2> DEFINE x == Head(cmds)
               v == attached[x.b] + 1
               n == After(x, doc[servers][uri[x.b]].text)
               d == [ver |-> v, text |-> n]
    <2>1. PICK t \in {"full", "incr"} : Takes(t)
      BY <1>8 DEF Change
    <2>2. x.t = t /\ x.b \in Buffer \ left /\ rt.op = "idle"
      BY <1>0, <2>1, TakesFacts, TakesNotLeft
    <2>3. /\ attached' = [attached EXCEPT ![x.b] = IF @ = 0 THEN 0 ELSE v]
          /\ IF attached[x.b] = 0 \/ servers = 0 THEN doc' = doc ELSE Write(uri[x.b], d)
          /\ UNCHANGED <<servers, uri, proc, rt, slot, logFrom, gap>>
      BY <1>8 DEF Change, appVars
    <2>4. /\ \A b \in Buffer : slot[b] \in File => Tells(cmds', b, Due(b))
          /\ \A b \in Buffer : \A E :
               Leads(cmds, b, E, 0, Due(b)) => Leads(cmds', b, Passes(x, b, E), 0, Due(b))
      BY <2>1, <2>3, SyncTake
    <2>5. /\ \A b \in Buffer : b # x.b => \A E : Passes(x, b, E) = E
          /\ \A E \in 0..Garbled : Passes(x, x.b, E) = After(x, E)
      BY <2>2, TextNumbers DEF Passes, Concerns
    <2>6. d.text = n
      OBVIOUS
    <2>7. n = After(x, doc[servers][uri[x.b]].text)
      OBVIOUS
    <2> HIDE DEF x, v, n, d
    <2>8. ASSUME NEW b \in Buffer, slot[b] \in File, ServerUp', attached'[b] > 0
          PROVE  Leads(cmds', b, doc'[servers'][uri'[b]].text, 0, Due(b))
      <3>1. ServerUp /\ servers' = servers /\ servers \in Proc /\ servers # 0
        BY <1>0, <2>3, <2>8 DEF ServerUp
      <3>2. CASE b = x.b
        <4>1. attached[b] > 0
          BY <1>0, <2>2, <2>3, <2>8, <3>2
        <4>2. uri[b] \in File /\ Write(uri[b], d)
          BY <1>0, <2>3, <3>1, <3>2, <4>1
        <4>3. doc'[servers][uri[b]].text = n
          BY <2>6, <3>1, <4>2, WriteFacts
        <4>4. doc[servers][uri[b]].text \in 0..Garbled
          BY <1>0, <3>1, <4>2 DEF Copies
        <4>5. Passes(x, b, doc[servers][uri[b]].text) = n
          BY <2>5, <2>7, <3>2, <4>4
        <4>6. Leads(cmds, b, doc[servers][uri[b]].text, 0, Due(b))
          BY <1>s, <2>8, <3>1, <4>1
        <4>7. Leads(cmds', b, n, 0, Due(b))
          BY <2>4, <4>5, <4>6
        <4> QED
          BY <2>3, <3>1, <4>3, <4>7
      <3>3. CASE b # x.b
        <4>1. attached[b] > 0 /\ uri[b] \in File
          BY <1>0, <2>2, <2>3, <2>8, <3>3
        <4>2. doc'[servers][uri[b]] = doc[servers][uri[b]]
          <5>1. CASE attached[x.b] = 0
            BY <2>3, <5>1
          <5>2. CASE attached[x.b] # 0
            <6>1. attached[x.b] > 0 /\ uri[x.b] \in File /\ Write(uri[x.b], d)
              BY <1>0, <2>2, <2>3, <3>1, <5>2
            <6>2. uri[b] # uri[x.b]
              BY <1>l, <2>2, <2>8, <3>3, <4>1, <6>1 DEF DocumentInv, NoSharedFile
            <6> QED
              BY <3>1, <4>1, <6>1, <6>2, WriteFacts
          <5> QED
            BY <5>1, <5>2
        <4>3. Leads(cmds, b, doc[servers][uri[b]].text, 0, Due(b))
          BY <1>s, <2>8, <3>1, <4>1
        <4>4. Leads(cmds', b, doc[servers][uri[b]].text, 0, Due(b))
          BY <2>4, <2>5, <3>3, <4>3
        <4> QED
          BY <2>3, <3>1, <4>2, <4>4
      <3> QED
        BY <3>2, <3>3
    <2> QED
      BY <1>g, <2>2, <2>3, <2>4, <2>8
  <1>9. ASSUME ServerExited \/ ShutdownAll PROVE SyncInv'
    <2>1. PICK t \in {"exited", "shutdown"} : Takes(t)
      BY <1>9 DEF ServerExited, ShutdownAll
    <2>2. servers' = 0 /\ rt'.op # "handshake" /\ UNCHANGED <<slot, logFrom, gap>>
      BY <1>0, <1>9, <2>1, TakesFacts DEF ServerExited, ShutdownAll, appVars
    <2>3. \A b \in Buffer : slot[b] \in File => Tells(cmds', b, Due(b))
      BY <2>1, <2>2, SyncTake
    <2> QED
      BY <1>g, <2>2, <2>3 DEF ServerUp
  <1>10. ASSUME Stopped \/ ThreadEnds \/ HandshakeFails PROVE SyncInv'
    <2>1. /\ rt.op \in {"stopping", "quitting", "handshake"} /\ rt'.op # "handshake"
          /\ UNCHANGED <<slot, logFrom, gap, cmds, doc, attached, uri, servers>>
      BY <1>10 DEF Stopped, ThreadEnds, HandshakeFails, srvVars, appVars, Idle
    <2>2. servers = 0
      BY <2>1 DEF ServerInv, EntryHolds
    <2> QED
      BY <1>k, <2>1, <2>2 DEF ServerUp
  <1>11. ASSUME HandshakeOk PROVE SyncInv'
    <2> DEFINE x == rt.cmd
               d == [ver |-> 1, text |-> x.text]
    <2>1. rt.op = "handshake" /\ rt.i \in Proc /\ x.b \in Buffer /\ x.f \in File
      BY <1>0, <1>11, AwaitFacts DEF HandshakeOk
    <2>2. /\ servers' = rt.i /\ doc' = [doc EXCEPT ![rt.i][x.f] = d] /\ rt' = Idle
          /\ attached' = [attached EXCEPT ![x.b] = 1] /\ uri' = [uri EXCEPT ![x.b] = x.f]
          /\ UNCHANGED <<slot, logFrom, gap, cmds>>
      BY <1>11 DEF HandshakeOk, appVars
    <2>3. d.text = x.text /\ rt'.op # "handshake"
      BY <2>2 DEF Idle
    <2>4. \A b \in Buffer : rt.cmd.b = b /\ slot[b] \in File =>
            Leads(cmds, b, x.text, 0, Due(b))
      BY <1>s, <2>1
    <2>5. \A b \in Buffer : attached[b] = 0
      BY <2>1 DEF ServerInv, EntryHolds, AttachmentsHold
    <2>6. doc'[rt.i][x.f].text = x.text
      BY <1>0, <2>1, <2>2, <2>3
    <2>7. /\ uri'[x.b] = x.f /\ \A b \in Buffer : attached'[b] > 0 => b = x.b
      BY <1>0, <2>1, <2>2, <2>5
    <2>8. \A b \in Buffer : slot[b] \in File => Tells(cmds', b, Due(b))
      BY <2>2, DueFacts DEF SyncInv, Synced, Tells
    <2> QED
      BY <1>g, <2>2, <2>3, <2>4, <2>6, <2>7, <2>8
  <1>12. ASSUME NEW i \in Proc, Dies(i) \/ Kill(i) PROVE SyncInv'
    <2>1. proc' = [proc EXCEPT ![i] = "dead"] /\ UNCHANGED <<rtVars, doc, slot, logFrom, gap, cmds>>
      BY <1>12 DEF Dies, Kill, Reap, appVars
    <2>2. ServerUp' => ServerUp /\ servers' = servers
      BY <1>0, <2>1 DEF ServerUp, rtVars
    <2> QED
      BY <1>k, <2>1, <2>2 DEF rtVars
  <1>13. ASSUME NEW i \in Proc, NEW r \in Req \cup {Internal}, Answer(i, r) PROVE SyncInv'
    <2>1. UNCHANGED <<rtVars, doc, proc, slot, logFrom, gap, cmds>>
      BY <1>13 DEF Answer, appVars
    <2> QED
      BY <1>k, <2>1 DEF rtVars, ServerUp
  <1> QED
    BY <1>1, <1>2, <1>3, <1>4, <1>5, <1>6, <1>7, <1>8, <1>9, <1>10, <1>11, <1>12, <1>13
      DEF Next, RuntimeStep
-----------------------------------------------------------------------------
(* The theorems *)

LEMMA LspInvInit == Init => LspInv
  BY TypedInit, ServerInit, OrderInit, DocumentInit, SyncInit DEF LspInv

\* Nothing changes in a stuttering step.
LEMMA LspInvStutter == ASSUME LspInv, UNCHANGED vars PROVE LspInv'
  <1>0. UNCHANGED <<app, slot, text, lspState, cmds, evts, rt, servers, attached,
                    uri, proc, doc, logFrom, gap, left>>
    BY DEF vars, appVars, rtVars, srvVars
  <1>1. LspTyped'
    BY TypedStep DEF LspInv
  <1>2. EntryHolds' /\ AttachmentsHold'
    BY <1>0 DEF LspInv, ServerInv, EntryHolds, AttachmentsHold
  <1>3. Believes' <=> Believes
    BY <1>0 DEF Believes, StateAfter
  <1>4. ExitComing' <=> ExitComing
    BY <1>0 DEF ExitComing
  <1>5. NewsOnTheWay'
    BY <1>0, <1>3, <1>4 DEF LspInv, ServerInv, NewsOnTheWay
  <1>6. NoServerLeaks'
    BY <1>0 DEF LspInv, ServerInv, NoServerLeaks, Alive
  <1>7. Held' = Held
    BY <1>0 DEF Held
  <1>8. OrderInv'
    BY <1>0, <1>7 DEF LspInv, OrderInv
  <1>9. DocumentInv'
    BY <1>0, DocumentFrame DEF LspInv, ServerUp
  <1>10. SyncInv'
    <2>1. UNCHANGED <<rtVars, srvVars, slot, cmds>>
      BY DEF vars, appVars
    <2>2. \A d \in Buffer : Due(d) \subseteq Dues'[d]
      BY <1>0, DueFacts
    <2> QED
      BY <2>1, <2>2, SyncSilent DEF LspInv
  <1> QED
    BY <1>1, <1>2, <1>5, <1>6, <1>8, <1>9, <1>10 DEF LspInv, ServerInv

LEMMA LspInvNext == LspInv /\ [Next]_vars => LspInv'
  <1>1. ASSUME LspInv, Next PROVE LspInv'
    BY <1>1, TypedStep, ServerStep, OrderStep, DocumentStep, SyncStep DEF LspInv
  <1> QED
    BY <1>1, LspInvStutter

\* The inductive invariant: what the channels hold, and in which order, makes
\* up for what the application, the dispatcher and the server do not know of
\* one another (lsp_glue.rs, runtime.rs, server.rs).
THEOREM LspInvariant == Spec => []LspInv
  BY LspInvInit, LspInvNext, PTL DEF Spec

\* The state of the three threads keeps its types; a request id stays below the
\* next one to be handed out.
THEOREM LspTypes == Spec => []LspTypeOK
  <1>1. LspInv => LspTypeOK
    BY TypedImplies DEF LspInv
  <1> QED
    BY <1>1, LspInvariant, PTL

\* No process is ever without a hand on it: entered under the key, awaited by
\* the dispatcher, or about to be killed by its wait task.
THEOREM LspNoServerLeaks == Spec => []NoServerLeaks
  <1>1. LspInv => NoServerLeaks
    BY DEF LspInv, ServerInv
  <1> QED
    BY <1>1, LspInvariant, PTL

-----------------------------------------------------------------------------
\* With empty channels the belief is the state, and no exit is coming.
LEMMA NothingComing ==
    ASSUME StateTyped, cmds = <<>>, evts = <<>>
    PROVE  (Believes <=> lspState) /\ ~ExitComing
  <1>1. Exits(cmds) = {} /\ Exits(evts) = {}
    BY DEF Exits
  <1>2. DOMAIN evts = {}
    OBVIOUS
  <1> QED
    BY <1>1, <1>2 DEF Believes, StateAfter, ExitComing, StateTyped

LEMMA QuietViewsAgree == LspInv => ViewsAgree
  <1> SUFFICES ASSUME LspInv, app = "up", cmds = <<>>, evts = <<>>, rt = Idle,
                      ~(\E i \in Proc : proc[i] = "doomed")
               PROVE  /\ lspState <=> servers # 0
                      /\ servers # 0 => proc[servers] = "up" /\ \E b \in Buffer : attached[b] > 0
                      /\ servers = 0 => \A b \in Buffer : attached[b] = 0
    BY DEF ViewsAgree
  <1>0. (Believes <=> lspState) /\ ~ExitComing
    BY NothingComing DEF LspInv, LspTyped
  <1>1. rt.op = "idle"
    BY DEF Idle
  <1>2. servers \in 0..MaxSpawn
    BY DEF LspInv, LspTyped, RuntimeTyped
  <1>3. \A i \in Proc : proc[i] # "exiting"
    <2> SUFFICES ASSUME NEW i \in Proc, proc[i] = "exiting" PROVE FALSE
      OBVIOUS
    <2>1. servers = i
      BY <1>1 DEF LspInv, ServerInv, NoServerLeaks, Alive
    <2>2. proc[i] \in {"up", "dead"}
      BY <1>2, <2>1, BoundsNat DEF LspInv, ServerInv, EntryHolds, Proc
    <2> QED
      BY <2>2
  <1>4. servers # 0 => proc[servers] = "up"
    BY <1>0 DEF LspInv, ServerInv, EntryHolds, NewsOnTheWay
  <1>5. lspState => servers # 0
    BY <1>0, <1>1, <1>3 DEF LspInv, ServerInv, NewsOnTheWay
  <1>6. servers # 0 => lspState
    BY <1>0 DEF LspInv, ServerInv, NewsOnTheWay
  <1>7. /\ servers # 0 => \E b \in Buffer : attached[b] > 0
        /\ servers = 0 => \A b \in Buffer : attached[b] = 0
    BY <1>1 DEF LspInv, ServerInv, AttachmentsHold
  <1> QED
    BY <1>4, <1>5, <1>6, <1>7

\* The two threads never stay in disagreement: once the channels are empty and
\* the dispatcher is idle, lsp_state holds the key exactly when `servers` has a
\* running process for it, and buffers are attached only then.
THEOREM LspViewsAgree == Spec => []ViewsAgree
  BY QuietViewsAgree, LspInvariant, PTL

-----------------------------------------------------------------------------
LEMMA SettledInSync == LspInv => DocumentsInSync
  <1> SUFFICES ASSUME LspInv, NEW b \in Buffer, IsOpen(b), Settled(b), attached[b] > 0,
                      ~gap[b], servers # 0, proc[servers] = "up"
               PROVE  doc[servers][slot[b]].text = logFrom[b]
    BY DEF DocumentsInSync
  <1>1. slot[b] \in File /\ slot[b] \notin {"unused", "closed"}
    BY LspBounds DEF IsOpen, LspBounds
  <1>2. uri[b] \in File
    BY DEF LspInv, LspTyped, RuntimeTyped
  <1>3. b \notin left
    BY <1>1 DEF LspInv, OrderInv, Quiet
  <1>4. <<b, uri[b]>> \in Held
    BY <1>2, HeldFacts
  <1>5. uri[b] = slot[b]
    BY <1>1, <1>2, <1>3, <1>4 DEF LspInv, OrderInv, Owned
  <1> DEFINE E == doc[servers][uri[b]].text
  <1>6. Leads(cmds, b, E, 0, {logFrom[b], Gone})
    <2>1. Dues[b] = {logFrom[b], Gone}
      BY DueFacts DEF Due
    <2> QED
      BY <1>1, <2>1 DEF LspInv, SyncInv, Synced, ServerUp
  <1>7. cmds \in Seq(Cmds) /\ \A k \in DOMAIN cmds : ~Concerns(cmds[k], b)
    BY DEF Settled, Concerns, LspInv, LspTyped, ChannelsTyped
  <1>8. E \in 0..Garbled
    <2>1. servers \in Proc /\ doc \in [Proc -> [File -> Copies]]
      BY BoundsNat DEF LspInv, LspTyped, RuntimeTyped, ProcessesTyped, Proc
    <2> QED
      BY <1>2, <2>1 DEF Copies
  <1> HIDE DEF E
  \* Nothing on the way is about b: what it leads to, the server has.
  <1>9. E \in {logFrom[b], Gone}
    <2>1. PICK h \in [0..Len(cmds) -> Texts] :
            h[0] = E /\ h[Len(cmds)] \in {logFrom[b], Gone} /\ Steady(cmds, b, h, 0)
      BY <1>6 DEF Leads
    <2>2. /\ 0 \in 0..Len(cmds) /\ Len(cmds) \in 0..Len(cmds) /\ 0 <= Len(cmds)
          /\ \A m \in (0 + 1)..Len(cmds) : m \in DOMAIN cmds
      BY <1>7
    <2>3. h[0] = h[Len(cmds)]
      BY <1>7, <2>1, <2>2 DEF Steady
    <2> QED
      BY <2>1, <2>3
  <1> QED
    BY <1>5, <1>8, <1>9, TextNumbers DEF E

\* The server holds the text that the edits in the log are made on, for every
\* attached buffer whose commands have been handled, however opens, closes,
\* restarts, edits and crashes interleave (lsp_notify_change_for_slot,
\* handle_notify_change_incremental); a text replaced, or edits lost, without
\* a word are made good by the next whole text.
THEOREM LspDocumentsInSync == Spec => []DocumentsInSync
  BY SettledInSync, LspInvariant, PTL

-----------------------------------------------------------------------------
\* A legal message about file f to process i.
LegalStep(i, f) ==
  doc'[i][f] # doc[i][f] =>
    /\ proc[i] \in {"starting", "up"}
    /\ \/ doc'[i][f] = Closed
       \/ doc[i][f] = Closed /\ doc'[i][f].ver = 1
       \/ doc[i][f] # Closed /\ doc'[i][f].ver = doc[i][f].ver + 1
       \/ doc'[i][f].ver = 1 /\ \E b \in left : uri[b] = f

LEMMA UserLeavesDocuments == ASSUME UserStep PROVE UNCHANGED doc
  BY DEF UserStep, Open, OpenAborted, Close, Restart, SetFiletype, Request,
    Edit, TimeTravel, Key, WorkspaceEdit, Formatted, ExEdit, ExTimeTravel, Replace,
    ConfirmSubstitute, Save, SaveFails, Notified, NotNotified, Quit, srvVars

LEMMA ProtocolStep ==
    ASSUME LspInv, Next, NEW i \in Proc, NEW f \in File
    PROVE  LegalStep(i, f)
  <1>0. LspTyped /\ OrderInv /\ DocumentInv /\ ServerInv
    BY DEF LspInv
  <1>1. CASE UNCHANGED doc
    BY <1>1 DEF LegalStep
  <1>2. CASE AttachRunning
    <2> DEFINE x == Head(cmds)
    <2>1. Takes("attach") /\ attached[x.b] = 0 /\ Write(x.f, [ver |-> 1, text |-> x.text])
      BY <1>2 DEF AttachRunning, DidOpen
    <2>2. x.f \in File /\ x.b \in Buffer
      BY <1>0, <2>1, TakesFacts, CommandFacts DEF LspTyped
    <2>3. \A c \in Buffer \ left : attached[c] > 0 => uri[c] # x.f
      <3>1. ASSUME NEW c \in Buffer \ left, attached[c] > 0 PROVE uri[c] # x.f
        <4>1. c # x.b
          BY <2>1, <3>1
        <4> QED
          BY <1>0, <2>1, <3>1, <4>1, AttachIsAlone
      <3> QED
        BY <3>1
    <2> HIDE DEF x
    <2>4. CASE i = servers /\ f = x.f /\ ServerUp
      <3>1. doc'[i][f].ver = 1
        BY <1>0, <2>1, <2>2, <2>4, WriteFacts
      <3>2. doc[i][f] = Closed \/ \E b \in left : uri[b] = f
        BY <1>0, <2>3, <2>4 DEF DocumentInv, OpenIsAttached
      <3> QED
        BY <2>4, <3>1, <3>2 DEF LegalStep, ServerUp
    <2>5. CASE ~(i = servers /\ f = x.f /\ ServerUp)
      BY <1>0, <2>1, <2>2, <2>5, WriteFacts DEF LegalStep
    <2> QED
      BY <2>4, <2>5
  <1>3. CASE HandshakeOk
    <2> DEFINE y == rt.cmd
    <2>1. rt.op = "handshake" /\ doc' = [doc EXCEPT ![rt.i][y.f] = [ver |-> 1, text |-> y.text]]
      BY <1>3 DEF HandshakeOk
    <2>2. proc[rt.i] = "starting" /\ rt.i \in Proc
      BY <1>0, <2>1, AwaitFacts DEF ServerInv, EntryHolds, LspTyped, RuntimeTyped
    <2>3. \A g \in File : doc[rt.i][g] = Closed
      BY <1>0, <2>2 DEF DocumentInv, FreshIsEmpty
    <2>4. doc \in [Proc -> [File -> Copies]]
      BY <1>0 DEF LspTyped, ProcessesTyped
    <2> HIDE DEF y
    <2>5. doc'[i][f] # doc[i][f] => i = rt.i /\ doc'[i][f].ver = 1
      BY <2>1, <2>2, <2>4
    <2> QED
      BY <2>2, <2>3, <2>5 DEF LegalStep
  <1>4. CASE Detach
    <2> DEFINE b == Head(cmds).b
    <2>1. Takes("detach") /\ (doc' = doc \/ (attached[b] > 0 /\ Write(uri[b], Closed)))
      BY <1>0, <1>4, TakesNotLeft DEF Detach, LspTyped, RuntimeTyped
    <2>2. b \in Buffer
      BY <1>0, <2>1, TakesNotLeft
    <2>3. CASE doc' = doc
      BY <2>3 DEF LegalStep
    <2>4. CASE attached[b] > 0 /\ Write(uri[b], Closed)
      <3>1. uri[b] \in File
        BY <1>0, <2>2, <2>4 DEF LspTyped, RuntimeTyped
      <3>2. doc'[i][f] # doc[i][f] => ServerUp /\ i = servers /\ f = uri[b] /\ doc'[i][f] = Closed
        BY <1>0, <2>4, <3>1, WriteFacts
      <3> QED
        BY <3>2 DEF LegalStep, ServerUp
    <2> QED
      BY <2>1, <2>3, <2>4
  <1>5. CASE Change
    <2> DEFINE x == Head(cmds)
               n == After(x, doc[servers][uri[x.b]].text)
    <2>1. Takes("full") \/ Takes("incr")
      BY <1>5 DEF Change
    <2>2. x.b \in Buffer \ left
      BY <1>0, <2>1, TakesNotLeft
    <2>3. \/ doc' = doc
          \/ attached[x.b] > 0 /\ Write(uri[x.b], [ver |-> attached[x.b] + 1, text |-> n])
      BY <1>0, <1>5, <2>2 DEF Change, LspTyped, RuntimeTyped
    <2> HIDE DEF x, n
    <2>4. CASE doc' = doc
      BY <2>4 DEF LegalStep
    <2>5. CASE attached[x.b] > 0 /\ Write(uri[x.b], [ver |-> attached[x.b] + 1, text |-> n])
      <3>1. uri[x.b] \in File
        BY <1>0, <2>2, <2>5 DEF LspTyped, RuntimeTyped
      <3>2. doc'[i][f] # doc[i][f] =>
              /\ ServerUp /\ i = servers /\ f = uri[x.b]
              /\ doc'[i][f].ver = attached[x.b] + 1
        BY <1>0, <2>5, <3>1, WriteFacts
      <3>3. ServerUp => doc[servers][uri[x.b]].ver = attached[x.b]
        BY <1>0, <2>2, <2>5 DEF DocumentInv, VersionsAgree
      <3>4. Closed.ver = 0
        BY DEF Closed
      <3> QED
        BY <2>5, <3>2, <3>3, <3>4 DEF LegalStep, ServerUp
    <2> QED
      BY <2>3, <2>4, <2>5
  <1>6. Next => UNCHANGED doc \/ AttachRunning \/ HandshakeOk \/ Detach \/ Change
    <2>1. UserStep => UNCHANGED doc
      BY UserLeavesDocuments
    <2>2. RuntimeStep => UNCHANGED doc \/ AttachRunning \/ Detach \/ Change
      BY DEF RuntimeStep, AttachIgnored, AttachSpawn, DidSave, SendRequest, ServerExited,
        ShutdownAll, Stopped, ThreadEnds, srvVars
    <2>3. (\E late \in SUBSET seen : Drain(late)) \/ Leave \/ HandshakeFails => UNCHANGED doc
      BY DEF Drain, Leave, HandshakeFails, srvVars
    <2>4. \A j \in Proc : \/ Dies(j) \/ Kill(j)
                          \/ \E r \in Req \cup {Internal} : Answer(j, r)
                          => UNCHANGED doc
      BY DEF Dies, Kill, Reap, Answer
    <2> QED
      BY <2>1, <2>2, <2>3, <2>4 DEF Next
  <1> QED
    BY <1>1, <1>2, <1>3, <1>4, <1>5, <1>6

\* What reaches a server is a legal conversation (handle_attach,
\* handle_notify_change, handle_detach): a document is opened when it is
\* closed, changed one version at a time while it is open, and only a process
\* that reads is written to; a file opened twice was given up at the prompt.
THEOREM LspDocumentProtocol == Spec => DocumentProtocol
  <1>1. LspInv /\ [Next]_vars => [\A i \in Proc, f \in File : LegalStep(i, f)]_vars
    BY ProtocolStep
  <1>2. [\A i \in Proc, f \in File : LegalStep(i, f)]_vars =>
          [\A i \in Proc, f \in File :
             LET d == doc[i][f]  e == doc'[i][f] IN
             e # d =>
               /\ proc[i] \in {"starting", "up"}
               /\ \/ e = Closed
                  \/ d = Closed /\ e.ver = 1
                  \/ d # Closed /\ e.ver = d.ver + 1
                  \/ e.ver = 1 /\ \E b \in left : uri[b] = f]_vars
    BY DEF LegalStep
  <1> QED
    BY <1>1, <1>2, LspInvariant, PTL DEF Spec, DocumentProtocol
=============================================================================
