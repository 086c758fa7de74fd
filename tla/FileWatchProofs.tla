--------------------------- MODULE FileWatchProofs ---------------------------
(***************************************************************************)
(* A buffer learns what happened to its file, for any number of files, any *)
(* room in the two channels and any number of changes: proofs about        *)
(* FileWatch.                                                              *)
(***************************************************************************)
EXTENDS FileWatch, SequenceTheorems, TLAPS

-----------------------------------------------------------------------------
(***************************************************************************)
(* The inductive invariant.                                                *)
(***************************************************************************)
\* What the two channels carry.
RawEvent ==
  [kind : {"error"}, path : {NoFile}, to : {NoFile}]
    \cup [kind : {"path", "from", "to"}, path : File, to : {NoFile}]
    \cup [kind : {"both"}, path : File, to : File]

FsEvent == {Rescan} \cup [kind : {"path"}, path : File, to : File \cup {NoFile}]

Queued ==
  /\ raw \in Seq(RawEvent)
  /\ events \in Seq(FsEvent)
  /\ worker # "flush" => due = {}

\* An event of es is about f, or about every file.
About(es, f) ==
  \E i \in DOMAIN es : es[i].kind \in {"error", "rescan"} \/ es[i].path = f \/ es[i].to = f

Held(f) == pending[f] # "none" \/ \E p \in File : pending[p] = f

\* Something that will make the event loop look at f is under way.  The flag no
\* longer counts once its Rescan is sent: it is about to be dropped.
OnItsWay(f) ==
  \/ About(raw, f)
  \/ Held(f)
  \/ About(events, f)
  \/ overflow /\ worker # "clear"
  \/ f \in todo

Seen(f) ==
  \/ Known(f)
  \/ f \in missed \cup blind
  \/ OnItsWay(f)
  \/ at = "read" /\ cur = f

\* What was read or stat'ed a step ago is still there, or the change is noticed.
Current == disk[cur] = found \/ cur \in missed \/ OnItsWay(cur)

Phases ==
  /\ at \in {"stat", "read"} => cur \in File /\ Current
  /\ at = "read" => cur \in Open /\ found # Missing
  /\ at \notin {"check", "read"} => todo = {}

\* A buffer whose text is not that of its baseline has a baseline that no file
\* will hold again.
Gone(v) == v # Missing /\ \A g \in File : disk[g] # v
Sound(f) == f \in blind \/ slot[f].text = slot[f].base \/ Gone(slot[f].base)

Past == 1 .. clock \cup {Missing}
Dated ==
  /\ \A f \in File : disk[f] \in Past /\ slot[f].base \in Past
  /\ found \in Past

WatchInv ==
  /\ WatchTypeOK
  /\ Queued
  /\ Phases
  /\ Dated
  /\ \A f \in Open : Seen(f)
  /\ \A f \in Open : Sound(f)

-----------------------------------------------------------------------------
(***************************************************************************)
(* The channels.                                                           *)
(***************************************************************************)
\* A longer queue is still about what it was about, and about what was added.
LEMMA AboutMore ==
    ASSUME NEW S, NEW s \in Seq(S), NEW t \in Seq(S), NEW f
    PROVE  /\ s \o t \in Seq(S)
           /\ Len(s \o t) = Len(s) + Len(t)
           /\ About(s, f) \/ About(t, f) => About(s \o t, f)
  <1>1. s \o t \in Seq(S) /\ Len(s \o t) = Len(s) + Len(t)
    OBVIOUS
  <1>2. /\ \A i \in DOMAIN s : i \in DOMAIN (s \o t) /\ (s \o t)[i] = s[i]
        /\ \A i \in DOMAIN t : Len(s) + i \in DOMAIN (s \o t) /\ (s \o t)[Len(s) + i] = t[i]
    OBVIOUS
  <1> QED
    BY <1>1, <1>2 DEF About

LEMMA AboutAppended ==
    ASSUME NEW S, NEW s \in Seq(S), NEW e \in S, NEW f
    PROVE  /\ Append(s, e) \in Seq(S)
           /\ Len(Append(s, e)) = Len(s) + 1
           /\ About(s, f) => About(Append(s, e), f)
           /\ e.kind = "rescan" \/ e.path = f \/ e.to = f => About(Append(s, e), f)
  <1>1. /\ Append(s, e) \in Seq(S) /\ Len(Append(s, e)) = Len(s) + 1
        /\ \A i \in DOMAIN s : i \in DOMAIN Append(s, e) /\ Append(s, e)[i] = s[i]
        /\ Len(s) + 1 \in DOMAIN Append(s, e) /\ Append(s, e)[Len(s) + 1] = e
    OBVIOUS
  <1> QED
    BY <1>1 DEF About

\* A queue that loses its head is about the rest.
LEMMA AboutTail ==
    ASSUME NEW S, NEW s \in Seq(S), s # <<>>, NEW f
    PROVE  /\ Head(s) \in S
           /\ Tail(s) \in Seq(S)
           /\ Len(Tail(s)) <= Len(s)
           /\ About(s, f) => \/ About(Tail(s), f)
                             \/ Head(s).kind \in {"error", "rescan"}
                             \/ Head(s).path = f \/ Head(s).to = f
  <1>1. /\ Head(s) \in S /\ Tail(s) \in Seq(S) /\ Len(Tail(s)) = Len(s) - 1
        /\ Len(s) \in Nat \ {0}
        /\ Head(s) = s[1]
        /\ DOMAIN s = 1 .. Len(s) /\ DOMAIN Tail(s) = 1 .. (Len(s) - 1)
    OBVIOUS
  <1>2. \A i \in 1 .. (Len(s) - 1) : Tail(s)[i] = s[i + 1]
    OBVIOUS
  <1>3. ASSUME NEW i \in DOMAIN s, i # 1
        PROVE  i - 1 \in DOMAIN Tail(s) /\ Tail(s)[i - 1] = s[i]
    <2>1. i - 1 \in 1 .. (Len(s) - 1) /\ (i - 1) + 1 = i
      BY <1>1, <1>3
    <2> QED
      BY <1>1, <1>2, <2>1
  <1> QED
    BY <1>1, <1>3 DEF About

LEMMA AboutNothing ==
    ASSUME NEW f
    PROVE  ~About(<<>>, f)
  BY DEF About

-----------------------------------------------------------------------------
(***************************************************************************)
(* Where a change is on its way to.                                        *)
(***************************************************************************)
\* What the callback does for the change of the files S.
LEMMA CallbackMarks ==
    ASSUME WatchInv, NEW S \in SUBSET File, NEW es \in Seq(RawEvent),
           watching => \A f \in S : About(es, f),
           Callback(S, es),
           UNCHANGED <<pending, events, worker, todo>>
    PROVE  /\ raw' \in Seq(RawEvent)
           /\ Len(raw') <= RawCap
           /\ overflow' \in BOOLEAN
           /\ missed \subseteq missed'
           /\ \A f \in File : OnItsWay(f) => OnItsWay(f)'
           /\ \A f \in S : f \in Minded => OnItsWay(f)' \/ f \in missed'
  <1> DEFINE some == SubSeq(es, 1, RawCap - Len(raw))
  <1>1. /\ raw \in Seq(RawEvent) /\ Len(raw) \in Nat /\ Len(raw) <= RawCap
        /\ Len(es) \in Nat /\ RawCap \in Nat /\ RawCap - Len(raw) \in Nat
        /\ overflow \in BOOLEAN
    BY WatchBounds DEF WatchInv, WatchTypeOK, Queued
  <1>2. ~Fits(es) => some \in Seq(RawEvent) /\ Len(some) = RawCap - Len(raw)
    <2> SUFFICES ASSUME ~Fits(es)
                 PROVE  some \in Seq(RawEvent) /\ Len(some) = RawCap - Len(raw)
      OBVIOUS
    <2>1. RawCap - Len(raw) < Len(es)
      BY <1>1 DEF Fits
    <2>2. \A i \in 1 .. (RawCap - Len(raw)) : es[i] \in RawEvent
      BY <1>1, <2>1
    <2> QED
      BY <1>1, <2>1, <2>2
  <1> HIDE DEF some
  <1>3. \/ Fits(es) /\ raw' = raw \o es
        \/ ~Fits(es) /\ raw' = raw \o some
    BY DEF Callback, Sent, some
  <1>4. /\ raw' \in Seq(RawEvent)
        /\ Len(raw') <= RawCap
        /\ \A f : About(raw, f) => About(raw', f)
        /\ Fits(es) => \A f : About(es, f) => About(raw', f)
    <2>1. CASE Fits(es) /\ raw' = raw \o es
      BY <1>1, <2>1, AboutMore DEF Fits
    <2>2. CASE ~Fits(es) /\ raw' = raw \o some
      BY <1>1, <1>2, <2>2, AboutMore
    <2> QED
      BY <1>3, <2>1, <2>2
  <1>5. /\ overflow' \in BOOLEAN
        /\ overflow => overflow'
        /\ ~Fits(es) => overflow'
        /\ missed \subseteq missed'
        /\ \/ watching /\ (Fits(es) \/ worker # "clear")
           \/ S \cap Minded \subseteq missed'
    BY <1>1 DEF Callback
  <1>6. \A f \in File : OnItsWay(f) => OnItsWay(f)'
    BY <1>4, <1>5 DEF OnItsWay, Held
  <1>7. ASSUME NEW f \in S, f \in Minded, f \notin missed'
        PROVE  OnItsWay(f)'
    <2>1. watching /\ (Fits(es) \/ worker # "clear")
      BY <1>5, <1>7
    <2> QED
      BY <1>4, <1>5, <2>1 DEF OnItsWay
  <1> QED
    BY <1>4, <1>5, <1>6, <1>7

\* An event for f, or an error.
LEMMA ChangeIsTold ==
    ASSUME NEW f \in File, NEW es \in ChangeEvents(f)
    PROVE  /\ es \in Seq(RawEvent)
           /\ watching => About(es, f)
  <1> DEFINE e == Event("path", f, NoFile)
             x == Event("error", NoFile, NoFile)
  <1>1. e \in RawEvent /\ x \in RawEvent /\ e.path = f /\ x.kind = "error"
    BY DEF Event, RawEvent
  <1>2. \/ watching /\ (es = <<e>> \/ es = <<x>>)
        \/ ~watching /\ es = <<>>
    BY DEF ChangeEvents
  <1> HIDE DEF e, x
  <1>3. ASSUME NEW v \in {e, x}, es = <<v>>
        PROVE  es \in Seq(RawEvent) /\ About(es, f)
    <2>1. es \in Seq(RawEvent) /\ 1 \in DOMAIN es /\ es[1] = v
      BY <1>1, <1>3
    <2> QED
      BY <1>1, <2>1 DEF About
  <1>4. <<>> \in Seq(RawEvent)
    OBVIOUS
  <1>5. CASE watching
    <2>1. PICK v \in {e, x} : es = <<v>>
      BY <1>2, <1>5
    <2> QED
      BY <1>3, <2>1
  <1> QED
    BY <1>2, <1>4, <1>5

LEMMA RenameIsTold ==
    ASSUME NEW f \in File, NEW g \in File, NEW es \in RenameEvents(f, g)
    PROVE  /\ es \in Seq(RawEvent)
           /\ watching => About(es, f) /\ About(es, g)
  <1> DEFINE b == Event("both", f, g)
             x == Event("from", f, NoFile)
             y == Event("to", g, NoFile)
  <1>1. /\ b \in RawEvent /\ x \in RawEvent /\ y \in RawEvent
        /\ b.path = f /\ b.to = g /\ x.path = f /\ y.path = g
    BY DEF Event, RawEvent
  <1>2. \/ watching /\ (es = <<b>> \/ es = <<x, y>>)
        \/ ~watching /\ es = <<>>
    BY DEF RenameEvents
  <1> HIDE DEF b, x, y
  <1>3. CASE watching /\ es = <<x, y>>
    <2>1. es \in Seq(RawEvent) /\ 1 \in DOMAIN es /\ 2 \in DOMAIN es /\ es[1] = x /\ es[2] = y
      BY <1>1, <1>3
    <2> QED
      BY <1>1, <2>1 DEF About
  <1>4. CASE watching /\ es = <<b>>
    <2>1. es \in Seq(RawEvent) /\ 1 \in DOMAIN es /\ es[1] = b
      BY <1>1, <1>4
    <2> QED
      BY <1>1, <2>1 DEF About
  <1>5. <<>> \in Seq(RawEvent)
    OBVIOUS
  <1> QED
    BY <1>2, <1>3, <1>4, <1>5

\* A change of the disk: the files of S hold something else, and what no file
\* held stays gone.
LEMMA WorldStep ==
    ASSUME WatchInv, NEW S \in SUBSET File, NEW es \in Seq(RawEvent),
           watching => \A f \in S : About(es, f),
           Callback(S, es),
           UNCHANGED <<pending, due, events, worker, todo, slot, blind>>,
           clock' = clock + 1,
           \A f \in File \ S : disk'[f] = disk[f],
           \A f \in File : disk'[f] \in {disk[g] : g \in File} \cup {clock + 1, Missing}
    PROVE  /\ Queued'
           /\ \A f \in File : disk'[f] \in Past' /\ slot'[f].base \in Past'
           /\ Past \subseteq Past'
           /\ (\A f \in Open : Sound(f))'
           /\ (at' = at /\ cur' = cur) \/ (at = "idle" /\ at' = "stat") => (\A f \in Open : Seen(f))'
           /\ at' = at /\ cur' = cur /\ found' = found /\ at \in {"stat", "read"} => Current'
  <1>1. /\ raw' \in Seq(RawEvent)
        /\ Len(raw') <= RawCap
        /\ missed \subseteq missed'
        /\ \A f \in File : OnItsWay(f) => OnItsWay(f)'
        /\ \A f \in S : f \in Minded => OnItsWay(f)' \/ f \in missed'
    BY CallbackMarks
  <1>2. Queued'
    BY <1>1 DEF WatchInv, Queued
  <1>3. /\ clock \in Nat /\ clock + 1 \in Past' /\ clock + 1 \notin Past
        /\ Past \subseteq Past' /\ Missing \in Past'
    BY WatchBounds DEF WatchInv, WatchTypeOK, Version, Past
  <1>4. \A f \in File : disk'[f] \in Past' /\ slot'[f].base \in Past'
    BY <1>3 DEF WatchInv, Dated
  <1>5. \A v \in Past : Gone(v) => Gone(v)'
    BY <1>3 DEF Gone
  <1>6. Open' = Open
    BY DEF Open
  <1>7. (\A f \in Open : Sound(f))'
    BY <1>5, <1>6 DEF WatchInv, Sound, Dated, Open
  <1>8. ASSUME NEW f \in Open, (at' = at /\ cur' = cur) \/ (at = "idle" /\ at' = "stat")
        PROVE  Seen(f)'
    <2>1. Seen(f) /\ f \in File /\ f \in Minded
      BY DEF WatchInv, Open, Minded
    <2>2. CASE f \in S
      BY <1>1, <2>1, <2>2 DEF Seen
    <2>3. CASE f \notin S
      <3>1. Known(f)' <=> Known(f)
        BY <2>1, <2>3 DEF Known
      <3> QED
        BY <1>1, <1>8, <2>1, <3>1 DEF Seen
    <2> QED
      BY <2>2, <2>3
  <1>9. ASSUME at' = at, cur' = cur, found' = found, at \in {"stat", "read"}
        PROVE  Current'
    <2>1. Current /\ cur \in File /\ cur \in Minded
      BY <1>9 DEF WatchInv, Phases, Minded
    <2>2. CASE cur \in S
      BY <1>1, <1>9, <2>1, <2>2 DEF Current, OnItsWay, Held
    <2>3. CASE cur \notin S
      BY <1>1, <1>9, <2>1, <2>3 DEF Current, OnItsWay, Held
    <2> QED
      BY <2>2, <2>3
  <1> QED
    BY <1>2, <1>3, <1>4, <1>6, <1>7, <1>8, <1>9

-----------------------------------------------------------------------------
(***************************************************************************)
(* Programs that change files.                                             *)
(***************************************************************************)
LEMMA ChangeKeeps ==
    ASSUME WatchInv, NEW f \in File, Change(f)
    PROVE  WatchInv'
  <1>1. PICK es \in ChangeEvents(f) : Callback({f}, es)
    BY DEF Change
  <1>2. es \in Seq(RawEvent) /\ (watching => About(es, f))
    BY ChangeIsTold
  <1>3. PICK v \in {clock + 1, Missing} : disk' = [disk EXCEPT ![f] = v]
    BY DEF Change
  <1>4. /\ UNCHANGED <<slot, at, cur, found, todo, watched, watching>>
        /\ UNCHANGED <<pending, due, events, worker, blind>>
        /\ clock' = clock + 1 /\ clock < MaxClock
    BY DEF Change, Elsewhere, app
  <1>5. disk \in [File -> Found] /\ clock \in 1 .. MaxClock /\ MaxClock \in Nat
    BY WatchBounds DEF WatchInv, WatchTypeOK, Version
  <1>6. /\ clock' \in Version
        /\ disk' \in [File -> Found]
        /\ \A g \in File \ {f} : disk'[g] = disk[g]
        /\ \A g \in File : disk'[g] \in {disk[h] : h \in File} \cup {clock + 1, Missing}
    BY <1>3, <1>4, <1>5 DEF Found, Version
  <1>7. /\ raw' \in Seq(RawEvent) /\ Len(raw') <= RawCap /\ overflow' \in BOOLEAN
    <2>1. {f} \in SUBSET File /\ (watching => \A g \in {f} : About(es, g))
      BY <1>2
    <2> QED
      BY <1>1, <1>2, <1>4, <2>1, CallbackMarks
  <1>8. /\ Queued'
        /\ \A g \in File : disk'[g] \in Past' /\ slot'[g].base \in Past'
        /\ Past \subseteq Past'
        /\ (\A g \in Open : Sound(g))'
        /\ (\A g \in Open : Seen(g))'
        /\ at \in {"stat", "read"} => Current'
    <2>1. {f} \in SUBSET File /\ (watching => \A g \in {f} : About(es, g))
      BY <1>2
    <2> QED
      BY <1>1, <1>2, <1>4, <1>6, <2>1, WorldStep
  <1>9. WatchTypeOK'
    BY <1>4, <1>6, <1>7 DEF WatchInv, WatchTypeOK, Open, Waiting
  <1>10. Phases'
    BY <1>4, <1>8 DEF WatchInv, Phases, Open
  <1>11. Dated'
    BY <1>4, <1>8 DEF WatchInv, Dated
  <1> QED
    BY <1>8, <1>9, <1>10, <1>11 DEF WatchInv

LEMMA RenameKeeps ==
    ASSUME WatchInv, NEW f \in File, NEW g \in File, Rename(f, g)
    PROVE  WatchInv'
  <1>1. PICK es \in RenameEvents(f, g) : Callback({f, g}, es)
    BY DEF Rename
  <1>2. es \in Seq(RawEvent) /\ (watching => About(es, f) /\ About(es, g))
    BY RenameIsTold
  <1>3. disk' = [disk EXCEPT ![f] = Missing, ![g] = disk[f]]
    BY DEF Rename
  <1>4. /\ UNCHANGED <<slot, at, cur, found, todo, watched, watching>>
        /\ UNCHANGED <<pending, due, events, worker, blind>>
        /\ clock' = clock + 1 /\ clock < MaxClock
    BY DEF Rename, Elsewhere, app
  <1>5. disk \in [File -> Found] /\ clock \in 1 .. MaxClock /\ MaxClock \in Nat
    BY WatchBounds DEF WatchInv, WatchTypeOK, Version
  <1>6. /\ clock' \in Version
        /\ disk' \in [File -> Found]
        /\ \A h \in File \ {f, g} : disk'[h] = disk[h]
        /\ \A h \in File : disk'[h] \in {disk[i] : i \in File} \cup {clock + 1, Missing}
    BY <1>3, <1>4, <1>5 DEF Found, Version
  <1>7. {f, g} \in SUBSET File /\ (watching => \A h \in {f, g} : About(es, h))
    BY <1>2
  <1>8. /\ raw' \in Seq(RawEvent) /\ Len(raw') <= RawCap /\ overflow' \in BOOLEAN
    BY <1>1, <1>2, <1>4, <1>7, CallbackMarks
  <1>9. /\ Queued'
        /\ \A h \in File : disk'[h] \in Past' /\ slot'[h].base \in Past'
        /\ Past \subseteq Past'
        /\ (\A h \in Open : Sound(h))'
        /\ (\A h \in Open : Seen(h))'
        /\ at \in {"stat", "read"} => Current'
    BY <1>1, <1>2, <1>4, <1>6, <1>7, WorldStep
  <1>10. WatchTypeOK'
    BY <1>4, <1>6, <1>8 DEF WatchInv, WatchTypeOK, Open, Waiting
  <1>11. Phases'
    BY <1>4, <1>9 DEF WatchInv, Phases, Open
  <1>12. Dated'
    BY <1>4, <1>9 DEF WatchInv, Dated
  <1> QED
    BY <1>9, <1>10, <1>11, <1>12 DEF WatchInv

\* The editor's own save is one more change, of which it then takes the stat.
LEMMA SaveKeeps ==
    ASSUME WatchInv, NEW f \in File, Save(f)
    PROVE  WatchInv'
  <1>1. PICK es \in ChangeEvents(f) : Callback({f}, es)
    BY DEF Save
  <1>2. es \in Seq(RawEvent) /\ (watching => About(es, f))
    BY ChangeIsTold
  <1>3. disk' = [disk EXCEPT ![f] = clock + 1]
    BY DEF Save
  <1>4. /\ UNCHANGED <<slot, todo, watched, watching>>
        /\ UNCHANGED <<pending, due, events, worker, blind>>
        /\ clock' = clock + 1 /\ clock < MaxClock
        /\ at = "idle" /\ at' = "stat" /\ cur' = f /\ found' = clock + 1
    BY DEF Save, WatchKept
  <1>5. disk \in [File -> Found] /\ clock \in 1 .. MaxClock /\ MaxClock \in Nat
    BY WatchBounds DEF WatchInv, WatchTypeOK, Version
  <1>6. /\ clock' \in Version
        /\ disk' \in [File -> Found]
        /\ \A g \in File \ {f} : disk'[g] = disk[g]
        /\ \A g \in File : disk'[g] \in {disk[h] : h \in File} \cup {clock + 1, Missing}
        /\ found' \in Found /\ found' \in Past' /\ disk'[f] = found'
    BY <1>3, <1>4, <1>5 DEF Found, Version, Past
  <1>7. {f} \in SUBSET File /\ (watching => \A g \in {f} : About(es, g))
    BY <1>2
  <1>8. /\ raw' \in Seq(RawEvent) /\ Len(raw') <= RawCap /\ overflow' \in BOOLEAN
    BY <1>1, <1>2, <1>4, <1>7, CallbackMarks
  <1>9. /\ Queued'
        /\ \A g \in File : disk'[g] \in Past' /\ slot'[g].base \in Past'
        /\ (\A g \in Open : Sound(g))'
        /\ (\A g \in Open : Seen(g))'
    BY <1>1, <1>2, <1>4, <1>6, <1>7, WorldStep
  <1>10. WatchTypeOK'
    BY <1>4, <1>6, <1>8 DEF WatchInv, WatchTypeOK, Open, Waiting
  <1>11. Phases'
    BY <1>4, <1>6 DEF WatchInv, Phases, Current
  <1>12. Dated'
    BY <1>6, <1>9 DEF Dated
  <1> QED
    BY <1>9, <1>10, <1>11, <1>12 DEF WatchInv

-----------------------------------------------------------------------------
(***************************************************************************)
(* The worker.                                                             *)
(***************************************************************************)
\* A step of the worker loses nothing that is on its way, or says so.
LEMMA WorkerStep ==
    ASSUME WatchInv, UNCHANGED <<world, app, blind>>,
           missed \subseteq missed',
           \A f \in File : f \in Minded /\ OnItsWay(f) => OnItsWay(f)' \/ f \in missed',
           raw' \in Seq(RawEvent), Len(raw') <= RawCap,
           events' \in Seq(FsEvent), Len(events') <= EventCap,
           pending' \in [File -> {"none", "path", "from"} \cup File],
           due' \subseteq Waiting', worker' # "flush" => due' = {},
           worker' \in {"recv", "flush", "clear"}, overflow' \in BOOLEAN
    PROVE  WatchInv'
  <1>1. UNCHANGED <<disk, clock, slot, at, cur, found, todo, watched, watching>>
    BY DEF world, app
  <1>2. Open' = Open
    BY <1>1 DEF Open
  <1>3. WatchTypeOK'
    BY <1>1, <1>2 DEF WatchInv, WatchTypeOK
  <1>4. Queued' /\ Dated'
    BY <1>1 DEF WatchInv, Queued, Dated, Past
  <1>5. ASSUME at \in {"stat", "read"}
        PROVE  Current'
    <2>1. cur \in File /\ cur \in Minded /\ Current
      BY <1>5 DEF WatchInv, Phases, Minded
    <2>2. PICK c \in File : c = cur
      BY <2>1
    <2>3. OnItsWay(c) => OnItsWay(c)' \/ c \in missed'
      BY <2>1, <2>2
    <2>4. c \in missed => c \in missed'
      OBVIOUS
    <2> QED
      BY <1>1, <2>1, <2>2, <2>3, <2>4 DEF Current, OnItsWay, Held
  <1>6. Phases'
    BY <1>1, <1>2, <1>5 DEF WatchInv, Phases
  <1>7. (\A f \in Open : Sound(f))'
    BY <1>1, <1>2 DEF WatchInv, Sound, Gone
  <1>8. ASSUME NEW f \in Open
        PROVE  Seen(f)'
    <2>1. f \in File /\ f \in Minded /\ Seen(f)
      BY DEF WatchInv, Open, Minded
    <2>2. OnItsWay(f) => OnItsWay(f)' \/ f \in missed'
      BY <2>1
    <2>3. Known(f)' <=> Known(f)
      BY <1>1 DEF Known
    <2> QED
      BY <1>1, <2>1, <2>2, <2>3 DEF Seen
  <1> QED
    BY <1>2, <1>3, <1>4, <1>6, <1>7, <1>8 DEF WatchInv

\* A handler that is given an event about the files M keeps what is pending, and
\* holds M too.
Handled(M) ==
  /\ pending' \in [File -> {"none", "path", "from"} \cup File]
  /\ missed \subseteq missed'
  /\ \A f \in File : f \in Minded /\ (Held(f) \/ f \in M) => Held(f)' \/ f \in missed'

LEMMA PathIsHandled ==
    ASSUME WatchInv, NEW p \in File, NEW k \in {"path", "from"}, HandlePath(p, k)
    PROVE  Handled({p})
  <1>1. pending \in [File -> {"none", "path", "from"} \cup File]
    BY DEF WatchInv, WatchTypeOK
  <1>2. CASE Passes(p)
    <2>1. /\ pending' = [pending EXCEPT ![p] = k]
          /\ missed' = missed \cup (OtherEnd(p) \cap Minded)
      BY <1>2 DEF HandlePath, Upsert
    <2>2. /\ pending' \in [File -> {"none", "path", "from"} \cup File]
          /\ pending'[p] = k /\ k # "none"
          /\ \A g \in File \ {p} : pending'[g] = pending[g]
      BY <1>1, <2>1
    <2>3. ASSUME NEW f \in File, f \in Minded, Held(f) \/ f = p, f \notin missed'
          PROVE  Held(f)'
      <3>1. pending[p] = f => f \in OtherEnd(p)
        BY DEF OtherEnd
      <3>2. pending[p] # f
        BY <2>1, <2>3, <3>1
      <3> QED
        BY <2>2, <2>3, <3>2 DEF Held
    <2> QED
      BY <2>1, <2>2, <2>3 DEF Handled
  <1>3. CASE ~Passes(p)
    BY <1>1, <1>3 DEF HandlePath, Ignore, Handled, Held
  <1> QED
    BY <1>2, <1>3

LEMMA BothIsHandled ==
    ASSUME WatchInv, NEW p \in File, NEW q \in File, HandleBoth(p, q)
    PROVE  Handled({p, q})
  <1>1. pending \in [File -> {"none", "path", "from"} \cup File] /\ "none" \notin File
    BY WatchBounds DEF WatchInv, WatchTypeOK
  <1>2. CASE Passes(p) \/ Passes(q)
    <2>1. /\ pending' = [pending EXCEPT ![q] = "none", ![p] = q]
          /\ missed' = missed \cup (((OtherEnd(p) \cup OtherEnd(q)) \ {p, q}) \cap Minded)
      BY <1>2 DEF HandleBoth
    <2>2. /\ pending' \in [File -> {"none", "path", "from"} \cup File]
          /\ pending'[p] = q /\ q # "none"
          /\ \A g \in File \ {p, q} : pending'[g] = pending[g]
      BY <1>1, <2>1
    <2>3. ASSUME NEW f \in File, f \in Minded, Held(f) \/ f \in {p, q}, f \notin missed'
          PROVE  Held(f)'
      <3>1. CASE f \in {p, q}
        BY <2>2, <3>1 DEF Held
      <3>2. CASE f \notin {p, q}
        <4>1. \A g \in {p, q} : pending[g] = f => f \in OtherEnd(g)
          BY DEF OtherEnd
        <4>2. pending[p] # f /\ pending[q] # f
          BY <2>1, <2>3, <3>2, <4>1
        <4> QED
          BY <2>2, <2>3, <3>2, <4>2 DEF Held
      <3> QED
        BY <3>1, <3>2
    <2> QED
      BY <2>1, <2>2, <2>3 DEF Handled
  <1>3. CASE ~(Passes(p) \/ Passes(q))
    BY <1>1, <1>3 DEF HandleBoth, Ignore, Handled, Held
  <1> QED
    BY <1>2, <1>3

LEMMA ToIsHandled ==
    ASSUME WatchInv, NEW q \in File, HandleTo(q)
    PROVE  Handled({q})
  <1>1. /\ pending \in [File -> {"none", "path", "from"} \cup File]
        /\ "none" \notin File /\ "from" \notin File
    BY WatchBounds DEF WatchInv, WatchTypeOK
  <1>2. CASE {p \in File : pending[p] = "from"} = {}
    BY <1>2, PathIsHandled DEF HandleTo
  <1>3. CASE {p \in File : pending[p] = "from"} # {}
    <2>1. PICK p \in File :
            /\ pending[p] = "from"
            /\ IF Passes(q) THEN pending' = [pending EXCEPT ![p] = q] /\ UNCHANGED missed
               ELSE /\ pending' = [pending EXCEPT ![p] = "path"]
                    /\ missed' = missed \cup ({q} \cap Minded)
      BY <1>3 DEF HandleTo
    <2>2. /\ pending' \in [File -> {"none", "path", "from"} \cup File]
          /\ pending'[p] # "none"
          /\ \A g \in File \ {p} : pending'[g] = pending[g]
          /\ missed \subseteq missed'
          /\ q \in Minded => pending'[p] = q \/ q \in missed'
      BY <1>1, <2>1
    <2>3. ASSUME NEW f \in File, f \in Minded, Held(f) \/ f = q, f \notin missed'
          PROVE  Held(f)'
      <3>1. pending[p] # f
        BY <1>1, <2>1
      <3> QED
        BY <2>2, <2>3, <3>1 DEF Held
    <2> QED
      BY <2>2, <2>3 DEF Handled
  <1> QED
    BY <1>2, <1>3

LEMMA RecvKeeps ==
    ASSUME WatchInv, Recv
    PROVE  WatchInv'
  <1> DEFINE e == Head(raw)
  <1>1. /\ raw \in Seq(RawEvent) /\ raw # <<>> /\ raw' = Tail(raw) /\ worker = "recv"
        /\ UNCHANGED <<world, app, due, events, worker, blind>>
        /\ due = {} /\ todo' = todo
        /\ Len(raw) \in Nat /\ Len(raw) <= RawCap /\ RawCap \in Nat
        /\ pending \in [File -> {"none", "path", "from"} \cup File]
    BY WatchBounds DEF Recv, WatchInv, WatchTypeOK, Queued, app
  <1>2. /\ e \in RawEvent
        /\ raw' \in Seq(RawEvent) /\ Len(raw') \in Nat /\ Len(raw') <= RawCap
        /\ \A f : About(raw, f) => \/ About(raw', f)
                                  \/ e.kind \in {"error", "rescan"}
                                  \/ e.path = f \/ e.to = f
    BY <1>1, AboutTail
  <1> HIDE DEF e
  <1>3. CASE e.kind = "error"
    <2>1. overflow' = TRUE /\ UNCHANGED <<pending, missed>>
      BY <1>3 DEF Recv, e
    <2>2. \A f \in File : OnItsWay(f)'
      BY <1>1, <2>1 DEF OnItsWay
    <2> QED
      BY <1>1, <1>2, <2>1, <2>2, WorkerStep DEF WatchInv, WatchTypeOK, Queued
  <1>4. CASE e.kind # "error"
    <2> DEFINE M == {e.path, e.to} \cap File
    <2>1. e.path \in File /\ e.kind \in {"path", "from", "to", "both"}
      BY <1>2, <1>4 DEF RawEvent
    <2>2. (e.kind = "both" => e.to \in File) /\ (e.kind # "both" => e.to = NoFile)
      BY <1>2, <1>4 DEF RawEvent
    <2>3. e.kind # "both" => M = {e.path}
      BY <2>1, <2>2, WatchBounds
    <2>4. e.kind = "both" => M = {e.path, e.to}
      BY <2>1, <2>2
    <2>5. UNCHANGED overflow /\ Handled(M)
      <3>1. CASE e.kind = "path"
        BY <2>1, <2>3, <3>1, PathIsHandled DEF Recv, e
      <3>2. CASE e.kind = "from"
        BY <2>1, <2>3, <3>2, PathIsHandled DEF Recv, e
      <3>3. CASE e.kind = "to"
        BY <2>1, <2>3, <3>3, ToIsHandled DEF Recv, e
      <3>4. CASE e.kind = "both"
        BY <2>1, <2>2, <2>4, <3>4, BothIsHandled DEF Recv, e
      <3> QED
        BY <2>1, <3>1, <3>2, <3>3, <3>4
    <2>6. ASSUME NEW f \in File, f \in Minded, OnItsWay(f), f \notin missed'
          PROVE  OnItsWay(f)'
      <3>1. About(raw, f) => About(raw', f) \/ f \in M
        BY <1>2, <2>1
      <3>2. Held(f) \/ f \in M => Held(f)'
        BY <2>5, <2>6 DEF Handled
      <3> QED
        BY <1>1, <2>5, <2>6, <3>1, <3>2 DEF OnItsWay
    <2> QED
      BY <1>1, <1>2, <2>5, <2>6, WorkerStep DEF WatchInv, WatchTypeOK, Queued, Handled
  <1> QED
    BY <1>3, <1>4

LEMMA TickKeeps ==
    ASSUME WatchInv, NEW S \in SUBSET Waiting, Tick(S)
    PROVE  WatchInv'
  <1>1. /\ due' = S /\ worker = "recv" /\ worker' = "flush"
        /\ UNCHANGED <<world, app, raw, pending, events, overflow, missed, blind>>
        /\ todo' = todo
    BY DEF Tick, app
  <1>2. Waiting' = Waiting
    BY <1>1 DEF Waiting
  <1>3. \A f \in File : OnItsWay(f) => OnItsWay(f)'
    BY <1>1 DEF OnItsWay, Held
  <1> QED
    BY <1>1, <1>2, <1>3, WorkerStep DEF WatchInv, WatchTypeOK, Queued

LEMMA FlushKeeps ==
    ASSUME WatchInv, NEW p \in due, Flush(p)
    PROVE  WatchInv'
  <1> DEFINE q == IF pending[p] \in File THEN pending[p] ELSE NoFile
             e == Event("path", p, q)
  <1>1. /\ worker = "flush" /\ due' = due \ {p} /\ pending' = [pending EXCEPT ![p] = "none"]
        /\ UNCHANGED <<world, app, raw, worker, missed, blind>>
        /\ todo' = todo
        /\ Offer(e)
    BY DEF Flush, app
  <1>2. /\ pending \in [File -> {"none", "path", "from"} \cup File]
        /\ p \in File /\ due \subseteq Waiting
        /\ events \in Seq(FsEvent) /\ Len(events) \in Nat /\ Len(events) <= EventCap
        /\ EventCap \in Nat /\ overflow \in BOOLEAN
    BY WatchBounds DEF WatchInv, WatchTypeOK, Waiting, Queued
  <1>3. /\ e \in FsEvent /\ e.path = p /\ e.to = q /\ e.kind = "path"
        /\ pending[p] \in File => q = pending[p]
    BY <1>2 DEF Event, FsEvent
  <1> HIDE DEF e, q
  <1>4. /\ pending' \in [File -> {"none", "path", "from"} \cup File]
        /\ \A g \in File \ {p} : pending'[g] = pending[g]
    BY <1>1, <1>2
  <1>5. due' \subseteq Waiting'
    BY <1>1, <1>2, <1>4 DEF Waiting
  <1>6. \A f \in File : Held(f) => Held(f)' \/ f = p \/ f = q
    BY <1>3, <1>4 DEF Held
  <1>7. CASE Len(events) < EventCap
    <2>1. events' = Append(events, e) /\ UNCHANGED overflow
      BY <1>1, <1>7 DEF Offer
    <2>2. /\ events' \in Seq(FsEvent) /\ Len(events') = Len(events) + 1
          /\ \A f : About(events, f) => About(events', f)
          /\ \A f : f = p \/ f = q => About(events', f)
      BY <1>2, <1>3, <2>1, AboutAppended
    <2>3. Len(events') <= EventCap
      BY <1>2, <1>7, <2>2
    <2>4. \A f \in File : OnItsWay(f) => OnItsWay(f)'
      BY <1>1, <1>6, <2>1, <2>2 DEF OnItsWay
    <2> QED
      BY <1>1, <1>2, <1>4, <1>5, <2>1, <2>2, <2>3, <2>4, WorkerStep
      DEF WatchInv, WatchTypeOK, Queued
  <1>8. CASE ~(Len(events) < EventCap)
    <2>1. overflow' = TRUE /\ UNCHANGED events
      BY <1>1, <1>8 DEF Offer
    <2>2. \A f \in File : OnItsWay(f)'
      BY <1>1, <2>1 DEF OnItsWay
    <2> QED
      BY <1>1, <1>2, <1>4, <1>5, <2>1, <2>2, WorkerStep
      DEF WatchInv, WatchTypeOK, Queued
  <1> QED
    BY <1>7, <1>8

LEMMA SendRescanKeeps ==
    ASSUME WatchInv, SendRescan
    PROVE  WatchInv'
  <1>1. /\ worker = "flush" /\ due = {} /\ due' = {}
        /\ UNCHANGED <<world, app, raw, pending, overflow, missed, blind>>
        /\ todo' = todo
    BY DEF SendRescan, app
  <1>2. /\ events \in Seq(FsEvent) /\ Len(events) \in Nat /\ Len(events) <= EventCap
        /\ EventCap \in Nat
    BY WatchBounds DEF WatchInv, WatchTypeOK, Queued
  <1>3. CASE overflow /\ Len(events) < EventCap
    <2>1. events' = Append(events, Rescan) /\ worker' = "clear"
      BY <1>3 DEF SendRescan
    <2>2. Rescan \in FsEvent /\ Rescan.kind = "rescan"
      BY DEF FsEvent, Rescan
    <2>3. /\ events' \in Seq(FsEvent) /\ Len(events') = Len(events) + 1
          /\ \A f : About(events', f)
      BY <1>2, <2>1, <2>2, AboutAppended
    <2>4. Len(events') <= EventCap
      BY <1>2, <1>3, <2>3
    <2>5. \A f \in File : OnItsWay(f)'
      BY <2>3 DEF OnItsWay
    <2> QED
      BY <1>1, <2>1, <2>3, <2>4, <2>5, WorkerStep DEF WatchInv, WatchTypeOK, Queued
  <1>4. CASE ~(overflow /\ Len(events) < EventCap)
    <2>1. worker' = "recv" /\ UNCHANGED events
      BY <1>4 DEF SendRescan
    <2>2. \A f \in File : OnItsWay(f) => OnItsWay(f)'
      BY <1>1, <2>1 DEF OnItsWay, Held
    <2> QED
      BY <1>1, <2>1, <2>2, WorkerStep DEF WatchInv, WatchTypeOK, Queued
  <1> QED
    BY <1>3, <1>4

LEMMA ClearOverflowKeeps ==
    ASSUME WatchInv, ClearOverflow
    PROVE  WatchInv'
  <1>1. /\ worker = "clear" /\ overflow' = FALSE /\ worker' = "recv"
        /\ UNCHANGED <<world, app, raw, pending, due, events, missed, blind>>
        /\ todo' = todo
    BY DEF ClearOverflow, app
  <1>2. \A f \in File : OnItsWay(f) => OnItsWay(f)'
    BY <1>1 DEF OnItsWay, Held
  <1>3. Waiting' = Waiting
    BY <1>1 DEF Waiting
  <1> QED
    BY <1>1, <1>2, <1>3, WorkerStep DEF WatchInv, WatchTypeOK, Queued

-----------------------------------------------------------------------------
(***************************************************************************)
(* The event loop.                                                         *)
(***************************************************************************)
\* A step of the event loop that leaves the queues alone: what is on its way to
\* a file stays, unless the file is taken off the list of those to check.
LEMMA LoopStep ==
    ASSUME WatchInv, Queues
    PROVE  /\ Queued'
           /\ UNCHANGED <<disk, clock, raw, pending, due, events, worker, overflow>>
           /\ Past' = Past /\ Waiting' = Waiting
           /\ \A f \in File : OnItsWay(f) /\ (f \in todo => f \in todo') => OnItsWay(f)'
  <1>1. UNCHANGED <<disk, clock, raw, pending, due, events, worker, overflow>>
    BY DEF Queues, world, queue
  <1>2. Queued' /\ Past' = Past /\ Waiting' = Waiting
    BY <1>1 DEF WatchInv, Queued, Past, Waiting
  <1>3. \A f \in File : OnItsWay(f) /\ (f \in todo => f \in todo') => OnItsWay(f)'
    BY <1>1 DEF OnItsWay, Held
  <1> QED
    BY <1>1, <1>2, <1>3

\* A step that leaves the slots alone, too: every file to check stays on the list,
\* and a reload that is under way is not forgotten.
LEMMA IdleStep ==
    ASSUME WatchInv, Queues, UNCHANGED <<slot, missed, blind>>,
           at # "read", todo \subseteq todo', todo' \subseteq Open,
           at' \in {"idle", "stat", "sync", "locked", "check"},
           at' # "check" => todo' = {},
           cur' \in File \cup {NoFile}, found' \in Past,
           at' = "stat" => cur' \in File /\ found' = disk[cur'],
           watched' \subseteq File, watching' \in BOOLEAN
    PROVE  WatchInv'
  <1>1. /\ Queued'
        /\ UNCHANGED <<disk, clock, raw, pending, due, events, worker, overflow>>
        /\ Past' = Past /\ Waiting' = Waiting
        /\ \A f \in File : OnItsWay(f) => OnItsWay(f)'
    BY LoopStep
  <1>2. Open' = Open
    BY DEF Open
  <1>3. found' \in Found
    BY WatchBounds DEF WatchInv, WatchTypeOK, Past, Found, Version
  <1>4. WatchTypeOK'
    BY <1>1, <1>2, <1>3 DEF WatchInv, WatchTypeOK
  <1>5. Phases'
    BY <1>1 DEF Phases, Current
  <1>6. Dated'
    BY <1>1 DEF WatchInv, Dated
  <1>7. (\A f \in Open : Sound(f))'
    BY <1>1, <1>2 DEF WatchInv, Sound, Gone
  <1>8. ASSUME NEW f \in Open
        PROVE  Seen(f)'
    <2>1. f \in File /\ Seen(f)
      BY DEF WatchInv, Open
    <2>2. Known(f)' <=> Known(f)
      BY <1>1 DEF Known
    <2> QED
      BY <1>1, <2>1, <2>2 DEF Seen
  <1> QED
    BY <1>1, <1>2, <1>4, <1>5, <1>6, <1>7, <1>8 DEF WatchInv

LEMMA OpenReadKeeps ==
    ASSUME WatchInv, NEW f \in File, OpenRead(f) \/ ReloadRead(f)
    PROVE  WatchInv'
  <1>1. /\ Queues /\ UNCHANGED <<slot, todo, missed, blind, watched, watching>>
        /\ at = "idle" /\ at' = "stat" /\ cur' = f /\ found' = disk[f]
    BY DEF OpenRead, ReloadRead, WatchKept
  <1>2. /\ disk[f] \in Past /\ todo = {} /\ watched \subseteq File /\ watching \in BOOLEAN
    BY <1>1 DEF WatchInv, WatchTypeOK, Dated, Phases
  <1> QED
    BY <1>1, <1>2, IdleStep

LEMMA SyncKeeps ==
    ASSUME WatchInv, SyncFilter \/ SyncWatch
    PROVE  WatchInv'
  <1>1. /\ Queues /\ UNCHANGED <<slot, cur, found, todo, missed, blind>>
        /\ at \in {"sync", "locked"} /\ at' \in {"locked", "idle"}
        /\ watched' \in {watched, Open}
        /\ watching' \in {watching, Open # {}}
    BY DEF SyncFilter, SyncWatch
  <1>2. /\ found \in Past /\ todo = {} /\ watched \subseteq File /\ watching \in BOOLEAN
        /\ cur \in File \cup {NoFile} /\ Open \subseteq File
    BY <1>1 DEF WatchInv, WatchTypeOK, Dated, Phases, Open
  <1> QED
    BY <1>1, <1>2, IdleStep

LEMMA ChecktimeAllKeeps ==
    ASSUME WatchInv, ChecktimeAll \/ Checked
    PROVE  WatchInv'
  <1>1. /\ Queues /\ UNCHANGED <<slot, cur, found, missed, blind, watched, watching>>
        /\ \/ at = "idle" /\ todo' = Open /\ at' = "check"
           \/ at = "check" /\ todo = {} /\ todo' = {} /\ at' = "idle"
    BY DEF ChecktimeAll, Checked, WatchKept
  <1>2. /\ found \in Past /\ watched \subseteq File /\ watching \in BOOLEAN
        /\ cur \in File \cup {NoFile} /\ todo \subseteq Open
    BY DEF WatchInv, WatchTypeOK, Dated
  <1> QED
    BY <1>1, <1>2, IdleStep

\* What is drained is checked: every open file an event was about.
LEMMA DrainKeeps ==
    ASSUME WatchInv, Drain
    PROVE  WatchInv'
  <1>1. /\ UNCHANGED <<disk, clock, slot, cur, found, raw, pending, due, worker, overflow>>
        /\ UNCHANGED <<missed, blind, watched, watching>>
        /\ at = "idle" /\ at' = "check" /\ events' = <<>> /\ todo' = Candidates(events)
    BY DEF Drain, world, WatchKept
  <1>2. Open' = Open /\ Past' = Past /\ Waiting' = Waiting
    BY <1>1 DEF Open, Past, Waiting
  <1>3. events \in Seq(FsEvent) /\ todo = {} /\ EventCap \in Nat
    BY <1>1, WatchBounds DEF WatchInv, Queued, Phases
  <1>4. todo' \subseteq Open
    BY <1>1 DEF Candidates
  <1>5. ASSUME NEW f \in Open, About(events, f)
        PROVE  f \in todo'
    <2>1. PICK i \in DOMAIN events :
            events[i].kind \in {"error", "rescan"} \/ events[i].path = f \/ events[i].to = f
      BY <1>5 DEF About
    <2>2. events[i] \in FsEvent
      BY <1>3
    <2>3. events[i].kind \in {"error", "rescan"} => events[i] = Rescan
      BY <2>2 DEF FsEvent
    <2>4. CASE events[i] = Rescan
      BY <1>1, <2>4 DEF Candidates
    <2>5. CASE events[i].path = f \/ events[i].to = f
      <3>1. f \in {events[j].path : j \in DOMAIN events} \cup {events[j].to : j \in DOMAIN events}
        BY <2>5
      <3> QED
        BY <1>1, <3>1 DEF Candidates
    <2> QED
      BY <2>1, <2>3, <2>4, <2>5
  <1>6. WatchTypeOK'
    <2>1. Len(events') <= EventCap
      BY <1>1, <1>3
    <2> QED
      BY <1>1, <1>2, <1>4, <2>1 DEF WatchInv, WatchTypeOK
  <1>7. Queued'
    <2>1. <<>> \in Seq(FsEvent)
      OBVIOUS
    <2> QED
      BY <1>1, <2>1 DEF WatchInv, Queued
  <1>8. Phases' /\ Dated'
    BY <1>1, <1>2 DEF WatchInv, Phases, Dated
  <1>9. (\A f \in Open : Sound(f))'
    BY <1>1, <1>2 DEF WatchInv, Sound, Gone
  <1>10. ASSUME NEW f \in Open
         PROVE  Seen(f)'
    <2>1. Seen(f) /\ f \in File
      BY DEF WatchInv, Open
    <2>2. Known(f)' <=> Known(f)
      BY <1>1 DEF Known
    <2>3. OnItsWay(f) => OnItsWay(f)'
      BY <1>1, <1>3, <1>5 DEF OnItsWay, Held
    <2> QED
      BY <1>1, <2>1, <2>2, <2>3 DEF Seen
  <1> QED
    BY <1>2, <1>6, <1>7, <1>8, <1>9, <1>10 DEF WatchInv

\* A step that gives one slot its new state: the others are as they were.
LEMMA SlotStep ==
    ASSUME WatchInv, Queues, NEW f \in File, NEW s,
           s \in [text : Found, base : Found, dirty : BOOLEAN,
                  state : {"closed", "synced", "changed", "deleted"}],
           s.base \in Past,
           slot' = [slot EXCEPT ![f] = s],
           blind' \ {f} = blind \ {f}, missed' \ {f} = missed \ {f},
           todo' \ {f} = todo \ {f},
           at = "read" => cur = f
    PROVE  /\ \A g \in File : slot'[g].base \in Past'
           /\ slot' \in [File -> [text : Found, base : Found, dirty : BOOLEAN,
                                   state : {"closed", "synced", "changed", "deleted"}]]
           /\ Open' \ {f} = Open \ {f}
           /\ f \in Open' <=> s.state # "closed"
           /\ slot'[f] = s
           /\ \A g \in Open' \ {f} : Seen(g)' /\ Sound(g)'
  <1>1. /\ UNCHANGED disk /\ Past' = Past
        /\ \A g \in File : OnItsWay(g) /\ (g \in todo => g \in todo') => OnItsWay(g)'
    BY LoopStep
  <1>2. slot \in [File -> [text : Found, base : Found, dirty : BOOLEAN,
                            state : {"closed", "synced", "changed", "deleted"}]]
    BY DEF WatchInv, WatchTypeOK
  <1>3. /\ slot' \in [File -> [text : Found, base : Found, dirty : BOOLEAN,
                                 state : {"closed", "synced", "changed", "deleted"}]]
        /\ slot'[f] = s
        /\ \A g \in File \ {f} : slot'[g] = slot[g]
    BY <1>2
  <1>4. /\ Open' \ {f} = Open \ {f} /\ (f \in Open' <=> s.state # "closed")
        /\ \A g \in File : slot'[g].base \in Past'
    BY <1>1, <1>3 DEF Open, WatchInv, Dated
  <1>5. ASSUME NEW g \in Open' \ {f}
        PROVE  Seen(g)' /\ Sound(g)'
    <2>1. g \in File /\ g # f /\ slot'[g] = slot[g] /\ Seen(g) /\ Sound(g)
      BY <1>3, <1>4 DEF WatchInv, Open
    <2>2. Known(g)' <=> Known(g)
      BY <1>1, <2>1 DEF Known
    <2>3. OnItsWay(g) => OnItsWay(g)'
      BY <1>1, <2>1
    <2>4. (g \in blind' <=> g \in blind) /\ (g \in missed' <=> g \in missed)
      BY <2>1
    <2>5. Sound(g)'
      BY <1>1, <2>1, <2>4 DEF Sound, Gone
    <2>6. Seen(g)'
      BY <2>1, <2>2, <2>3, <2>4 DEF Seen
    <2> QED
      BY <2>5, <2>6
  <1> QED
    BY <1>3, <1>4, <1>5

\* Typing, or undoing back to what was loaded: what is said of the file stays true,
\* since a clean buffer whose baseline is on disk has that text.
LEMMA TypeKeeps ==
    ASSUME WatchInv, NEW f \in File, Type(f) \/ UndoAll(f)
    PROVE  WatchInv'
  <1>1. PICK d \in BOOLEAN : slot' = [slot EXCEPT ![f].dirty = d]
    BY DEF Type, UndoAll
  <1>2. /\ Queues /\ f \in Open /\ at = "idle"
        /\ UNCHANGED <<at, cur, found, todo, watched, watching, missed, blind>>
    BY DEF Type, UndoAll
  <1> DEFINE s == [slot[f] EXCEPT !.dirty = d]
             Slot == [text : Found, base : Found, dirty : BOOLEAN,
                      state : {"closed", "synced", "changed", "deleted"}]
  <1>3. slot \in [File -> Slot] /\ slot[f].base \in Past /\ slot[f].state # "closed"
    BY <1>2 DEF WatchInv, WatchTypeOK, Dated, Open
  <1>4. /\ s \in Slot /\ s.base = slot[f].base /\ s.text = slot[f].text
        /\ s.state = slot[f].state /\ s.dirty = d
        /\ slot' = [slot EXCEPT ![f] = s]
    BY <1>1, <1>3
  <1> HIDE DEF s
  <1>5. /\ \A g \in File : slot'[g].base \in Past'
        /\ slot' \in [File -> Slot]
        /\ Open' \ {f} = Open \ {f}
        /\ f \in Open' <=> s.state # "closed"
        /\ slot'[f] = s
        /\ \A g \in Open' \ {f} : Seen(g)' /\ Sound(g)'
    BY <1>2, <1>3, <1>4, SlotStep
  <1>6. /\ Queued'
        /\ UNCHANGED <<disk, clock, raw, pending, due, events, worker, overflow>>
        /\ Past' = Past /\ Waiting' = Waiting
        /\ OnItsWay(f) => OnItsWay(f)'
    BY <1>2, LoopStep
  <1>7. Open' = Open
    BY <1>2, <1>3, <1>4, <1>5
  <1>8. WatchTypeOK'
    BY <1>2, <1>5, <1>6, <1>7 DEF WatchInv, WatchTypeOK
  <1>9. Phases'
    BY <1>2 DEF WatchInv, Phases
  <1>10. Dated'
    BY <1>2, <1>5, <1>6 DEF WatchInv, Dated
  <1>11. Sound(f)'
    BY <1>2, <1>4, <1>5, <1>6 DEF WatchInv, Sound, Gone
  <1>12. Seen(f)'
    <2>1. CASE Known(f)
      <3>1. f \in blind \/ slot[f].text = slot[f].base \/ disk[f] # slot[f].base
        BY <1>2 DEF WatchInv, Sound, Gone
      <3>2. Known(f)' \/ f \in blind'
        BY <1>2, <1>4, <1>5, <1>6, <2>1, <3>1 DEF Known
      <3> QED
        BY <3>2 DEF Seen
    <2>2. CASE ~Known(f)
      <3>1. Seen(f)
        BY <1>2 DEF WatchInv
      <3> QED
        BY <1>2, <1>6, <2>2, <3>1 DEF Seen
    <2> QED
      BY <2>1, <2>2
  <1> QED
    BY <1>5, <1>6, <1>8, <1>9, <1>10, <1>11, <1>12 DEF WatchInv

LEMMA CloseKeeps ==
    ASSUME WatchInv, NEW f \in File, Close(f)
    PROVE  WatchInv'
  <1>1. /\ Queues /\ f \in Open /\ at = "idle" /\ at' = "sync"
        /\ slot' = [slot EXCEPT ![f] = Closed]
        /\ blind' = blind \ {f} /\ missed' = missed \ {f}
        /\ UNCHANGED <<cur, found, todo, watched, watching>>
    BY DEF Close, WatchKept
  <1> DEFINE Slot == [text : Found, base : Found, dirty : BOOLEAN,
                      state : {"closed", "synced", "changed", "deleted"}]
  <1>2. Closed \in Slot /\ Closed.base \in Past /\ Closed.state = "closed"
    BY DEF Closed, Found, Past
  <1>3. /\ \A g \in File : slot'[g].base \in Past'
        /\ slot' \in [File -> Slot]
        /\ f \in Open' <=> Closed.state # "closed"
        /\ \A g \in Open' \ {f} : Seen(g)' /\ Sound(g)'
    BY <1>1, <1>2, SlotStep
  <1>4. /\ Queued'
        /\ UNCHANGED <<disk, clock, raw, pending, due, events, worker, overflow>>
        /\ Past' = Past /\ Waiting' = Waiting
    BY <1>1, LoopStep
  <1>5. todo = {}
    BY <1>1 DEF WatchInv, Phases
  <1>6. WatchTypeOK'
    BY <1>1, <1>3, <1>4, <1>5 DEF WatchInv, WatchTypeOK
  <1>7. Phases' /\ Dated'
    BY <1>1, <1>3, <1>4, <1>5 DEF WatchInv, Phases, Dated
  <1> QED
    BY <1>2, <1>3, <1>4, <1>6, <1>7 DEF WatchInv

\* After a load or a save: what was read is on disk, or the change is noticed, or
\* the baseline is of another version.
LEMMA StatKeeps ==
    ASSUME WatchInv, Stat
    PROVE  WatchInv'
  <1> DEFINE s == Loaded(found, Baseline)
             Slot == [text : Found, base : Found, dirty : BOOLEAN,
                      state : {"closed", "synced", "changed", "deleted"}]
  <1>1. /\ Queues /\ at = "stat" /\ at' \in {"idle", "sync"}
        /\ slot' = [slot EXCEPT ![cur] = s]
        /\ blind' = IF Baseline = found THEN blind \ {cur} ELSE blind \cup {cur}
        /\ UNCHANGED <<todo, missed, watched, watching>>
        /\ cur' = NoFile /\ found' = Missing
    BY DEF Stat, WatchKept, Forget
  <1>2. PICK f \in File : f = cur
    BY <1>1 DEF WatchInv, Phases
  <1>3. /\ disk[f] \in Past /\ slot[f].base \in Past /\ found \in Past
        /\ disk[f] \in Found /\ slot[f].base \in Found /\ found \in Found
        /\ Missing \in Past /\ Missing \in Found /\ todo = {} /\ todo \subseteq Open
    BY <1>1 DEF WatchInv, WatchTypeOK, Dated, Phases, Past, Found
  <1>4. /\ Baseline \in Found /\ Baseline \in Past
        /\ found = Missing => Baseline = Missing
        /\ found # Missing /\ disk[f] # Missing => Baseline = disk[f]
    <2>1. CASE found = Missing
      <3>1. Baseline = Missing
        BY <2>1 DEF Baseline
      <3> QED
        BY <1>3, <2>1, <3>1
    <2>2. CASE found # Missing /\ disk[f] = Missing
      <3>1. Baseline = slot[f].base
        BY <1>2, <2>2 DEF Baseline
      <3> QED
        BY <1>3, <2>2, <3>1
    <2>3. CASE found # Missing /\ disk[f] # Missing
      <3>1. Baseline = disk[f]
        BY <1>2, <2>3 DEF Baseline
      <3> QED
        BY <1>3, <2>3, <3>1
    <2> QED
      BY <2>1, <2>2, <2>3
  <1>5. /\ s \in Slot /\ s.base = Baseline /\ s.text = found
        /\ s.state = "synced" /\ s.dirty = FALSE
    BY <1>3, <1>4 DEF Loaded
  <1> HIDE DEF s
  <1>6. /\ \A g \in File : slot'[g].base \in Past'
        /\ slot' \in [File -> Slot]
        /\ Open' \ {f} = Open \ {f}
        /\ f \in Open' <=> s.state # "closed"
        /\ slot'[f] = s
        /\ \A g \in Open' \ {f} : Seen(g)' /\ Sound(g)'
    BY <1>1, <1>2, <1>4, <1>5, SlotStep
  <1>7. /\ Queued'
        /\ UNCHANGED <<disk, clock, raw, pending, due, events, worker, overflow>>
        /\ Past' = Past /\ Waiting' = Waiting
        /\ OnItsWay(f) => OnItsWay(f)'
    BY <1>1, LoopStep
  <1>8. WatchTypeOK'
    BY <1>1, <1>3, <1>6, <1>7 DEF WatchInv, WatchTypeOK
  <1>9. Phases' /\ Dated'
    BY <1>1, <1>3, <1>6, <1>7 DEF WatchInv, Phases, Dated
  <1>10. Sound(f)'
    BY <1>1, <1>2, <1>5, <1>6 DEF Sound
  <1>11. Seen(f)'
    <2>1. CASE Baseline # found
      BY <1>1, <1>2, <2>1 DEF Seen
    <2>2. CASE Baseline = found /\ disk[f] = found
      BY <1>2, <1>4, <1>5, <1>6, <1>7, <2>2 DEF Known, Seen
    <2>3. CASE disk[f] # found
      <3>1. f \in missed \/ OnItsWay(f)
        BY <1>1, <1>2, <2>3 DEF WatchInv, Phases, Current
      <3> QED
        BY <1>1, <1>7, <3>1 DEF Seen
    <2> QED
      BY <2>1, <2>2, <2>3
  <1> QED
    BY <1>6, <1>7, <1>8, <1>9, <1>10, <1>11 DEF WatchInv

\* A stat tells what is on disk, or decides to read it.
LEMMA StatSlotKeeps ==
    ASSUME WatchInv, NEW f \in File, StatSlot(f)
    PROVE  WatchInv'
  <1> DEFINE Slot == [text : Found, base : Found, dirty : BOOLEAN,
                      state : {"closed", "synced", "changed", "deleted"}]
             s == IF Reloads(f) THEN slot[f] ELSE Judged(f)
  <1>1. /\ Queues /\ at = "check" /\ f \in todo
        /\ todo' = todo \ {f} /\ missed' = missed \ {f}
        /\ UNCHANGED <<watched, watching, blind>>
        /\ IF Reloads(f)
           THEN at' = "read" /\ cur' = f /\ found' = disk[f] /\ UNCHANGED slot
           ELSE slot' = [slot EXCEPT ![f] = Judged(f)] /\ UNCHANGED <<at, cur, found>>
    BY DEF StatSlot, WatchKept
  <1>2. /\ slot \in [File -> Slot] /\ slot[f].base \in Past /\ f \in Open
        /\ slot[f].state # "closed" /\ Sound(f)
        /\ disk[f] \in Past /\ disk[f] \in Found
        /\ found \in Past /\ found \in Found /\ cur \in File \cup {NoFile}
        /\ todo \subseteq Open
    BY <1>1 DEF WatchInv, WatchTypeOK, Dated, Open
  <1>3. /\ Judged(f) \in Slot /\ Judged(f).base = slot[f].base
        /\ Judged(f).text = slot[f].text /\ Judged(f).dirty = slot[f].dirty
        /\ Judged(f).state # "closed"
        /\ disk[f] = Missing => Judged(f).state = "deleted"
        /\ disk[f] # Missing /\ disk[f] # slot[f].base => Judged(f).state = "changed"
        /\ disk[f] # Missing /\ disk[f] = slot[f].base => Judged(f).state # "deleted"
    <2>1. slot[f] \in Slot
      BY <1>2
    <2>2. CASE disk[f] = Missing
      <3>1. Judged(f) = [slot[f] EXCEPT !.state = "deleted"]
        BY <2>2 DEF Judged
      <3> QED
        BY <2>1, <2>2, <3>1
    <2>3. CASE disk[f] # Missing /\ disk[f] = slot[f].base
      <3>1. Judged(f) = [slot[f] EXCEPT !.state = IF @ = "deleted" THEN "synced" ELSE @]
        BY <2>3 DEF Judged
      <3> QED
        BY <1>2, <2>1, <2>3, <3>1
    <2>4. CASE disk[f] # Missing /\ disk[f] # slot[f].base
      <3>1. Judged(f) = [slot[f] EXCEPT !.state = "changed"]
        BY <2>4 DEF Judged
      <3> QED
        BY <2>1, <2>4, <3>1
    <2> QED
      BY <2>2, <2>3, <2>4
  <1>4. /\ s \in Slot /\ s.base = slot[f].base /\ s.text = slot[f].text
        /\ s.dirty = slot[f].dirty /\ s.state # "closed"
        /\ slot' = [slot EXCEPT ![f] = s]
        /\ ~Reloads(f) => s = Judged(f)
    BY <1>1, <1>2, <1>3
  <1> HIDE DEF s
  <1>5. /\ \A g \in File : slot'[g].base \in Past'
        /\ slot' \in [File -> Slot]
        /\ Open' \ {f} = Open \ {f}
        /\ f \in Open' <=> s.state # "closed"
        /\ slot'[f] = s
        /\ \A g \in Open' \ {f} : Seen(g)' /\ Sound(g)'
    BY <1>1, <1>2, <1>4, SlotStep
  <1>6. /\ Queued'
        /\ UNCHANGED <<disk, clock, raw, pending, due, events, worker, overflow>>
        /\ Past' = Past /\ Waiting' = Waiting
    BY <1>1, LoopStep
  <1>7. Open' = Open
    <2>1. f \in Open /\ f \in Open' /\ Open' \ {f} = Open \ {f}
      BY <1>2, <1>4, <1>5
    <2> QED
      BY <2>1
  <1>8. /\ at' \in {"check", "read"} /\ cur' \in File \cup {NoFile}
        /\ found' \in Found /\ found' \in Past
        /\ at' = "read" => Reloads(f) /\ cur' = f /\ found' = disk[f]
    BY <1>1, <1>2
  <1>9. WatchTypeOK'
    BY <1>1, <1>2, <1>5, <1>6, <1>7, <1>8 DEF WatchInv, WatchTypeOK
  <1>10. Phases'
    BY <1>2, <1>6, <1>7, <1>8 DEF Phases, Current, Reloads
  <1>11. Dated'
    BY <1>5, <1>6, <1>8 DEF WatchInv, Dated
  <1>12. Sound(f)'
    BY <1>1, <1>2, <1>4, <1>5, <1>6 DEF Sound, Gone
  <1>13. Seen(f)'
    <2>1. CASE Reloads(f)
      BY <1>1, <2>1 DEF Seen
    <2>2. CASE ~Reloads(f)
      <3>1. f \in blind \/ slot[f].text = slot[f].base \/ disk[f] # slot[f].base
        BY <1>2 DEF Sound, Gone
      <3>2. Known(f)' \/ f \in blind'
        BY <1>1, <1>3, <1>4, <1>5, <1>6, <2>2, <3>1 DEF Known
      <3> QED
        BY <3>2 DEF Seen
    <2> QED
      BY <2>1, <2>2
  <1> QED
    BY <1>5, <1>6, <1>9, <1>10, <1>11, <1>12, <1>13 DEF WatchInv

\* A reload takes the text that is there now and the baseline of the stat before
\* it.  When they differ the change came in between and is on its way; and the
\* baseline's version is gone for good, or the slot is marked.
LEMMA ReadSlotKeeps ==
    ASSUME WatchInv, ReadSlot
    PROVE  WatchInv'
  <1> DEFINE Slot == [text : Found, base : Found, dirty : BOOLEAN,
                      state : {"closed", "synced", "changed", "deleted"}]
             s == IF disk[cur] = Missing THEN slot[cur] ELSE Reloaded
  <1>1. /\ Queues /\ at = "read" /\ at' = "check" /\ cur' = NoFile /\ found' = Missing
        /\ UNCHANGED <<todo, missed, watched, watching>>
        /\ IF disk[cur] = Missing THEN UNCHANGED <<slot, blind>>
           ELSE /\ slot' = [slot EXCEPT ![cur] = Reloaded]
                /\ blind' = IF Returns THEN blind \cup {cur} ELSE blind \ {cur}
    BY DEF ReadSlot, WatchKept, Forget
  <1>2. PICK f \in File : f = cur /\ f \in Open
    BY <1>1 DEF WatchInv, Phases
  <1>3. /\ slot \in [File -> Slot] /\ slot[f].base \in Past
        /\ slot[f].state # "closed" /\ Sound(f)
        /\ disk[f] \in Past /\ disk[f] \in Found
        /\ found \in Past /\ found \in Found /\ found # Missing
        /\ Missing \in Found /\ Missing \in Past
        /\ todo \subseteq Open
        /\ disk[f] # found => f \in missed \/ OnItsWay(f)
    BY <1>1, <1>2 DEF WatchInv, WatchTypeOK, Dated, Open, Phases, Current, Found, Past
  <1>4. disk[f] # Missing =>
          /\ Reloaded \in Slot /\ Reloaded.base = found /\ Reloaded.text = disk[f]
          /\ Reloaded.state = "synced" /\ Reloaded.dirty = FALSE
    BY <1>2, <1>3 DEF Reloaded, Loaded
  <1>5. /\ s \in Slot /\ s.base \in Past /\ s.state # "closed"
        /\ slot' = [slot EXCEPT ![f] = s]
        /\ disk[f] # Missing => s = Reloaded
        /\ disk[f] = Missing => s = slot[f]
        /\ blind' \ {f} = blind \ {f}
    BY <1>1, <1>2, <1>3, <1>4
  <1> HIDE DEF s
  <1>6. /\ \A g \in File : slot'[g].base \in Past'
        /\ slot' \in [File -> Slot]
        /\ Open' \ {f} = Open \ {f}
        /\ f \in Open' <=> s.state # "closed"
        /\ slot'[f] = s
        /\ \A g \in Open' \ {f} : Seen(g)' /\ Sound(g)'
    BY <1>1, <1>2, <1>5, SlotStep
  <1>7. /\ Queued'
        /\ UNCHANGED <<disk, clock, raw, pending, due, events, worker, overflow>>
        /\ Past' = Past /\ Waiting' = Waiting
        /\ OnItsWay(f) => OnItsWay(f)'
    BY <1>1, LoopStep
  <1>8. Open' = Open
    BY <1>2, <1>5, <1>6
  <1>9. WatchTypeOK'
    BY <1>1, <1>3, <1>6, <1>7, <1>8 DEF WatchInv, WatchTypeOK
  <1>10. Phases' /\ Dated'
    BY <1>1, <1>3, <1>6, <1>7 DEF WatchInv, Phases, Dated
  <1>11. Sound(f)'
    <2>1. CASE disk[f] = Missing
      BY <1>1, <1>2, <1>3, <1>5, <1>6, <1>7, <2>1 DEF Sound, Gone
    <2>2. CASE disk[f] # Missing /\ Returns
      BY <1>1, <1>2, <2>2 DEF Sound
    <2>3. CASE disk[f] # Missing /\ ~Returns
      <3>1. disk[f] = found \/ Gone(found)
        BY <1>2, <1>3, <2>3 DEF Returns, Gone
      <3> QED
        BY <1>4, <1>5, <1>6, <1>7, <2>3, <3>1 DEF Sound, Gone
    <2> QED
      BY <2>1, <2>2, <2>3
  <1>12. Seen(f)'
    <2>1. CASE disk[f] # found
      BY <1>1, <1>3, <1>7, <2>1 DEF Seen
    <2>2. CASE disk[f] = found
      BY <1>3, <1>4, <1>5, <1>6, <1>7, <2>2 DEF Seen, Known
    <2> QED
      BY <2>1, <2>2
  <1> QED
    BY <1>6, <1>7, <1>9, <1>10, <1>11, <1>12 DEF WatchInv

-----------------------------------------------------------------------------
(***************************************************************************)
(* The theorems.                                                           *)
(***************************************************************************)
LEMMA WatchInvInit == Init => WatchInv
  <1> SUFFICES ASSUME Init
               PROVE  WatchInv
    OBVIOUS
  <1> DEFINE Slot == [text : Found, base : Found, dirty : BOOLEAN,
                      state : {"closed", "synced", "changed", "deleted"}]
  <1>1. /\ Missing \in Found /\ 1 \in Version /\ 1 \in Found
        /\ RawCap \in Nat /\ EventCap \in Nat
    BY WatchBounds DEF Version, Found
  <1>2. Closed \in Slot /\ Closed.base = Missing /\ Closed.state = "closed"
    BY <1>1 DEF Closed
  <1>3. /\ slot \in [File -> Slot] /\ disk \in [File -> Found] /\ Open = {}
        /\ \A f \in File : slot[f].base = Missing
    BY <1>1, <1>2 DEF Init, Open
  <1>4. /\ raw = <<>> /\ events = <<>> /\ Len(<<>>) = 0
        /\ <<>> \in Seq(RawEvent) /\ <<>> \in Seq(FsEvent)
    BY DEF Init
  <1>5. WatchTypeOK
    <2>1. Len(raw) <= RawCap /\ Len(events) <= EventCap
      BY <1>1, <1>4
    <2>2. pending \in [File -> {"none", "path", "from"} \cup File]
      BY DEF Init
    <2> QED
      BY <1>1, <1>3, <2>1, <2>2 DEF Init, WatchTypeOK
  <1>6. Queued /\ Phases
    BY <1>4 DEF Init, Queued, Phases
  <1>7. Dated
    BY <1>3 DEF Init, Dated, Past
  <1> QED
    BY <1>3, <1>5, <1>6, <1>7 DEF WatchInv

LEMMA WatchInvNext == WatchInv /\ [Next]_vars => WatchInv'
  <1> SUFFICES ASSUME WatchInv, [Next]_vars
               PROVE  WatchInv'
    OBVIOUS
  <1>1. CASE UNCHANGED vars
    <2>1. /\ UNCHANGED <<world, app, queue, missed, blind, raw, pending, due, events, worker, overflow, todo>>
      BY <1>1 DEF vars, queue, app
    <2>2. \A f \in File : OnItsWay(f) => OnItsWay(f)'
      BY <2>1 DEF OnItsWay, Held
    <2>3. Waiting' = Waiting
      BY <2>1 DEF Waiting
    <2> QED
      BY <2>1, <2>2, <2>3, WorkerStep DEF WatchInv, WatchTypeOK, Queued
  <1>2. CASE Next
    BY <1>2, ChangeKeeps, RenameKeeps, SaveKeeps, RecvKeeps, TickKeeps, FlushKeeps,
       SendRescanKeeps, ClearOverflowKeeps, OpenReadKeeps, SyncKeeps, ChecktimeAllKeeps,
       DrainKeeps, TypeKeeps, CloseKeeps, StatKeeps, StatSlotKeeps, ReadSlotKeeps
    DEF Next
  <1> QED
    BY <1>1, <1>2

\* Every variable keeps its type; in particular only open buffers are ever on the
\* list of those to check, both channels keep within their room, and whatever the
\* worker is about to flush is still pending.
THEOREM WatchTyped == Spec => []WatchTypeOK
  <1>1. WatchInv => WatchTypeOK
    BY DEF WatchInv
  <1> QED
    BY <1>1, WatchInvInit, WatchInvNext, PTL DEF Spec

\* Whatever programs, worker and event loop do in between, and whatever the room in
\* the channels: once nothing is under way, every open buffer shows what is on disk
\* or says that it does not, but for the changes in missed and the slots in blind.
THEOREM WatchQuietMeansSeen == Spec => []QuietMeansSeen
  <1>1. WatchInv => QuietMeansSeen
    <2> SUFFICES ASSUME WatchInv, Quiet, NEW f \in Open
                 PROVE  Known(f) \/ f \in missed \cup blind
      BY DEF QuietMeansSeen
    <2>1. Seen(f) /\ f \in File /\ todo = {} /\ at # "read"
      BY DEF WatchInv, Open, Quiet, Phases
    <2>2. ~About(raw, f) /\ ~About(events, f)
      BY AboutNothing DEF Quiet
    <2>3. ~Held(f)
      BY <2>1, WatchBounds DEF Quiet, Waiting, Held
    <2>4. ~OnItsWay(f)
      BY <2>1, <2>2, <2>3 DEF OnItsWay, Quiet
    <2> QED
      BY <2>1, <2>4 DEF Seen
  <1> QED
    BY <1>1, WatchInvInit, WatchInvNext, PTL DEF Spec
=============================================================================
