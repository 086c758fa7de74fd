------------------------ MODULE GrammarLoadingProofs ------------------------
(***************************************************************************)
(* What GrammarLoading promises, for every set of languages, buffers,      *)
(* worker threads and handles.                                             *)
(***************************************************************************)
EXTENDS GrammarLoading, SequenceLemmas, FiniteSetTheorems

Request == [buf : Buffer, lang : Lang, handle : Handle]

\* A thread's record, as a function of what it does.
ThreadOK(r) ==
  /\ r.pc \in {"idle", "load", "loaded", "answer"}
  /\ r.pc # "idle" => r.lang \in Lang
  /\ r.pc \in {"loaded", "answer"} => r.result \in {"ok", "failed"}
  /\ r.todo \in Seq(Handle)
  /\ r.pc # "answer" => r.todo = <<>>

LoaderTyped ==
  /\ inFlight = [l \in DOMAIN inFlight |-> inFlight[l]]
  /\ DOMAIN inFlight \subseteq Lang
  /\ \A l \in DOMAIN inFlight : inFlight[l] \in Seq(Handle)
  /\ jobs \in Seq(Lang)
  /\ worker = [w \in Worker |-> worker[w]]
  /\ \A w \in Worker : ThreadOK(worker[w])
  /\ answer \in [Handle -> {"none", "ok", "failed"}]

LayerTyped ==
  /\ cache \subseteq Lang
  /\ pending \in Seq(Request)
  /\ attached \in [Buffer -> Lang \cup {Plain, Absent}]

AppTyped ==
  /\ installed \subseteq Lang
  /\ scan \in 1 .. Len(pending) + 1
  /\ ready \in Seq(Buffer)
  /\ slot \in [Buffer -> {"new", "open", "closed"}]
  /\ filetype \in [Buffer -> Lang \cup {Plain}]
  /\ ui \in {"input", "poll", "dispatch"}
  /\ ui # "poll" => scan = 1
  /\ ui = "input" => ready = <<>>

\* The places of a job that is not drained: in the queue, or with a thread.
InQueue(l) == \E i \in DOMAIN jobs : jobs[i] = l
Loads(w, l) == worker[w].lang = l /\ worker[w].pc \in {"load", "loaded"}
AtWork(l) == \E w \in Worker : Loads(w, l)

OneJobPerLang ==
  /\ \A i, j \in DOMAIN jobs : jobs[i] = jobs[j] => i = j
  /\ \A l \in Lang : \A v, w \in Worker : Loads(v, l) /\ Loads(w, l) => v = w
  /\ \A l \in Lang : ~(InQueue(l) /\ AtWork(l))
  /\ \A l \in Lang : l \in DOMAIN inFlight <=> InQueue(l) \/ AtWork(l)

\* A LoadHandle belongs to one pending load.
HandlesAreDistinct ==
  \A i, j \in DOMAIN pending : pending[i].handle = pending[j].handle => i = j

\* A buffer whose grammar is not its filetype's is in line for a new one.
WrongOnesAreReady ==
  \A b \in Buffer : slot[b] = "open" =>
    attached[b] \in {Plain, filetype[b]} \/ b \in ToSet(ready)

GrammarInv ==
  /\ LoaderTyped /\ LayerTyped /\ AppTyped
  /\ OneJobPerLang
  /\ HandlesAreDistinct /\ NoLoadCancelled
  /\ WrongOnesAreReady

-----------------------------------------------------------------------------
LEMMA ThreadFields ==
    ASSUME NEW p, NEW l, NEW r, NEW d
    PROVE  /\ Thread(p, l, r, d).pc = p
           /\ Thread(p, l, r, d).lang = l
           /\ Thread(p, l, r, d).result = r
           /\ Thread(p, l, r, d).todo = d
  BY DEF Thread

LEMMA RequestFields ==
    ASSUME NEW s \in Seq(Request)
    PROVE  /\ Len(s) \in Nat /\ DOMAIN s = 1..Len(s)
           /\ \A i \in DOMAIN s : /\ s[i] \in Request
                                /\ s[i].buf \in Buffer /\ s[i].lang \in Lang
                                /\ s[i].handle \in Handle
  <1>1. Len(s) \in Nat /\ DOMAIN s = 1..Len(s) /\ \A i \in 1..Len(s) : s[i] \in Request
    BY LenProperties, ElementOfSeq
  <1>2. \A r \in Request : r.buf \in Buffer /\ r.lang \in Lang /\ r.handle \in Handle
    BY DEF Request
  <1> QED
    BY <1>1, <1>2

LEMMA GrammarInvInit == GrammarInit => GrammarInv
  <1> SUFFICES ASSUME GrammarInit PROVE GrammarInv
    OBVIOUS
  <1>1. /\ <<>> \in Seq(Lang) /\ <<>> \in Seq(Handle) /\ <<>> \in Seq(Request)
        /\ <<>> \in Seq(Buffer) /\ Len(<<>>) = 0 /\ DOMAIN <<>> = {}
    OBVIOUS
  <1>2. ThreadOK(IdleWorker) /\ IdleWorker.pc = "idle"
    <2>1. /\ IdleWorker.pc = "idle" /\ IdleWorker.todo = <<>>
      BY ThreadFields DEF IdleWorker
    <2> QED
      BY <1>1, <2>1 DEF ThreadOK
  <1>3. LoaderTyped
    BY <1>1, <1>2 DEF GrammarInit, LoaderTyped
  <1>4. LayerTyped /\ AppTyped
    BY <1>1 DEF GrammarInit, LayerTyped, AppTyped
  <1>5. OneJobPerLang
    BY <1>1, <1>2 DEF GrammarInit, OneJobPerLang, InQueue, AtWork, Loads
  <1>6. HandlesAreDistinct /\ NoLoadCancelled /\ WrongOnesAreReady
    BY <1>1 DEF GrammarInit, HandlesAreDistinct, NoLoadCancelled, WrongOnesAreReady
  <1> QED
    BY <1>3, <1>4, <1>5, <1>6 DEF GrammarInv

-----------------------------------------------------------------------------
(***************************************************************************)
(* What a step leaves alone.                                               *)
(***************************************************************************)
LEMMA LoaderUntouched ==
    ASSUME GrammarInv, UNCHANGED loaderVars
    PROVE  /\ LoaderTyped' /\ OneJobPerLang'
           /\ \A h \in Handle : HasSender(h)' <=> HasSender(h)
  <1>1. LoaderTyped'
    BY DEF GrammarInv, loaderVars, LoaderTyped, ThreadOK
  <1>2. OneJobPerLang'
    BY DEF GrammarInv, loaderVars, OneJobPerLang, InQueue, AtWork, Loads
  <1>3. \A h \in Handle : HasSender(h)' <=> HasSender(h)
    BY DEF loaderVars, HasSender, Subscribers
  <1> QED
    BY <1>1, <1>2, <1>3

\* The pending loads and who is going to answer them.
LEMMA PendingUntouched ==
    ASSUME GrammarInv, UNCHANGED <<pending, answer>>,
           \A h \in Handle : HasSender(h)' <=> HasSender(h)
    PROVE  HandlesAreDistinct' /\ NoLoadCancelled'
  <1>1. \A i \in DOMAIN pending : pending[i].handle \in Handle
    BY RequestFields DEF GrammarInv, LayerTyped
  <1>2. HandlesAreDistinct'
    BY DEF GrammarInv, HandlesAreDistinct
  <1>3. NoLoadCancelled'
    <2> SUFFICES ASSUME NEW i \in DOMAIN pending, NEW h \in Handle, h = pending[i].handle
                 PROVE  answer[h] # "none" \/ HasSender(h)'
      BY <1>1 DEF NoLoadCancelled, HasSender, Subscribers
    <2>1. answer[h] # "none" \/ HasSender(h)
      BY DEF GrammarInv, NoLoadCancelled
    <2> QED
      BY <2>1
  <1> QED
    BY <1>2, <1>3

-----------------------------------------------------------------------------
(***************************************************************************)
(* Requests.                                                               *)
(***************************************************************************)
\* load_async: a new handle joins the job of l, or starts it.
LEMMA LoadAsyncFacts ==
    ASSUME GrammarInv, NEW l \in Lang, NEW h \in FreeHandles, LoadAsync(l, h)
    PROVE  /\ LoaderTyped' /\ OneJobPerLang'
           /\ HasSender(h)'
           /\ \A k \in Handle : HasSender(k) => HasSender(k)'
           /\ \A k \in Handle : k # h => answer'[k] = answer[k]
  <1>1. h \in Handle /\ answer' = [answer EXCEPT ![h] = "none"] /\ worker' = worker
    BY DEF FreeHandles, LoadAsync
  <1>2. /\ answer' \in [Handle -> {"none", "ok", "failed"}]
        /\ \A k \in Handle : k # h => answer'[k] = answer[k]
    BY <1>1 DEF GrammarInv, LoaderTyped
  <1>3. \A w \in Worker : ThreadOK(worker'[w])
    BY <1>1 DEF GrammarInv, LoaderTyped
  <1>4. CASE Loading(l)
    <2>1. /\ l \in DOMAIN inFlight /\ UNCHANGED jobs
          /\ inFlight' = [inFlight EXCEPT ![l] = Append(@, h)]
      BY <1>4 DEF LoadAsync, Loading
    <2>2. inFlight[l] \in Seq(Handle)
      BY <2>1 DEF GrammarInv, LoaderTyped
    <2>3. /\ DOMAIN inFlight' = DOMAIN inFlight
          /\ inFlight' = [k \in DOMAIN inFlight' |-> inFlight'[k]]
          /\ inFlight'[l] = Append(inFlight[l], h)
          /\ \A k \in DOMAIN inFlight : k # l => inFlight'[k] = inFlight[k]
      BY <2>1 DEF GrammarInv, LoaderTyped
    <2>4. inFlight'[l] \in Seq(Handle) /\ ToSet(inFlight'[l]) = ToSet(inFlight[l]) \cup {h}
      BY <1>1, <2>2, <2>3, ToSetAppend
    <2>5. LoaderTyped'
      BY <1>1, <1>2, <1>3, <2>1, <2>3, <2>4 DEF GrammarInv, LoaderTyped
    <2>6. OneJobPerLang'
      BY <1>1, <2>1, <2>3 DEF GrammarInv, OneJobPerLang, InQueue, AtWork, Loads
    <2>7. \A k \in Handle : k = h \/ HasSender(k) => HasSender(k)'
      <3>1. Subscribers' = Subscribers \cup {h}
        BY <2>1, <2>3, <2>4 DEF Subscribers
      <3> QED
        BY <1>1, <3>1 DEF HasSender
    <2> QED
      BY <1>1, <1>2, <2>5, <2>6, <2>7
  <1>5. CASE ~Loading(l)
    <2>1. /\ l \notin DOMAIN inFlight /\ jobs' = Append(jobs, l)
          /\ inFlight' = [k \in DOMAIN inFlight \cup {l} |-> IF k = l THEN <<h>> ELSE inFlight[k]]
      BY <1>5 DEF LoadAsync, Loading
    <2>2. /\ DOMAIN inFlight' = DOMAIN inFlight \cup {l}
          /\ inFlight' = [k \in DOMAIN inFlight' |-> inFlight'[k]]
          /\ inFlight'[l] = <<h>>
          /\ \A k \in DOMAIN inFlight : inFlight'[k] = inFlight[k]
      BY <2>1
    <2>3. <<h>> \in Seq(Handle) /\ ToSet(<<h>>) = {h}
      BY <1>1 DEF ToSet
    <2>4. jobs \in Seq(Lang)
      BY DEF GrammarInv, LoaderTyped
    <2>5. /\ jobs' \in Seq(Lang)
          /\ \A i \in DOMAIN jobs : jobs'[i] = jobs[i]
          /\ jobs'[Len(jobs) + 1] = l
          /\ DOMAIN jobs' = DOMAIN jobs \cup {Len(jobs) + 1}
          /\ Len(jobs) + 1 \notin DOMAIN jobs
      BY <2>1, <2>4, ToSetAppend
    <2>6. LoaderTyped'
      BY <1>1, <1>2, <1>3, <2>2, <2>3, <2>5 DEF GrammarInv, LoaderTyped
    <2>7. OneJobPerLang'
      <3>1. \A k \in Lang : InQueue(k)' <=> InQueue(k) \/ k = l
        BY <2>5 DEF InQueue
      <3>2. \A k \in Lang : AtWork(k)' <=> AtWork(k)
        BY <1>1 DEF AtWork, Loads
      <3>3. ~InQueue(l) /\ ~AtWork(l)
        BY <2>1 DEF GrammarInv, OneJobPerLang
      <3>4. \A i, j \in DOMAIN jobs' : jobs'[i] = jobs'[j] => i = j
        BY <2>5, <3>3 DEF GrammarInv, OneJobPerLang, InQueue
      <3>5. \A k \in Lang : \A v, w \in Worker : (Loads(v, k) /\ Loads(w, k))' => v = w
        BY <1>1 DEF GrammarInv, OneJobPerLang, Loads
      <3>6. \A k \in Lang : /\ ~(InQueue(k)' /\ AtWork(k)')
                            /\ k \in DOMAIN inFlight' <=> InQueue(k)' \/ AtWork(k)'
        BY <2>2, <3>1, <3>2, <3>3 DEF GrammarInv, OneJobPerLang
      <3> QED
        BY <3>4, <3>5, <3>6 DEF OneJobPerLang
    <2>8. \A k \in Handle : k = h \/ HasSender(k) => HasSender(k)'
      <3>1. Subscribers' = Subscribers \cup {h}
        <4>1. ASSUME NEW k \in DOMAIN inFlight' PROVE ToSet(inFlight'[k]) \subseteq Subscribers \cup {h}
          BY <2>2, <2>3, <4>1 DEF Subscribers
        <4>2. ASSUME NEW k \in DOMAIN inFlight PROVE ToSet(inFlight[k]) \subseteq Subscribers'
          BY <2>2, <4>2 DEF Subscribers
        <4>3. h \in Subscribers'
          BY <2>2, <2>3 DEF Subscribers
        <4>4. Subscribers' \subseteq Subscribers \cup {h}
          BY <4>1 DEF Subscribers
        <4>5. Subscribers \subseteq Subscribers'
          BY <4>2 DEF Subscribers
        <4> QED
          BY <4>3, <4>4, <4>5
      <3> QED
        BY <1>1, <3>1 DEF HasSender
    <2> QED
      BY <1>1, <1>2, <2>6, <2>7, <2>8
  <1> QED
    BY <1>4, <1>5

\* set_language_by_name: the buffer has the grammar, or none while it loads.
LEMMA SetLanguageFacts ==
    ASSUME GrammarInv, NEW b \in Buffer, NEW l \in Lang \cup {Plain}, SetLanguage(b, l)
    PROVE  /\ LoaderTyped' /\ LayerTyped' /\ OneJobPerLang'
           /\ HandlesAreDistinct' /\ NoLoadCancelled'
           /\ attached'[b] \in {Plain, l}
           /\ \A c \in Buffer : c # b => attached'[c] = attached[c]
           /\ Len(pending') \in Nat /\ Len(pending) \in Nat /\ Len(pending) <= Len(pending')
  <1>1. /\ attached \in [Buffer -> Lang \cup {Plain, Absent}] /\ cache \subseteq Lang
        /\ pending \in Seq(Request) /\ Len(pending) \in Nat
    BY LenProperties DEF GrammarInv, LayerTyped
  <1>2. ASSUME AttachNow(b, l), cache' \subseteq Lang
        PROVE  /\ LoaderTyped' /\ LayerTyped' /\ OneJobPerLang'
               /\ HandlesAreDistinct' /\ NoLoadCancelled'
               /\ attached'[b] = l
               /\ \A c \in Buffer : c # b => attached'[c] = attached[c]
               /\ pending' = pending
    <2>1. UNCHANGED <<loaderVars, pending, answer>> /\ attached' = [attached EXCEPT ![b] = l]
      BY <1>2 DEF AttachNow, loaderVars
    <2>2. LoaderTyped' /\ OneJobPerLang' /\ \A h \in Handle : HasSender(h)' <=> HasSender(h)
      BY <2>1, LoaderUntouched
    <2>3. HandlesAreDistinct' /\ NoLoadCancelled'
      BY <2>1, <2>2, PendingUntouched
    <2> QED
      BY <1>1, <1>2, <2>1, <2>2, <2>3 DEF LayerTyped
  <1>3. CASE AttachNone(b, l) \/ AttachCached(b, l) \/ AttachInstalled(b, l)
    <2>1. AttachNow(b, l) /\ cache' \subseteq Lang
      <3>1. installed \subseteq Lang
        BY DEF GrammarInv, AppTyped
      <3> QED
        BY <1>1, <1>3, <3>1 DEF AttachNone, AttachCached, AttachInstalled
    <2> QED
      BY <1>1, <1>2, <2>1
  <1>4. CASE StartLoad(b, l)
    <2>1. PICK h \in FreeHandles : /\ LoadAsync(l, h)
                                   /\ pending' = Append(pending, [buf |-> b, lang |-> l, handle |-> h])
      BY <1>4 DEF StartLoad
    <2>2. l \in Lang /\ attached' = [attached EXCEPT ![b] = Plain] /\ UNCHANGED cache
      BY <1>4 DEF StartLoad
    <2>3. h \in Handle /\ \A i \in DOMAIN pending : pending[i].handle # h
      BY DEF FreeHandles
    <2>4. /\ LoaderTyped' /\ OneJobPerLang' /\ HasSender(h)'
          /\ \A k \in Handle : HasSender(k) => HasSender(k)'
          /\ \A k \in Handle : k # h => answer'[k] = answer[k]
      BY <2>1, <2>2, LoadAsyncFacts
    <2> DEFINE e == [buf |-> b, lang |-> l, handle |-> h]
    <2>5. e \in Request /\ e.handle = h
      BY <2>2, <2>3 DEF Request
    <2> HIDE DEF e
    <2>6. /\ pending' \in Seq(Request) /\ Len(pending') = Len(pending) + 1
          /\ \A i \in DOMAIN pending : pending'[i] = pending[i]
          /\ pending'[Len(pending) + 1] = e
          /\ DOMAIN pending' = DOMAIN pending \cup {Len(pending) + 1}
      <3>1. pending' = Append(pending, e)
        BY <2>1 DEF e
      <3> QED
        BY <1>1, <2>5, <3>1, ToSetAppend
    <2>7. LayerTyped'
      BY <1>1, <2>2, <2>6 DEF LayerTyped
    <2>8. HandlesAreDistinct'
      BY <2>3, <2>5, <2>6 DEF GrammarInv, HandlesAreDistinct
    <2>9. NoLoadCancelled'
      <3> SUFFICES ASSUME NEW i \in DOMAIN pending', NEW k \in Handle, k = pending'[i].handle
                   PROVE  answer'[k] # "none" \/ HasSender(k)'
        <4>1. \A i \in DOMAIN pending' : pending'[i].handle \in Handle
          BY <2>6, RequestFields
        <4> QED
          BY <4>1 DEF NoLoadCancelled, HasSender, Subscribers
      <3>1. CASE k = h
        BY <2>4, <3>1
      <3>2. CASE k # h
        <4>1. i \in DOMAIN pending /\ k = pending[i].handle
          BY <2>5, <2>6, <3>2
        <4>2. answer[k] # "none" \/ HasSender(k)
          BY <4>1 DEF GrammarInv, NoLoadCancelled
        <4> QED
          BY <2>4, <3>2, <4>2
      <3> QED
        BY <3>1, <3>2
    <2>10. attached'[b] = Plain /\ \A c \in Buffer : c # b => attached'[c] = attached[c]
      BY <1>1, <2>2
    <2> QED
      BY <1>1, <2>4, <2>6, <2>7, <2>8, <2>9, <2>10
  <1> QED
    BY <1>1, <1>2, <1>3, <1>4 DEF SetLanguage

-----------------------------------------------------------------------------
(***************************************************************************)
(* Steps of the event loop.                                                *)
(***************************************************************************)
LEMMA NoLoadTouched ==
    ASSUME GrammarInv, UNCHANGED <<loaderVars, pending>>,
           LayerTyped', AppTyped', WrongOnesAreReady'
    PROVE  GrammarInv'
  <1>1. LoaderTyped' /\ OneJobPerLang' /\ \A h \in Handle : HasSender(h)' <=> HasSender(h)
    BY LoaderUntouched
  <1>2. HandlesAreDistinct' /\ NoLoadCancelled'
    BY <1>1, PendingUntouched DEF loaderVars
  <1> QED
    BY <1>1, <1>2 DEF GrammarInv

LEMMA QuietSteps ==
    ASSUME GrammarInv,
           OtherInput \/ PollEnd \/ TurnEnds \/ (\E b \in Buffer : Forget(b))
             \/ (\E l \in Lang : LoadByName(l)) \/ UNCHANGED grammarVars
    PROVE  GrammarInv'
  <1>0. pending \in Seq(Request) /\ Len(pending) \in Nat
    BY RequestFields DEF GrammarInv, LayerTyped
  <1>1. CASE OtherInput \/ PollEnd \/ TurnEnds
    <2>1. UNCHANGED <<loaderVars, pending, cache, attached, installed, ready, slot, filetype>>
      BY <1>1 DEF OtherInput, PollEnd, TurnEnds, layerVars
    <2>2. LayerTyped'
      BY <2>1 DEF GrammarInv, LayerTyped
    <2>3. AppTyped'
      BY <1>0, <1>1, <2>1 DEF GrammarInv, AppTyped, OtherInput, PollEnd, TurnEnds
    <2>4. WrongOnesAreReady'
      BY <2>1 DEF GrammarInv, WrongOnesAreReady
    <2> QED
      BY <2>1, <2>2, <2>3, <2>4, NoLoadTouched
  <1>2. ASSUME NEW b \in Buffer, Forget(b) PROVE GrammarInv'
    <2>1. /\ UNCHANGED <<loaderVars, cache, pending, installed, scan, ready>>
          /\ attached' = [attached EXCEPT ![b] = Absent] /\ slot' = [slot EXCEPT ![b] = "closed"]
          /\ filetype' = [filetype EXCEPT ![b] = Plain] /\ ui' = "poll"
      BY <1>2 DEF Forget
    <2>2. LayerTyped' /\ AppTyped'
      BY <2>1 DEF GrammarInv, LayerTyped, AppTyped
    <2>3. WrongOnesAreReady'
      BY <2>1 DEF GrammarInv, WrongOnesAreReady, LayerTyped, AppTyped
    <2> QED
      BY <2>1, <2>2, <2>3, NoLoadTouched
  <1>3. ASSUME NEW l \in Lang, LoadByName(l) PROVE GrammarInv'
    <2>1. /\ UNCHANGED <<loaderVars, pending, attached, scan, ready, slot, filetype, ui>>
          /\ cache' = cache \cup {l} /\ installed' = installed \cup {l}
      BY <1>3 DEF LoadByName
    <2>2. LayerTyped' /\ AppTyped' /\ WrongOnesAreReady'
      BY <2>1 DEF GrammarInv, LayerTyped, AppTyped, WrongOnesAreReady
    <2> QED
      BY <2>1, <2>2, NoLoadTouched
  <1>4. CASE UNCHANGED grammarVars
    <2>1. UNCHANGED <<loaderVars, pending, cache, attached, installed, scan, ready, slot, filetype, ui>>
      BY <1>4 DEF grammarVars, layerVars
    <2>2. LayerTyped' /\ AppTyped' /\ WrongOnesAreReady'
      BY <2>1 DEF GrammarInv, LayerTyped, AppTyped, WrongOnesAreReady
    <2> QED
      BY <2>1, <2>2, NoLoadTouched
  <1> QED
    BY <1>1, <1>2, <1>3, <1>4

LEMMA SetFiletypeKeeps ==
    ASSUME GrammarInv, NEW b \in Buffer, NEW l \in Lang \cup {Plain}, SetFiletype(b, l)
    PROVE  GrammarInv'
  <1>1. /\ SetLanguage(b, l) /\ slot' = [slot EXCEPT ![b] = "open"]
        /\ filetype' = [filetype EXCEPT ![b] = l] /\ ui = "input" /\ ui' = "poll"
        /\ UNCHANGED <<installed, scan, ready>>
    BY DEF SetFiletype
  <1>2. /\ LoaderTyped' /\ LayerTyped' /\ OneJobPerLang'
        /\ HandlesAreDistinct' /\ NoLoadCancelled'
        /\ attached'[b] \in {Plain, l}
        /\ \A c \in Buffer : c # b => attached'[c] = attached[c]
        /\ Len(pending') \in Nat /\ Len(pending) \in Nat /\ Len(pending) <= Len(pending')
    BY <1>1, SetLanguageFacts
  <1>3. AppTyped'
    BY <1>1, <1>2 DEF GrammarInv, AppTyped
  <1>4. WrongOnesAreReady'
    <2>1. /\ filetype'[b] = l /\ \A c \in Buffer : c # b => filetype'[c] = filetype[c] /\ slot'[c] = slot[c]
      BY <1>1 DEF GrammarInv, AppTyped
    <2> QED
      BY <1>1, <1>2, <2>1 DEF GrammarInv, WrongOnesAreReady
  <1> QED
    BY <1>2, <1>3, <1>4 DEF GrammarInv

LEMMA DispatchKeeps ==
    ASSUME GrammarInv, Dispatch PROVE GrammarInv'
  <1> DEFINE b == Head(ready)
  <1>1. /\ ui = "dispatch" /\ ready # <<>> /\ ready' = Tail(ready)
        /\ UNCHANGED <<installed, scan, slot, filetype, ui>>
    BY DEF Dispatch
  <1>2. ready \in Seq(Buffer)
    BY DEF GrammarInv, AppTyped
  <1>3. b \in Buffer /\ ready' \in Seq(Buffer) /\ ToSet(ready) = {b} \cup ToSet(ready')
    BY <1>1, <1>2, ToSetTail
  <1>4. CASE slot[b] = "open"
    <2>1. SetLanguage(b, filetype[b])
      BY <1>4 DEF Dispatch, Reattach
    <2>2. filetype[b] \in Lang \cup {Plain}
      BY <1>3 DEF GrammarInv, AppTyped
    <2> HIDE DEF b
    <2>3. /\ LoaderTyped' /\ LayerTyped' /\ OneJobPerLang'
          /\ HandlesAreDistinct' /\ NoLoadCancelled'
          /\ attached'[b] \in {Plain, filetype[b]}
          /\ \A c \in Buffer : c # b => attached'[c] = attached[c]
          /\ Len(pending') \in Nat /\ Len(pending) \in Nat /\ Len(pending) <= Len(pending')
      BY <1>3, <2>1, <2>2, SetLanguageFacts
    <2>4. AppTyped'
      BY <1>1, <1>3, <2>3 DEF GrammarInv, AppTyped
    <2>5. WrongOnesAreReady'
      BY <1>1, <1>3, <2>3 DEF GrammarInv, WrongOnesAreReady
    <2> QED
      BY <2>3, <2>4, <2>5 DEF GrammarInv
  <1>5. CASE slot[b] # "open"
    <2>1. UNCHANGED <<loaderVars, pending, cache, attached>>
      BY <1>5 DEF Dispatch, Reattach, layerVars
    <2> HIDE DEF b
    <2>2. LayerTyped' /\ AppTyped'
      BY <1>1, <1>3, <2>1 DEF GrammarInv, LayerTyped, AppTyped
    <2>3. WrongOnesAreReady'
      BY <1>1, <1>3, <1>5, <2>1 DEF GrammarInv, WrongOnesAreReady
    <2> QED
      BY <2>1, <2>2, <2>3, NoLoadTouched
  <1> QED
    BY <1>4, <1>5

\* r holds elements of s other than s[i], each from a place of its own.
TakenFrom(r, s, i) ==
  \E from \in [DOMAIN r -> DOMAIN s] :
    /\ \A k \in DOMAIN r : r[k] = s[from[k]] /\ from[k] # i
    /\ \A j, k \in DOMAIN r : from[j] = from[k] => j = k

\* Vec::swap_remove: every element but one, each from a place of its own.
LEMMA SwapRemoveFacts ==
    ASSUME NEW S, NEW s \in Seq(S), NEW i \in 1..Len(s)
    PROVE  /\ SwapRemove(s, i) \in Seq(S)
           /\ Len(SwapRemove(s, i)) = Len(s) - 1
           /\ DOMAIN SwapRemove(s, i) = 1..(Len(s) - 1)
           /\ TakenFrom(SwapRemove(s, i), s, i)
  <1> DEFINE n == Len(s)
             r == SwapRemove(s, i)
             from == [k \in 1..(n - 1) |-> IF k = i THEN n ELSE k]
  <1>1. n \in Nat /\ DOMAIN s = 1..n /\ i \in 1..n /\ \A k \in 1..n : s[k] \in S
    BY LenProperties, ElementOfSeq
  <1>2. r = [k \in 1..(n - 1) |-> IF k = i THEN s[n] ELSE s[k]]
    BY DEF SwapRemove
  <1> HIDE DEF n, r
  <1>3. n \in 1..n /\ \A k \in 1..(n - 1) : k \in 1..n /\ k # n
    BY <1>1
  <1>4. from \in [1..(n - 1) -> 1..n]
    BY <1>3
  <1>5. \A k \in 1..(n - 1) : r[k] = s[from[k]] /\ from[k] # i
    BY <1>2, <1>3
  <1>6. \A j, k \in 1..(n - 1) : from[j] = from[k] => j = k
    BY <1>3
  <1>7. \A k \in 1..(n - 1) : r[k] \in S
    BY <1>1, <1>4, <1>5
  <1>8. r = [k \in 1..(n - 1) |-> r[k]] /\ DOMAIN r = 1..(n - 1)
    BY <1>2
  <1>9. n - 1 \in Nat
    BY <1>1
  <1>10. r \in Seq(S)
    BY <1>7, <1>8, <1>9, IsASeq
  <1>11. Len(r) = n - 1
    BY <1>8, <1>9, <1>10, LenProperties
  <1>12. TakenFrom(r, s, i)
    <2>1. from \in [DOMAIN r -> DOMAIN s]
      BY <1>1, <1>4, <1>8
    <2>2. /\ \A k \in DOMAIN r : r[k] = s[from[k]] /\ from[k] # i
          /\ \A j, k \in DOMAIN r : from[j] = from[k] => j = k
      BY <1>5, <1>6, <1>8
    <2> HIDE DEF from
    <2> QED
      BY <2>1, <2>2 DEF TakenFrom
  <1> QED
    BY <1>8, <1>10, <1>11, <1>12 DEF n, r

\* The polled load leaves pending_loads; the others keep their handles.
LEMMA SettleFacts ==
    ASSUME GrammarInv, ui = "poll", ~ScanDone, Settle, UNCHANGED <<inFlight, jobs, worker>>
    PROVE  /\ LoaderTyped' /\ OneJobPerLang'
           /\ pending' \in Seq(Request) /\ scan' \in 1 .. Len(pending') + 1
           /\ HandlesAreDistinct' /\ NoLoadCancelled'
           /\ Entry.buf \in Buffer /\ Entry.lang \in Lang
  <1>1. /\ pending \in Seq(Request) /\ Len(pending) \in Nat /\ DOMAIN pending = 1..Len(pending)
        /\ \A i \in DOMAIN pending : /\ pending[i].buf \in Buffer /\ pending[i].lang \in Lang
                                    /\ pending[i].handle \in Handle
    BY RequestFields DEF GrammarInv, LayerTyped
  <1>2. scan \in 1..Len(pending)
    BY <1>1 DEF ScanDone, GrammarInv, AppTyped
  <1> DEFINE n == Len(pending)
             h == Entry.handle
  <1>3. Entry = pending[scan] /\ h \in Handle /\ Entry.buf \in Buffer /\ Entry.lang \in Lang
    BY <1>1, <1>2 DEF Entry
  <1>4. /\ pending' = SwapRemove(pending, scan) /\ scan' = scan
        /\ answer' = [answer EXCEPT ![h] = "none"]
    BY DEF Settle
  <1>5. /\ pending' \in Seq(Request) /\ Len(pending') = n - 1 /\ DOMAIN pending' = 1..(n - 1)
        /\ TakenFrom(pending', pending, scan)
    BY <1>1, <1>2, <1>4, SwapRemoveFacts
  <1>6. PICK from \in [1..(n - 1) -> DOMAIN pending] :
              /\ \A k \in 1..(n - 1) : pending'[k] = pending[from[k]] /\ from[k] # scan
              /\ \A j, k \in 1..(n - 1) : from[j] = from[k] => j = k
    BY <1>5 DEF TakenFrom
  <1>7. scan' \in 1 .. Len(pending') + 1
    <2>1. n \in Nat /\ scan \in 1..n /\ Len(pending') = n - 1
      BY <1>1, <1>2, <1>5
    <2> HIDE DEF n
    <2>2. scan \in 1 .. (n - 1) + 1
      BY <2>1
    <2> QED
      BY <1>4, <2>1, <2>2
  <1>8. HandlesAreDistinct'
    <2> SUFFICES ASSUME NEW j \in 1..(n - 1), NEW k \in 1..(n - 1),
                        pending'[j].handle = pending'[k].handle
                 PROVE  j = k
      BY <1>5 DEF HandlesAreDistinct
    <2>1. from[j] = from[k]
      BY <1>6 DEF GrammarInv, HandlesAreDistinct
    <2> QED
      BY <1>6, <2>1
  <1>9. /\ answer' \in [Handle -> {"none", "ok", "failed"}]
        /\ \A k \in Handle : k # h => answer'[k] = answer[k]
    BY <1>3, <1>4 DEF GrammarInv, LoaderTyped
  <1>10. LoaderTyped'
    BY <1>9 DEF GrammarInv, LoaderTyped, ThreadOK
  <1>11. OneJobPerLang'
    BY DEF GrammarInv, OneJobPerLang, InQueue, AtWork, Loads
  <1>12. NoLoadCancelled'
    <2> SUFFICES ASSUME NEW i \in 1..(n - 1), NEW k \in Handle, k = pending'[i].handle
                 PROVE  answer'[k] # "none" \/ HasSender(k)
      <3>1. \A i \in 1..(n - 1) : pending'[i].handle \in Handle
        BY <1>5, RequestFields
      <3> QED
        BY <1>5, <3>1 DEF NoLoadCancelled, HasSender, Subscribers
    <2>1. from[i] \in DOMAIN pending /\ k = pending[from[i]].handle /\ from[i] # scan
      BY <1>6
    <2>2. k # h
      BY <1>1, <1>2, <1>3, <2>1 DEF GrammarInv, HandlesAreDistinct
    <2>3. answer[k] # "none" \/ HasSender(k)
      BY <2>1 DEF GrammarInv, NoLoadCancelled
    <2> QED
      BY <1>9, <2>2, <2>3
  <1> QED
    BY <1>3, <1>5, <1>7, <1>8, <1>10, <1>11, <1>12

LEMMA PollEntryKeeps ==
    ASSUME GrammarInv, PollEntry PROVE GrammarInv'
  <1>1. /\ ui = "poll" /\ ui' = "poll" /\ ~ScanDone
        /\ UNCHANGED <<inFlight, jobs, worker, installed, slot, filetype>>
    BY DEF PollEntry
  <1>2. CASE PollWaiting
    <2>1. UNCHANGED <<loaderVars, pending, cache, attached, ready>> /\ scan' = scan + 1
      BY <1>1, <1>2 DEF PollWaiting, layerVars, loaderVars
    <2>2. Len(pending) \in Nat
      BY RequestFields DEF GrammarInv, LayerTyped
    <2>3. scan' \in 1 .. Len(pending) + 1
      BY <1>1, <2>1, <2>2 DEF ScanDone, GrammarInv, AppTyped
    <2>4. LayerTyped' /\ AppTyped' /\ WrongOnesAreReady'
      BY <1>1, <2>1, <2>3 DEF GrammarInv, LayerTyped, AppTyped, WrongOnesAreReady
    <2> QED
      BY <2>1, <2>4, NoLoadTouched
  <1>3. CASE Settle
    <2>1. /\ LoaderTyped' /\ OneJobPerLang'
          /\ pending' \in Seq(Request) /\ scan' \in 1 .. Len(pending') + 1
          /\ HandlesAreDistinct' /\ NoLoadCancelled'
          /\ Entry.buf \in Buffer /\ Entry.lang \in Lang
      BY <1>1, <1>3, SettleFacts
    <2>2. CASE PollReady
      <3>1. /\ cache' = cache \cup {Entry.lang} /\ ready' = Append(ready, Entry.buf)
            /\ attached' = [attached EXCEPT ![Entry.buf] = Entry.lang]
        BY <2>2 DEF PollReady
      <3>2. ready \in Seq(Buffer)
        BY DEF GrammarInv, AppTyped
      <3>3. ready' \in Seq(Buffer) /\ ToSet(ready') = ToSet(ready) \cup {Entry.buf}
        BY <2>1, <3>1, <3>2, ToSetAppend
      <3>4. LayerTyped'
        BY <2>1, <3>1 DEF GrammarInv, LayerTyped
      <3>5. AppTyped'
        BY <1>1, <2>1, <3>3 DEF GrammarInv, AppTyped
      <3>6. \A c \in Buffer : c # Entry.buf => attached'[c] = attached[c]
        BY <3>1 DEF GrammarInv, LayerTyped
      <3>7. WrongOnesAreReady'
        BY <1>1, <3>3, <3>6 DEF GrammarInv, WrongOnesAreReady
      <3> QED
        BY <2>1, <3>4, <3>5, <3>7 DEF GrammarInv
    <2>3. CASE PollFailed
      <3>1. UNCHANGED <<cache, attached, ready>>
        BY <2>3 DEF PollFailed
      <3>2. LayerTyped' /\ AppTyped' /\ WrongOnesAreReady'
        BY <1>1, <2>1, <3>1 DEF GrammarInv, LayerTyped, AppTyped, WrongOnesAreReady
      <3> QED
        BY <2>1, <3>2 DEF GrammarInv
    <2>4. CASE PollWaiting
      BY <1>2, <2>4
    <2> QED
      BY <2>2, <2>3, <2>4 DEF PollEntry
  <1> QED
    BY <1>2, <1>3 DEF PollEntry, PollReady, PollFailed

-----------------------------------------------------------------------------
(***************************************************************************)
(* Steps of a worker thread.                                               *)
(***************************************************************************)
LEMMA OneThread ==
    ASSUME GrammarInv, NEW w \in Worker, NEW r, ThreadOK(r),
           worker' = [worker EXCEPT ![w] = r]
    PROVE  /\ worker' = [v \in Worker |-> worker'[v]]
           /\ worker'[w] = r
           /\ \A v \in Worker : v # w => worker'[v] = worker[v]
           /\ \A v \in Worker : ThreadOK(worker'[v])
  <1>1. worker = [v \in Worker |-> worker[v]] /\ \A v \in Worker : ThreadOK(worker[v])
    BY DEF GrammarInv, LoaderTyped
  <1>2. /\ worker' = [v \in Worker |-> worker'[v]] /\ worker'[w] = r
        /\ \A v \in Worker : v # w => worker'[v] = worker[v]
    BY <1>1
  <1> QED
    BY <1>1, <1>2

\* A worker changes nothing of the application.
LEMMA WorkerLeavesApp ==
    ASSUME GrammarInv, UNCHANGED uiVars, installed' \subseteq Lang
    PROVE  LayerTyped' /\ AppTyped' /\ WrongOnesAreReady' /\ HandlesAreDistinct'
  <1>1. UNCHANGED <<cache, pending, attached, scan, ready, slot, filetype, ui>>
    BY DEF uiVars, layerVars
  <1> QED
    BY <1>1 DEF GrammarInv, LayerTyped, AppTyped, WrongOnesAreReady, HandlesAreDistinct

\* Who was going to answer still is, or has.
LEMMA StillAnswered ==
    ASSUME GrammarInv, UNCHANGED pending,
           \A k \in Handle : answer[k] # "none" \/ HasSender(k)
                               => answer'[k] # "none" \/ HasSender(k)'
    PROVE  NoLoadCancelled'
  <1> SUFFICES ASSUME NEW i \in DOMAIN pending, NEW k \in Handle, k = pending[i].handle
               PROVE  answer'[k] # "none" \/ HasSender(k)'
    <2>1. \A i \in DOMAIN pending : pending[i].handle \in Handle
      BY RequestFields DEF GrammarInv, LayerTyped
    <2> QED
      BY <2>1 DEF NoLoadCancelled, HasSender, Subscribers
  <1>1. answer[k] # "none" \/ HasSender(k)
    BY DEF GrammarInv, NoLoadCancelled
  <1> QED
    BY <1>1

LEMMA GrammarTakeJobKeeps ==
    ASSUME GrammarInv, NEW w \in Worker, TakeJob(w) PROVE GrammarInv'
  <1> DEFINE r == Thread("load", Head(jobs), "none", <<>>)
  <1>1. /\ worker[w].pc = "idle" /\ jobs # <<>> /\ jobs' = Tail(jobs)
        /\ worker' = [worker EXCEPT ![w] = r]
        /\ UNCHANGED <<inFlight, answer, installed, uiVars>>
    BY DEF TakeJob
  <1>2. jobs \in Seq(Lang) /\ \A i, j \in DOMAIN jobs : jobs[i] = jobs[j] => i = j
    BY DEF GrammarInv, LoaderTyped, OneJobPerLang
  <1>3. /\ jobs' \in Seq(Lang) /\ Head(jobs) \in Lang /\ Head(jobs) = jobs[1] /\ 1 \in DOMAIN jobs
    BY <1>1, <1>2, ToSetTail
  <1>4. /\ \A i, j \in DOMAIN jobs' : jobs'[i] = jobs'[j] => i = j
        /\ \A l \in Lang : InQueue(l)' <=> InQueue(l) /\ l # Head(jobs)
    BY <1>1, <1>2, DistinctTail DEF InQueue
  <1>5. r.pc = "load" /\ r.lang = Head(jobs) /\ r.result = "none" /\ r.todo = <<>>
    BY ThreadFields
  <1> HIDE DEF r
  <1>6. ThreadOK(r)
    BY <1>3, <1>5 DEF ThreadOK
  <1>7. /\ worker' = [v \in Worker |-> worker'[v]] /\ worker'[w] = r
        /\ \A v \in Worker : v # w => worker'[v] = worker[v]
        /\ \A v \in Worker : ThreadOK(worker'[v])
    BY <1>1, <1>6, OneThread
  <1>8. LoaderTyped'
    BY <1>1, <1>3, <1>7 DEF GrammarInv, LoaderTyped
  <1>9. LayerTyped' /\ AppTyped' /\ WrongOnesAreReady' /\ HandlesAreDistinct'
    BY <1>1, WorkerLeavesApp DEF GrammarInv, AppTyped
  <1>10. OneJobPerLang'
    <2>1. \A v \in Worker, l \in Lang :
            Loads(v, l)' <=> Loads(v, l) \/ (v = w /\ l = Head(jobs))
      BY <1>1, <1>5, <1>7 DEF Loads
    <2>2. InQueue(Head(jobs)) /\ ~AtWork(Head(jobs))
      BY <1>3 DEF InQueue, GrammarInv, OneJobPerLang
    <2>3. \A l \in Lang : AtWork(l)' <=> AtWork(l) \/ l = Head(jobs)
      BY <2>1 DEF AtWork
    <2>4. \A l \in Lang : \A v, u \in Worker : Loads(v, l)' /\ Loads(u, l)' => v = u
      BY <2>1, <2>2 DEF GrammarInv, OneJobPerLang, AtWork
    <2>5. \A l \in Lang : /\ ~(InQueue(l)' /\ AtWork(l)')
                          /\ l \in DOMAIN inFlight' <=> InQueue(l)' \/ AtWork(l)'
      BY <1>1, <1>4, <2>2, <2>3 DEF GrammarInv, OneJobPerLang
    <2> QED
      BY <1>4, <2>4, <2>5 DEF OneJobPerLang
  <1>11. NoLoadCancelled'
    <2>1. worker[w].todo = <<>>
      BY <1>1 DEF GrammarInv, LoaderTyped, ThreadOK
    <2>2. \A v \in Worker : worker'[v].todo = worker[v].todo
      BY <1>5, <1>7, <2>1
    <2>3. \A k \in Handle : HasSender(k)' <=> HasSender(k)
      BY <1>1, <2>2 DEF HasSender, Subscribers
    <2> QED
      BY <1>1, <2>3, StillAnswered DEF uiVars, layerVars
  <1> QED
    BY <1>8, <1>9, <1>10, <1>11 DEF GrammarInv

LEMMA GrammarLoadKeeps ==
    ASSUME GrammarInv, NEW w \in Worker, Load(w) PROVE GrammarInv'
  <1>1. /\ worker[w].pc = "load" /\ UNCHANGED <<inFlight, jobs, answer, uiVars>>
    BY DEF Load
  <1>2. ThreadOK(worker[w]) /\ worker[w].lang \in Lang /\ worker[w].todo = <<>>
    BY <1>1 DEF GrammarInv, LoaderTyped, ThreadOK
  <1>3. installed' \subseteq Lang
    BY <1>2 DEF Load, GrammarInv, AppTyped
  <1>4. PICK x \in {"ok", "failed"} :
          worker' = [worker EXCEPT ![w] = Thread("loaded", worker[w].lang, x, <<>>)]
    BY DEF Load
  <1> DEFINE r == Thread("loaded", worker[w].lang, x, <<>>)
  <1>5. r.pc = "loaded" /\ r.lang = worker[w].lang /\ r.result = x /\ r.todo = <<>>
    BY ThreadFields
  <1>6. worker' = [worker EXCEPT ![w] = r]
    BY <1>4
  <1> HIDE DEF r
  <1>7. ThreadOK(r)
    BY <1>2, <1>5 DEF ThreadOK
  <1>8. /\ worker' = [v \in Worker |-> worker'[v]] /\ worker'[w] = r
        /\ \A v \in Worker : v # w => worker'[v] = worker[v]
        /\ \A v \in Worker : ThreadOK(worker'[v])
    BY <1>6, <1>7, OneThread
  <1>9. LoaderTyped'
    BY <1>1, <1>8 DEF GrammarInv, LoaderTyped
  <1>10. LayerTyped' /\ AppTyped' /\ WrongOnesAreReady' /\ HandlesAreDistinct'
    BY <1>1, <1>3, WorkerLeavesApp
  <1>11. OneJobPerLang'
    <2>1. \A v \in Worker, l \in Lang : Loads(v, l)' <=> Loads(v, l)
      BY <1>1, <1>5, <1>8 DEF Loads
    <2> QED
      BY <1>1, <2>1 DEF GrammarInv, OneJobPerLang, InQueue, AtWork
  <1>12. NoLoadCancelled'
    <2>1. \A v \in Worker : worker'[v].todo = worker[v].todo
      BY <1>2, <1>5, <1>8
    <2>2. \A k \in Handle : HasSender(k)' <=> HasSender(k)
      BY <1>1, <2>1 DEF HasSender, Subscribers
    <2> QED
      BY <1>1, <2>2, StillAnswered DEF uiVars, layerVars
  <1> QED
    BY <1>9, <1>10, <1>11, <1>12 DEF GrammarInv

\* The entry goes and its subscribers go to the worker, in one step.
LEMMA DrainKeeps ==
    ASSUME GrammarInv, NEW w \in Worker, Drain(w) PROVE GrammarInv'
  <1> DEFINE l == worker[w].lang
             r == Thread("answer", l, worker[w].result, inFlight[l])
  <1>1. /\ worker[w].pc = "loaded" /\ worker' = [worker EXCEPT ![w] = r]
        /\ inFlight' = [k \in DOMAIN inFlight \ {l} |-> inFlight[k]]
        /\ UNCHANGED <<jobs, answer, installed, uiVars>>
    BY DEF Drain, Drained
  <1>2. l \in Lang /\ worker[w].result \in {"ok", "failed"} /\ worker[w].todo = <<>>
    BY <1>1 DEF GrammarInv, LoaderTyped, ThreadOK
  <1>3. AtWork(l) /\ ~InQueue(l) /\ l \in DOMAIN inFlight
    BY <1>1, <1>2 DEF AtWork, Loads, GrammarInv, OneJobPerLang
  <1>4. inFlight[l] \in Seq(Handle)
    BY <1>3 DEF GrammarInv, LoaderTyped
  <1>5. r.pc = "answer" /\ r.lang = l /\ r.result = worker[w].result /\ r.todo = inFlight[l]
    BY ThreadFields
  <1> HIDE DEF r
  <1>6. ThreadOK(r)
    BY <1>2, <1>4, <1>5 DEF ThreadOK
  <1>7. /\ worker' = [v \in Worker |-> worker'[v]] /\ worker'[w] = r
        /\ \A v \in Worker : v # w => worker'[v] = worker[v]
        /\ \A v \in Worker : ThreadOK(worker'[v])
    BY <1>1, <1>6, OneThread
  <1>8. /\ DOMAIN inFlight' = DOMAIN inFlight \ {l}
        /\ inFlight' = [k \in DOMAIN inFlight' |-> inFlight'[k]]
        /\ \A k \in DOMAIN inFlight' : inFlight'[k] = inFlight[k]
    BY <1>1
  <1>9. LoaderTyped'
    BY <1>1, <1>7, <1>8 DEF GrammarInv, LoaderTyped
  <1>10. LayerTyped' /\ AppTyped' /\ WrongOnesAreReady' /\ HandlesAreDistinct'
    BY <1>1, WorkerLeavesApp DEF GrammarInv, AppTyped
  <1>11. OneJobPerLang'
    <2>1. \A v \in Worker : \A k \in Lang : Loads(v, k)' <=> Loads(v, k) /\ v # w
      BY <1>5, <1>7 DEF Loads
    <2>2. Loads(w, l)
      BY <1>1 DEF Loads
    <2>3. \A v \in Worker : Loads(v, l) => v = w
      BY <1>2, <2>2 DEF GrammarInv, OneJobPerLang
    <2>4. \A k \in Lang : AtWork(k)' <=> AtWork(k) /\ k # l
      <3>1. ASSUME NEW k \in Lang, AtWork(k)' PROVE AtWork(k) /\ k # l
        BY <2>1, <2>3, <3>1 DEF AtWork
      <3>2. ASSUME NEW k \in Lang, AtWork(k), k # l PROVE AtWork(k)'
        <4>1. PICK v \in Worker : Loads(v, k)
          BY <3>2 DEF AtWork
        <4>2. v # w
          BY <3>2, <4>1 DEF Loads
        <4> QED
          BY <2>1, <4>1, <4>2 DEF AtWork
      <3> QED
        BY <3>1, <3>2
    <2>5. \A k \in Lang : InQueue(k)' <=> InQueue(k)
      BY <1>1 DEF InQueue
    <2>6. \A k \in Lang : /\ ~(InQueue(k)' /\ AtWork(k)')
                          /\ k \in DOMAIN inFlight' <=> InQueue(k)' \/ AtWork(k)'
      BY <1>3, <1>8, <2>4, <2>5 DEF GrammarInv, OneJobPerLang
    <2>7. \A k \in Lang : \A v, u \in Worker : Loads(v, k)' /\ Loads(u, k)' => v = u
      BY <2>1 DEF GrammarInv, OneJobPerLang
    <2> QED
      BY <1>1, <2>6, <2>7 DEF GrammarInv, OneJobPerLang
  <1>12. NoLoadCancelled'
    <2>1. ASSUME NEW k \in Handle, HasSender(k) PROVE HasSender(k)'
      <3>1. CASE \E v \in Worker : k \in ToSet(worker[v].todo)
        <4>1. PICK v \in Worker : k \in ToSet(worker[v].todo)
          BY <3>1
        <4>2. v # w
          BY <1>2, <4>1 DEF ToSet
        <4> QED
          BY <1>7, <4>1, <4>2 DEF HasSender
      <3>2. CASE k \in Subscribers
        <4>1. PICK m \in DOMAIN inFlight : k \in ToSet(inFlight[m])
          BY <3>2 DEF Subscribers
        <4>2. CASE m = l
          BY <1>5, <1>7, <4>1, <4>2 DEF HasSender
        <4>3. CASE m # l
          <5>1. k \in Subscribers'
            BY <1>8, <4>1, <4>3 DEF Subscribers
          <5> QED
            BY <5>1 DEF HasSender
        <4> QED
          BY <4>2, <4>3
      <3> QED
        BY <2>1, <3>1, <3>2 DEF HasSender
    <2> QED
      BY <1>1, <2>1, StillAnswered DEF uiVars, layerVars
  <1> QED
    BY <1>9, <1>10, <1>11, <1>12 DEF GrammarInv

LEMMA AnswerKeeps ==
    ASSUME GrammarInv, NEW w \in Worker, Answer(w) PROVE GrammarInv'
  <1> DEFINE d == worker[w].todo
             h == Head(d)
  <1>1. /\ worker[w].pc = "answer" /\ UNCHANGED <<inFlight, jobs, installed, uiVars>>
    BY DEF Answer
  <1>2. /\ ThreadOK(worker[w]) /\ worker[w].lang \in Lang /\ d \in Seq(Handle)
        /\ worker[w].result \in {"ok", "failed"}
    BY <1>1 DEF GrammarInv, LoaderTyped, ThreadOK
  <1>3. LayerTyped' /\ AppTyped' /\ WrongOnesAreReady' /\ HandlesAreDistinct'
    BY <1>1, WorkerLeavesApp DEF GrammarInv, AppTyped
  <1>4. ASSUME NEW r, ThreadOK(r), worker' = [worker EXCEPT ![w] = r],
               r.pc \in {"idle", "answer"},
               answer' \in [Handle -> {"none", "ok", "failed"}],
               \A k \in Handle : answer[k] # "none" => answer'[k] # "none",
               \A k \in ToSet(d) : k \in ToSet(r.todo) \/ answer'[k] # "none"
        PROVE  GrammarInv'
    <2>1. /\ worker' = [v \in Worker |-> worker'[v]] /\ worker'[w] = r
          /\ \A v \in Worker : v # w => worker'[v] = worker[v]
          /\ \A v \in Worker : ThreadOK(worker'[v])
      BY <1>4, OneThread
    <2>2. LoaderTyped'
      BY <1>1, <1>4, <2>1 DEF GrammarInv, LoaderTyped
    <2>3. OneJobPerLang'
      <3>1. \A v \in Worker, l \in Lang : Loads(v, l)' <=> Loads(v, l)
        BY <1>1, <1>4, <2>1 DEF Loads
      <3> QED
        BY <1>1, <3>1 DEF GrammarInv, OneJobPerLang, InQueue, AtWork
    <2>4. ASSUME NEW k \in Handle, HasSender(k) PROVE answer'[k] # "none" \/ HasSender(k)'
      <3>1. CASE k \in Subscribers
        BY <1>1, <3>1 DEF HasSender, Subscribers
      <3>2. CASE k \in ToSet(d)
        BY <1>4, <2>1, <3>2 DEF HasSender
      <3>3. ASSUME NEW v \in Worker, v # w, k \in ToSet(worker[v].todo) PROVE HasSender(k)'
        BY <2>1, <3>3 DEF HasSender
      <3> QED
        BY <2>4, <3>1, <3>2, <3>3 DEF HasSender
    <2>5. NoLoadCancelled'
      BY <1>1, <1>4, <2>4, StillAnswered DEF uiVars, layerVars
    <2> QED
      BY <1>3, <2>2, <2>3, <2>5 DEF GrammarInv
  <1>5. answer \in [Handle -> {"none", "ok", "failed"}]
    BY DEF GrammarInv, LoaderTyped
  <1>6. CASE d = <<>>
    <2>1. worker' = [worker EXCEPT ![w] = IdleWorker] /\ answer' = answer
      BY <1>6 DEF Answer
    <2>2. IdleWorker.pc = "idle" /\ IdleWorker.todo = <<>>
      BY ThreadFields DEF IdleWorker
    <2>3. ThreadOK(IdleWorker)
      <3>1. <<>> \in Seq(Handle)
        OBVIOUS
      <3> QED
        BY <2>2, <3>1 DEF ThreadOK
    <2>4. ToSet(d) = {}
      BY <1>6 DEF ToSet
    <2> QED
      BY <1>4, <1>5, <2>1, <2>2, <2>3, <2>4
  <1>7. CASE d # <<>>
    <2> DEFINE r == Thread("answer", worker[w].lang, worker[w].result, Tail(d))
    <2>1. worker' = [worker EXCEPT ![w] = r] /\ answer' = [answer EXCEPT ![h] = worker[w].result]
      BY <1>7 DEF Answer
    <2>2. /\ r.pc = "answer" /\ r.lang = worker[w].lang /\ r.result = worker[w].result
          /\ r.todo = Tail(d)
      BY ThreadFields
    <2> HIDE DEF r
    <2>3. h \in Handle /\ Tail(d) \in Seq(Handle) /\ ToSet(d) = {h} \cup ToSet(Tail(d))
      BY <1>2, <1>7, ToSetTail
    <2>4. ThreadOK(r)
      BY <1>2, <2>2, <2>3 DEF ThreadOK
    <2>5. /\ answer' \in [Handle -> {"none", "ok", "failed"}] /\ answer'[h] # "none"
          /\ \A k \in Handle : k # h => answer'[k] = answer[k]
      BY <1>2, <1>5, <2>1, <2>3
    <2> HIDE DEF h
    <2> QED
      BY <1>4, <2>1, <2>2, <2>3, <2>4, <2>5
  <1> QED
    BY <1>6, <1>7

-----------------------------------------------------------------------------
LEMMA GrammarInvNext == GrammarInv /\ [GrammarNext]_grammarVars => GrammarInv'
  <1> SUFFICES ASSUME GrammarInv, [GrammarNext]_grammarVars PROVE GrammarInv'
    OBVIOUS
  <1>1. CASE UiStep
    BY <1>1, QuietSteps, SetFiletypeKeeps, PollEntryKeeps, DispatchKeeps DEF UiStep
  <1>2. ASSUME NEW w \in Worker, WorkerStep(w) PROVE GrammarInv'
    BY <1>2, GrammarTakeJobKeeps, GrammarLoadKeeps, DrainKeeps, AnswerKeeps DEF WorkerStep
  <1>3. CASE (\E l \in Lang : LoadByName(l)) \/ UNCHANGED grammarVars
    BY <1>3, QuietSteps
  <1> QED
    BY <1>1, <1>2, <1>3 DEF GrammarNext

(***************************************************************************)
(* The inductive invariant of grammar loading: types, one job per          *)
(* language, a handle of its own for each pending load, an answer or a     *)
(* sender for each, and a Ready event for each buffer whose grammar is not *)
(* its filetype's.                                                         *)
(***************************************************************************)
THEOREM GrammarInvariant == GrammarSpec => []GrammarInv
  BY GrammarInvInit, GrammarInvNext, PTL DEF GrammarSpec

(***************************************************************************)
(* Types of the loader, the syntax layer and the application; the index of *)
(* the poll loop stays within pending_loads although swap_remove shrinks   *)
(* it under way.                                                           *)
(***************************************************************************)
THEOREM GrammarTypes == GrammarSpec => []GrammarTypeOK
  <1>1. GrammarInv => GrammarTypeOK
    BY DEF GrammarInv, LoaderTyped, LayerTyped, AppTyped, GrammarTypeOK, Request
  <1> QED
    BY <1>1, GrammarInvariant, PTL

(***************************************************************************)
(* load_async and worker_loop: a language in flight has exactly one job,   *)
(* queued or with a thread, and a language not in flight has none.         *)
(***************************************************************************)
THEOREM GrammarLoadsShared == GrammarSpec => []LoadsAreShared
  <1>1. ASSUME GrammarInv PROVE LoadsAreShared
    <2> SUFFICES ASSUME NEW l \in Lang
                 PROVE  LoadsOf(l) = IF l \in DOMAIN inFlight THEN 1 ELSE 0
      BY DEF LoadsAreShared
    <2> DEFINE Q == {i \in DOMAIN jobs : jobs[i] = l}
               W == {w \in Worker : Loads(w, l)}
    <2>1. (l \in DOMAIN inFlight <=> InQueue(l) \/ AtWork(l)) /\ ~(InQueue(l) /\ AtWork(l))
      BY <1>1 DEF GrammarInv, OneJobPerLang
    <2>2. Cardinality(Q) = IF InQueue(l) THEN 1 ELSE 0
      <3>1. CASE InQueue(l)
        <4>1. PICK i \in DOMAIN jobs : jobs[i] = l
          BY <3>1 DEF InQueue
        <4>2. Q = {i}
          BY <1>1, <4>1 DEF GrammarInv, OneJobPerLang
        <4> QED
          BY <3>1, <4>2, FS_Singleton
      <3>2. CASE ~InQueue(l)
        <4>1. Q = {}
          BY <3>2 DEF InQueue
        <4> QED
          BY <3>2, <4>1, FS_EmptySet
      <3> QED
        BY <3>1, <3>2
    <2>3. Cardinality(W) = IF AtWork(l) THEN 1 ELSE 0
      <3>1. CASE AtWork(l)
        <4>1. PICK w \in Worker : Loads(w, l)
          BY <3>1 DEF AtWork
        <4>2. W = {w}
          BY <1>1, <4>1 DEF GrammarInv, OneJobPerLang
        <4> QED
          BY <3>1, <4>2, FS_Singleton
      <3>2. CASE ~AtWork(l)
        <4>1. W = {}
          BY <3>2 DEF AtWork
        <4> QED
          BY <3>2, <4>1, FS_EmptySet
      <3> QED
        BY <3>1, <3>2
    <2>4. LoadsOf(l) = Cardinality(Q) + Cardinality(W)
      BY DEF LoadsOf, Loads
    <2> HIDE DEF Q, W
    <2> QED
      BY <2>1, <2>2, <2>3, <2>4
  <1> QED
    BY <1>1, GrammarInvariant, PTL

(***************************************************************************)
(* worker_loop removes the entry and takes its subscribers in one critical *)
(* section: a pending load is answered, or somebody is still going to.     *)
(***************************************************************************)
THEOREM GrammarNoLoadCancelled == GrammarSpec => []NoLoadCancelled
  <1>1. GrammarInv => NoLoadCancelled
    BY DEF GrammarInv
  <1> QED
    BY <1>1, GrammarInvariant, PTL

(***************************************************************************)
(* poll_grammar_loads re-attaches by the filetype the buffer has now: at   *)
(* the end of a turn no open buffer shows the grammar of another filetype. *)
(***************************************************************************)
THEOREM GrammarLateLoadsLose == GrammarSpec => []LateLoadsLose
  <1>1. ASSUME GrammarInv PROVE LateLoadsLose
    <2>1. ui = "input" => ToSet(ready) = {}
      BY <1>1 DEF GrammarInv, AppTyped, ToSet
    <2> QED
      BY <1>1, <2>1 DEF GrammarInv, WrongOnesAreReady, LateLoadsLose
  <1> QED
    BY <1>1, GrammarInvariant, PTL
=============================================================================
