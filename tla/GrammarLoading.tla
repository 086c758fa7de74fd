--------------------------- MODULE GrammarLoading ---------------------------
(***************************************************************************)
(* How a buffer gets its tree-sitter grammar.  The event loop asks the     *)
(* language directory (crates/hjkl-lang/src/lib.rs), which answers from    *)
(* its cache, from disk, or hands out a LoadHandle of the asynchronous     *)
(* loader (crates/hjkl-bonsai/src/runtime/async_loader.rs): two worker     *)
(* threads, one job per language in flight, one subscriber per request.    *)
(* SyntaxLayer (crates/hjkl-syntax/src/lib.rs) keeps the handles in        *)
(* pending_loads and polls them once per turn; the application             *)
(* (poll_grammar_loads in apps/hjkl/src/app/syntax_glue.rs) then           *)
(* re-attaches the grammar of every buffer that became ready.              *)
(*                                                                         *)
(* The mutexes are only held for short non-blocking sections, so each      *)
(* section is one step.  The channels are unbounded and carry one answer.  *)
(***************************************************************************)
EXTENDS Naturals, FiniteSets, SequencesExt

CONSTANTS Lang, Plain,   \* grammars, and the filetype that has none
          NoLang,
          Buffer, Absent,  \* buffer ids, which are never reused
          Worker, Handle   \* the LoadHandles that can be alive at a time

ASSUME GrammarAssumption == {Plain, NoLang, Absent} \cap Lang = {}

VARIABLES cache, installed,   \* grammars in memory and on disk
          inFlight, jobs,     \* the subscribers of every job; the job queue
          worker, answer,     \* answer: what a handle's channel holds
          pending, scan,      \* pending_loads and the index of its poll
          ready,              \* the Ready events of this poll
          slot, filetype,     \* the application's buffers
          attached,           \* the grammar of SyntaxLayer's client, if any
          ui

loaderVars == <<inFlight, jobs, worker, answer>>
layerVars == <<cache, pending, attached>>
grammarVars == <<loaderVars, layerVars, installed, scan, ready, slot, filetype, ui>>

Subscribers == UNION {ToSet(inFlight[l]) : l \in DOMAIN inFlight}

\* A sender of h is alive.
HasSender(h) == h \in Subscribers \/ \E w \in Worker : h \in ToSet(worker[w].todo)

FreeHandles ==
  {h \in Handle : ~HasSender(h) /\ \A i \in DOMAIN pending : pending[i].handle # h}

Thread(pc, l, r, d) == [pc |-> pc, lang |-> l, result |-> r, todo |-> d]
IdleWorker == Thread("idle", NoLang, "none", <<>>)

GrammarInit ==
  /\ cache = {}
  /\ installed \in SUBSET Lang
  /\ inFlight = [l \in {} |-> <<>>]
  /\ jobs = <<>>
  /\ worker = [w \in Worker |-> IdleWorker]
  /\ answer = [h \in Handle |-> "none"]
  /\ pending = <<>>
  /\ scan = 1
  /\ ready = <<>>
  /\ slot = [b \in Buffer |-> "new"]
  /\ filetype = [b \in Buffer |-> Plain]
  /\ attached = [b \in Buffer |-> Absent]
  /\ ui = "input"

----------------------------------------------------------------------------
(***************************************************************************)
(* set_language_by_name / set_language_for_path for buffer b.              *)
(***************************************************************************)
\* Mutant: every request starts a job of its own.
LoadingNever(l) == FALSE

Loading(l) == l \in DOMAIN inFlight

\* load_async: subscribe to the job of l, or register and enqueue one.
LoadAsync(l, h) ==
  /\ IF Loading(l)
     THEN /\ inFlight' = [inFlight EXCEPT ![l] = Append(@, h)]
          /\ UNCHANGED jobs
     ELSE /\ inFlight' = [k \in DOMAIN inFlight \cup {l} |->
                            IF k = l THEN <<h>> ELSE inFlight[k]]
          /\ jobs' = Append(jobs, l)
  /\ answer' = [answer EXCEPT ![h] = "none"]
  /\ UNCHANGED worker

AttachNow(b, l) ==
  /\ attached' = [attached EXCEPT ![b] = l]
  /\ UNCHANGED <<loaderVars, pending>>

\* request_by_name: no such grammar, ...
AttachNone(b, l) ==
  /\ l = Plain
  /\ AttachNow(b, Plain)
  /\ UNCHANGED cache

\* ... one that is in memory, ...
AttachCached(b, l) ==
  /\ l \in cache
  /\ AttachNow(b, l)
  /\ UNCHANGED cache

\* ... one that is on disk and opens, ...
AttachInstalled(b, l) ==
  /\ l \in installed \ cache
  /\ AttachNow(b, l)
  /\ cache' = cache \cup {l}

\* ... or one that is not installed, or does not open, and has to be loaded.
StartLoad(b, l) ==
  /\ l \in Lang \ cache
  /\ \E h \in FreeHandles :
       /\ LoadAsync(l, h)
       /\ pending' = Append(pending, [buf |-> b, lang |-> l, handle |-> h])
  /\ attached' = [attached EXCEPT ![b] = Plain]
  /\ UNCHANGED cache

SetLanguage(b, l) ==
  AttachNone(b, l) \/ AttachCached(b, l) \/ AttachInstalled(b, l) \/ StartLoad(b, l)

----------------------------------------------------------------------------
(***************************************************************************)
(* The event loop: one input, then a poll of every pending load, then the  *)
(* dispatch of the events the poll returned.                               *)
(***************************************************************************)
OtherInput ==
  /\ ui = "input"
  /\ ui' = "poll"
  /\ UNCHANGED <<loaderVars, layerVars, installed, scan, ready, slot, filetype>>

\* A buffer is opened, or :set filetype= (or a reload) changes its language.
SetFiletype(b, l) ==
  /\ ui = "input"
  /\ slot[b] # "closed"
  /\ slot' = [slot EXCEPT ![b] = "open"]
  /\ filetype' = [filetype EXCEPT ![b] = l]
  /\ SetLanguage(b, l)
  /\ ui' = "poll"
  /\ UNCHANGED <<installed, scan, ready>>

\* The buffer is closed: SyntaxLayer::forget.
Forget(b) ==
  /\ ui = "input"
  /\ slot[b] = "open"
  /\ slot' = [slot EXCEPT ![b] = "closed"]
  /\ filetype' = [filetype EXCEPT ![b] = Plain]
  /\ attached' = [attached EXCEPT ![b] = Absent]
  /\ ui' = "poll"
  /\ UNCHANGED <<loaderVars, cache, pending, installed, scan, ready>>

\* Vec::swap_remove
SwapRemove(s, i) ==
  [k \in 1 .. Len(s) - 1 |-> IF k = i THEN s[Len(s)] ELSE s[k]]

Entry == pending[scan]

\* The pending load is removed, and its handle and channel with it.
Settle ==
  /\ pending' = SwapRemove(pending, scan)
  /\ answer' = [answer EXCEPT ![Entry.handle] = "none"]
  /\ UNCHANGED scan

PollWaiting ==
  /\ answer[Entry.handle] = "none"
  /\ HasSender(Entry.handle)
  /\ scan' = scan + 1
  /\ UNCHANGED <<layerVars, answer, ready>>

\* The library opens (complete_load) and the grammar is attached.
PollReady ==
  /\ answer[Entry.handle] = "ok"
  /\ Settle
  /\ cache' = cache \cup {Entry.lang}
  /\ attached' = [attached EXCEPT ![Entry.buf] = Entry.lang]
  /\ ready' = Append(ready, Entry.buf)

\* The load failed, the channel closed, or the library does not open.
PollFailed ==
  /\ answer[Entry.handle] # "none" \/ ~HasSender(Entry.handle)
  /\ Settle
  /\ UNCHANGED <<cache, attached, ready>>

\* Mutant: the loop stops before the last entry.
ScanDoneEarly == scan >= Len(pending)

ScanDone == scan > Len(pending)

PollEntry ==
  /\ ui = "poll"
  /\ ~ScanDone
  /\ PollWaiting \/ PollReady \/ PollFailed
  /\ UNCHANGED <<inFlight, jobs, worker, installed, slot, filetype, ui>>

PollEnd ==
  /\ ui = "poll"
  /\ ScanDone
  /\ scan' = 1
  /\ ui' = "dispatch"
  /\ UNCHANGED <<loaderVars, layerVars, installed, ready, slot, filetype>>

\* Mutant: the grammar of the load stays attached, whatever the filetype is now.
ReattachNever(b) == FALSE

Reattach(b) == slot[b] = "open"

\* LoadEventKind::Ready: set_language_for_slot if the buffer still exists.
Dispatch ==
  /\ ui = "dispatch"
  /\ ready # <<>>
  /\ ready' = Tail(ready)
  /\ IF Reattach(Head(ready))
     THEN SetLanguage(Head(ready), filetype[Head(ready)])
     ELSE UNCHANGED <<loaderVars, layerVars>>
  /\ UNCHANGED <<installed, scan, slot, filetype, ui>>

TurnEnds ==
  /\ ui = "dispatch"
  /\ ready = <<>>
  /\ ui' = "input"
  /\ UNCHANGED <<loaderVars, layerVars, installed, scan, ready, slot, filetype>>

\* LanguageDirectory::by_name: a synchronous load (a language injected into
\* another, met while a viewport is highlighted).
LoadByName(l) ==
  /\ l \notin cache
  /\ cache' = cache \cup {l}
  /\ installed' = installed \cup {l}
  /\ UNCHANGED <<loaderVars, pending, attached, scan, ready, slot, filetype, ui>>

----------------------------------------------------------------------------
(***************************************************************************)
(* worker_loop.                                                            *)
(***************************************************************************)
uiVars == <<layerVars, scan, ready, slot, filetype, ui>>

TakeJob(w) ==
  /\ worker[w].pc = "idle"
  /\ jobs # <<>>
  /\ jobs' = Tail(jobs)
  /\ worker' = [worker EXCEPT ![w] = Thread("load", Head(jobs), "none", <<>>)]
  /\ UNCHANGED <<inFlight, answer, installed, uiVars>>

\* GrammarLoader::load; an error or a panic is the answer "failed".
Load(w) ==
  /\ worker[w].pc = "load"
  /\ \/ /\ worker' = [worker EXCEPT ![w] = Thread("loaded", worker[w].lang, "ok", <<>>)]
        /\ installed' = installed \cup {worker[w].lang}
     \/ /\ worker' = [worker EXCEPT ![w] = Thread("loaded", worker[w].lang, "failed", <<>>)]
        /\ UNCHANGED installed
  /\ UNCHANGED <<inFlight, jobs, answer, uiVars>>

\* Mutant: only the caller that started the job is answered.
FirstSubscriber(l) == <<Head(inFlight[l])>>

\* The entry is removed together with its subscribers.
Drained(l) == inFlight[l]

Drain(w) ==
  /\ worker[w].pc = "loaded"
  /\ worker' = [worker EXCEPT ![w] =
                  Thread("answer", worker[w].lang, worker[w].result, Drained(worker[w].lang))]
  /\ inFlight' = [l \in DOMAIN inFlight \ {worker[w].lang} |-> inFlight[l]]
  /\ UNCHANGED <<jobs, answer, installed, uiVars>>

Answer(w) ==
  /\ worker[w].pc = "answer"
  /\ IF worker[w].todo = <<>>
     THEN /\ worker' = [worker EXCEPT ![w] = IdleWorker]
          /\ UNCHANGED answer
     ELSE /\ answer' = [answer EXCEPT ![Head(worker[w].todo)] = worker[w].result]
          /\ worker' = [worker EXCEPT ![w] =
                  Thread("answer", worker[w].lang, worker[w].result, Tail(worker[w].todo))]
  /\ UNCHANGED <<inFlight, jobs, installed, uiVars>>

WorkerStep(w) == TakeJob(w) \/ Load(w) \/ Drain(w) \/ Answer(w)

UiStep ==
  \/ OtherInput
  \/ \E b \in Buffer, l \in Lang \cup {Plain} : SetFiletype(b, l)
  \/ \E b \in Buffer : Forget(b)
  \/ PollEntry
  \/ PollEnd
  \/ Dispatch
  \/ TurnEnds

GrammarNext ==
  \/ UiStep
  \/ \E w \in Worker : WorkerStep(w)
  \/ \E l \in Lang : LoadByName(l)

\* The event loop keeps turning, the worker threads are scheduled, and a
\* load ends.
GrammarSpec ==
  /\ GrammarInit
  /\ [][GrammarNext]_grammarVars
  /\ WF_grammarVars(UiStep)
  /\ \A w \in Worker : WF_grammarVars(WorkerStep(w))

----------------------------------------------------------------------------
GrammarTypeOK ==
  /\ cache \subseteq Lang /\ installed \subseteq Lang
  /\ DOMAIN inFlight \subseteq Lang
  /\ \A l \in DOMAIN inFlight : inFlight[l] \in Seq(Handle)
  /\ jobs \in Seq(Lang)
  /\ pending \in Seq([buf : Buffer, lang : Lang, handle : Handle])
  /\ scan \in 1 .. Len(pending) + 1
  /\ ready \in Seq(Buffer)
  /\ answer \in [Handle -> {"none", "ok", "failed"}]
  /\ attached \in [Buffer -> Lang \cup {Plain, Absent}]
  /\ filetype \in [Buffer -> Lang \cup {Plain}]
  /\ ui \in {"input", "poll", "dispatch"}

(***************************************************************************)
(* load_async deduplicates exactly: a registered language has one job,     *)
(* queued or running, and a job that is not yet drained is registered.     *)
(***************************************************************************)
LoadsOf(l) ==
  Cardinality({i \in DOMAIN jobs : jobs[i] = l})
    + Cardinality({w \in Worker : worker[w].lang = l /\ worker[w].pc \in {"load", "loaded"}})

LoadsAreShared == \A l \in Lang : LoadsOf(l) = IF l \in DOMAIN inFlight THEN 1 ELSE 0

(***************************************************************************)
(* No handle is cancelled: a pending load has its answer, or somebody is   *)
(* still going to send one, also a request that subscribes while the       *)
(* worker is finishing the same language.                                  *)
(***************************************************************************)
NoLoadCancelled ==
  \A i \in DOMAIN pending :
    LET h == pending[i].handle IN answer[h] # "none" \/ HasSender(h)

(***************************************************************************)
(* A load that finishes late never leaves a buffer with the grammar of a   *)
(* filetype it no longer has: at the end of every turn of the event loop a *)
(* buffer has the grammar of its filetype, or none while that is loading.  *)
(***************************************************************************)
LateLoadsLose ==
  ui = "input" => \A b \in Buffer :
    slot[b] = "open" => attached[b] \in {Plain, filetype[b]}

(***************************************************************************)
(* SyntaxLayer::forget drops all state for a buffer: a closed buffer has   *)
(* no client any more.                                                     *)
(***************************************************************************)
ForgottenStaysForgotten ==
  \A b \in Buffer : slot[b] = "closed" => attached[b] = Absent

(***************************************************************************)
(* Every pending load is resolved: no buffer waits for ever for a grammar  *)
(* whose job has ended.                                                    *)
(***************************************************************************)
IsPending(h) == \E i \in DOMAIN pending : pending[i].handle = h

LoadsResolve == \A h \in Handle : IsPending(h) ~> ~IsPending(h)
=============================================================================
