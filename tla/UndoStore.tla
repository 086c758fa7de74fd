----------------------------- MODULE UndoStore -----------------------------
(***************************************************************************)
(* How the undo tree stores what its nodes contain                         *)
(* (crates/hjkl-buffer/src/undo.rs): the root alone holds a full base      *)
(* text, every other node the reversible edit (delta) from its parent, and *)
(* recently visited nodes a cached text.  Cached nodes are listed in two   *)
(* LRUs, the pinned keyframes (nodes at a multiple of KeyInterval in       *)
(* depth) and the ordinary warm ones, each trimmed to its cap.             *)
(*                                                                         *)
(* A delta is the pair of texts it was computed from: applied to any other *)
(* text it yields Garbage.  The empty delta leaves every text as it is.    *)
(***************************************************************************)
EXTENDS UndoArena, SequencesExt

CONSTANTS Text, NoText, Garbage, WarmCap, KeyCap, KeyInterval

ASSUME StoreAssumption == /\ {NoText, Garbage} \cap Text = {}
                          /\ NoText # Garbage
                          /\ {WarmCap, KeyCap, KeyInterval} \subseteq Nat \ {0}

VARIABLES store, buf, phase

storeVars == <<arenaVars, store, buf, phase>>

----------------------------------------------------------------------------
(***************************************************************************)
(* Deltas.                                                                 *)
(***************************************************************************)
Empty == [from |-> NoText, to |-> NoText]

Diff(p, c) == IF p = c THEN Empty ELSE [from |-> p, to |-> c]

ApplyForward(p, d) ==
  IF d = Empty THEN p ELSE IF p = d.from THEN d.to ELSE Garbage

ApplyInverse(c, d) ==
  IF d = Empty THEN c ELSE IF c = d.to THEN d.from ELSE Garbage

----------------------------------------------------------------------------
(***************************************************************************)
(* The caches.  s is a store; r and cur are the root and the current node  *)
(* at the moment of the call, which a handler may be about to change.      *)
(***************************************************************************)

\* What of a list is in S, in the list's order.
Only(list, S) ==
  LET kept[i \in 0 .. Len(list)] ==
        IF i = 0 THEN <<>>
        ELSE IF list[i] \in S THEN Append(kept[i - 1], list[i]) ELSE kept[i - 1]
  IN kept[Len(list)]

Without(list, S) == Only(list, ToSet(list) \ S)

\* Mutant: the LRU is trimmed to one above its cap.
EvictedOneTooFew(list, cur, cap) ==
  LET others == Without(list, {cur})
      excess == IF Len(list) > cap + 1 THEN Len(list) - cap - 1 ELSE 0
  IN ToSet(SubSeq(others, 1, IF excess < Len(others) THEN excess ELSE Len(others)))

\* evict_to: the oldest entries of an LRU beyond its cap, never cur.
Evicted(list, cur, cap) ==
  LET others == Without(list, {cur})
      excess == IF Len(list) > cap THEN Len(list) - cap ELSE 0
  IN ToSet(SubSeq(others, 1, IF excess < Len(others) THEN excess ELSE Len(others)))

IsKeyframe(s, r, n) == n # r /\ s.depth[n] % KeyInterval = 0

\* touch_warm for the nodes of a sequence, one after the other: each goes to
\* the young end of its LRU, and what overflows it loses its cached text.
Touched(list, new, cur, cap) ==
  LET grown == Without(list, ToSet(new)) \o new
  IN Without(grown, Evicted(grown, cur, cap))

TouchWarm(s, r, cur, nodes) ==
  LET pinned == {n \in ToSet(nodes) : IsKeyframe(s, r, n)}
      keys == Touched(s.keys, Only(nodes, pinned), cur, KeyCap)
      warm == Touched(s.warm, Without(nodes, pinned \cup {r}), cur, WarmCap)
      out == (ToSet(s.keys) \cup ToSet(s.warm) \cup ToSet(nodes)) \ (ToSet(keys) \cup ToSet(warm))
  IN [s EXCEPT !.keys = keys, !.warm = warm,
               !.cache = [m \in DOMAIN @ |-> IF m \in out THEN NoText ELSE @[m]]]

HasContent(s, r, n) == n = r \/ s.cache[n] # NoText

ContentOf(s, n) == IF s.cache[n] # NoText THEN s.cache[n] ELSE s.base

\* The nearest node at or above n whose content needs no replay.
Anchor(s, r, n) ==
  CHOOSE a \in Anc(parent, n) :
    /\ HasContent(s, r, a)
    /\ \A k \in Anc(parent, n) : HasContent(s, r, k) => k \in Anc(parent, a)

\* materialize: the deltas from the anchor down to n are replayed...
Replayed(s, r, n) ==
  LET a == Anchor(s, r, n)
      text[m \in Anc(parent, n)] ==
        IF m \in Anc(parent, a) THEN ContentOf(s, a)
        ELSE ApplyForward(text[parent[m]], s.delta[m])
  IN text

Rope(s, r, n) == Replayed(s, r, n)[n]

\* The nodes of S from the oldest to the newest.
BySeq(S) ==
  [i \in 1 .. Cardinality(S) |->
     CHOOSE n \in S : Cardinality({m \in S : seq[m] <= seq[n]}) = i]

\* ... and every node on the way is cached.
Warmed(s, r, cur, n) ==
  LET path == Anc(parent, n) \ Anc(parent, Anchor(s, r, n))
      text == Replayed(s, r, n)
      cached == [m \in DOMAIN s.cache |-> IF m \in path THEN text[m] ELSE s.cache[m]]
  IN TouchWarm([s EXCEPT !.cache = cached], r, cur, BySeq(path))

\* Mutant: the delta is not recomputed.
SetNodeStateCacheOnly(s, r, cur, n, t) ==
  IF n = r THEN [s EXCEPT !.base = t] ELSE [s EXCEPT !.cache[n] = t]

\* set_node_state: n is finalized to hold t.
SetNodeState(s, r, cur, n, t) ==
  IF s.cache[n] = t \/ (n = r /\ s.base = t) THEN s
  ELSE IF n = r
  THEN [s EXCEPT !.base = t, !.cache[n] = NoText,
                 !.warm = Without(@, {n}), !.keys = Without(@, {n})]
  ELSE TouchWarm([Warmed(s, r, cur, parent[n]) EXCEPT
                    !.delta[n] = Diff(Rope(s, r, parent[n]), t), !.cache[n] = t],
                 r, cur, <<n>>)

\* The store without the nodes that are freed.
Keep(s, S) ==
  [s EXCEPT !.delta = Restricted(@, S), !.cache = Restricted(@, S),
            !.depth = Restricted(@, S),
            !.warm = Only(@, S), !.keys = Only(@, S)]

\* Mutant: the live text is not stashed when its node is left.
StashForgotten == store

Stash == SetNodeState(store, root, current, current, buf)

----------------------------------------------------------------------------
\* UndoTree::new
StoreInit ==
  /\ ArenaInit
  /\ buf \in Text
  /\ store = [base |-> buf, delta |-> [n \in {root} |-> Empty],
              cache |-> [n \in {root} |-> NoText],
              depth |-> [n \in {root} |-> 0],
              warm |-> <<>>, keys |-> <<>>]
  /\ phase = "closed"

PushUndo ==
  \E c \in Node :
    /\ Push(c)
    /\ \E s \in {Stash} :
         LET dom == Live \cup {c}
             grown == [s EXCEPT
               !.delta = [n \in dom |-> IF n = c THEN Empty ELSE @[n]],
               !.cache = [n \in dom |-> IF n = c THEN buf ELSE @[n]],
               !.depth = [n \in dom |-> IF n = c THEN @[current] + 1 ELSE @[n]]]
         IN store' = TouchWarm(grown, root, c, <<c>>)
    /\ phase' = "fresh"
    /\ UNCHANGED buf

\* The buffer's text is changed; the tree does not see it.
Typed(t) ==
  /\ pc = "idle"
  /\ buf' = t
  /\ UNCHANGED <<arenaVars, store>>

Edit(t) == phase # "closed" /\ Typed(t) /\ phase' = "edited"

\* entry_of the node that is now current.
Restore(stashed, n) ==
  /\ \E s \in {stashed} : store' = Warmed(s, root, n, n) /\ buf' = Rope(s, root, n)
  /\ phase' = "closed"

\* undo_step: a cold parent is derived from the node just left.
DeriveParent(s, par) ==
  IF HasContent(s, root, par) \/ s.cache[current] = NoText THEN s
  ELSE TouchWarm([s EXCEPT !.cache[par] =
                    ApplyInverse(s.cache[current], s.delta[current])],
                 root, par, <<par>>)

Undo ==
  /\ StepUp
  /\ \E s \in {Stash} : Restore(DeriveParent(s, parent[current]), parent[current])

Redo == StepDown /\ Restore(Stash, lastChild[current])

Earlier == \E t \in Live : SeqEarlier(t) /\ Restore(Stash, t)

Later == \E t \in Live : SeqLater(t) /\ Restore(Stash, t)

PopCommitted ==
  /\ Pop
  /\ store' = Keep(store, DOMAIN parent')
  /\ phase' = "closed"
  /\ UNCHANGED buf

\* pop_last_undo by a command that took its boundary and changed nothing.
PopLastUndo == phase = "fresh" /\ PopCommitted

\* prune_root_side: the promoted child gets a full base text.
Promote(child) ==
  LET s == Keep(Warmed(store, root, current, child), Live \ PrunedWith(child))
  IN [s EXCEPT !.base = Rope(store, root, child), !.delta[child] = Empty, !.cache[child] = NoText,
               !.warm = Without(@, {child}), !.keys = Without(@, {child})]

CapUndo ==
  /\ \/ \E leaf \in Live : DropLeaf(leaf) /\ store' = Keep(store, Live \ {leaf})
     \/ \E child \in Live : PruneRoot(child) /\ store' = Promote(child)
     \/ CapDone /\ store' = Keep(store, DOMAIN parent')
  /\ UNCHANGED <<buf, phase>>

\* set_content: replace_all, then clear_all, whose survivor takes the
\* content the tree knew, not the new text.
SetContent(t) ==
  /\ ClearAll
  /\ store' = [base |-> Rope(store, root, current), delta |-> [n \in {current} |-> Empty],
                cache |-> [n \in {current} |-> NoText],
                depth |-> [n \in {current} |-> 0],
                warm |-> <<>>, keys |-> <<>>]
  /\ buf' = t
  /\ phase' = "closed"

\* undo_to_serializable (which syncs current first), then
\* from_serializable: caches are not part of the file.
Reopen ==
  /\ Reload
  /\ \E s \in {Stash} :
     store' = [s EXCEPT !.cache = [n \in Live |-> NoText],
                        !.depth = [n \in Live |-> Cardinality(Anc(parent, n)) - 1],
                        !.warm = <<>>, !.keys = <<>>]
  /\ phase' = "closed"
  /\ UNCHANGED buf

SetUndoLevels == (\E l \in Levels : SetLevels(l)) /\ UNCHANGED <<store, buf, phase>>

StoreNext ==
  \/ PushUndo
  \/ \E t \in Text : Edit(t)
  \/ Undo
  \/ Redo
  \/ Earlier
  \/ Later
  \/ PopLastUndo
  \/ CapUndo
  \/ \E t \in Text : SetContent(t)
  \/ Reopen
  \/ SetUndoLevels

StoreSpec == StoreInit /\ [][StoreNext]_storeVars

----------------------------------------------------------------------------
Content(n) == Rope(store, root, n)

StoreTypeOK ==
  /\ TypeOK
  /\ buf \in Text
  /\ phase \in {"closed", "fresh", "edited"}
  /\ store.base \in Text
  /\ store.delta \in [Live -> [from : Text, to : Text] \cup {Empty}]
  /\ store.cache \in [Live -> Text \cup {NoText}]
  /\ store.depth \in [Live -> Nat]
  /\ ToSet(store.warm) \cup ToSet(store.keys) \subseteq Live

(***************************************************************************)
(* Keyframes and warm nodes are a pure cache: replaying the deltas from    *)
(* the root's base gives every node the text its cache holds, so dropping  *)
(* any cached text changes only speed, never content.                      *)
(***************************************************************************)
Uncached == [store EXCEPT !.cache = [n \in Live |-> NoText]]

CacheIsPure ==
  \A n \in Live : Content(n) = Rope(Uncached, root, n)

(***************************************************************************)
(* Every cached text is on exactly one LRU and every listed node is        *)
(* cached, and neither LRU outgrows its cap: no rope is retained outside   *)
(* the two bounds, whatever pruning, clearing and reloading do to depths.  *)
(***************************************************************************)
CacheIsBounded ==
  /\ Len(store.warm) <= WarmCap
  /\ Len(store.keys) <= KeyCap
  /\ Len(store.warm) + Len(store.keys)
       = Cardinality({n \in Live : store.cache[n] # NoText})
  /\ ToSet(store.warm) \cup ToSet(store.keys)
       = {n \in Live : store.cache[n] # NoText}

(***************************************************************************)
(* UndoStore implements UndoTree: every landing restores the text the      *)
(* landing node had when it was last left, whatever was evicted, pruned,   *)
(* promoted or reloaded in between.                                        *)
(***************************************************************************)
Tree == INSTANCE UndoTree WITH text <- [n \in Live |-> Content(n)]

ImplementsTree == Tree!TreeSpec
=============================================================================
