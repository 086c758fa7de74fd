------------------------------ MODULE StateFile ------------------------------
(***************************************************************************)
(* The file-state index (hjkl-app::filestate), one file that every hjkl    *)
(* process rewrites: update takes the index's lock, loads it, puts one     *)
(* entry in, drops the oldest entries above the cap, and replaces the file *)
(* through hjkl-fs::atomic (temp file, fill, fsync, rename, fsync of the   *)
(* directory).  lookup reads the file with no lock.                        *)
(*                                                                         *)
(* The lock is FileLock's.  Processes die at any step (the temp file stays *)
(* behind, the kernel drops the lock), any call can fail, and the machine  *)
(* can lose power, which forgets what was not synced.                      *)
(***************************************************************************)
EXTENDS FileLock, Integers, FiniteSets, Functions

CONSTANTS
    Key,         \* the files remembered, as hash keys (the order breaks ties)
    Cap,         \* filestate::CAP
    TempRetries, \* WriteOptions::temp_retries
    OldTemps,    \* OldTemps[p]: temp names left by dead processes with pid p
    MaxClock     \* bound: the clock of last_seen

ASSUME StateBounds ==
    /\ Key \subseteq Nat
    /\ Cap \in Nat \ {0}
    /\ TempRetries \in Nat \ {0}
    /\ OldTemps \in [Proc -> SUBSET Nat]
    /\ MaxClock \in Nat

VARIABLES
    target,   \* what the index's name shows now
    pending,  \* what the name may show after a power loss
    temps,    \* temps[p]: the temp names of pid p that exist, 0 the plain one
    seq,      \* seq[p]: next_temp_seq's counter
    stage,    \* stage[a]: where a is in the body of update
    draft,    \* draft[a]: the store a is about to write
    job,      \* job[a]: the entry a puts in, whether its load failed, its temp
    acked,    \* updates that returned Ok and that no failure has excused since
    safe,     \* those whose directory entry is on disk
    clock     \* now_unix_ms

fileVars == <<target, pending, temps, seq, stage, draft, job, acked, safe, clock>>
stateVars == <<lockVars, fileVars>>

\* A store maps keys to last_seen; a file holds one whole, or is torn.
NoEntries == [k \in {} |-> 0]
Whole(s) == [whole |-> TRUE, entries |-> s]
Torn == [whole |-> FALSE, entries |-> NoEntries]

NoTemp == -1
NoJob == [key |-> 0, stamp |-> 0, blank |-> FALSE, temp |-> NoTemp]

StateInit ==
    /\ LockInit
    /\ target = Whole(NoEntries)
    /\ pending = {target}
    /\ temps = OldTemps
    /\ seq = [p \in Proc |-> 0]
    /\ stage = [a \in Actor |-> "idle"]
    /\ draft = [a \in Actor |-> NoEntries]
    /\ job = [a \in Actor |-> NoJob]
    /\ acked = {}
    /\ safe = {}
    /\ clock = 0

-----------------------------------------------------------------------------
(***************************************************************************)
(* The store.                                                              *)
(***************************************************************************)
\* load_from: anything unreadable is an empty store.
LoadFrom(file) == IF file.whole THEN file.entries ELSE NoEntries

Upsert(s, k, now) == [j \in DOMAIN s \cup {k} |-> IF j = k THEN now ELSE s[j]]

\* sort_by_key is stable and the map iterates by key.
MoreRecent(s, j, k) == s[j] > s[k] \/ (s[j] = s[k] /\ j < k)

\* Mutant: the sort is oldest first.
CapOldest(s) ==
    Restrict(s, {k \in DOMAIN s :
        Cardinality({j \in DOMAIN s : MoreRecent(s, k, j)}) < Cap})

CapLru(s) ==
    Restrict(s, {k \in DOMAIN s :
        Cardinality({j \in DOMAIN s : MoreRecent(s, j, k)}) < Cap})

-----------------------------------------------------------------------------
(***************************************************************************)
(* update: the body of with_lock_exclusive.                                *)
(***************************************************************************)
\* The store as written: mutate, then cap_lru in save_to.
Begin(a, k, from, blank) ==
    /\ stage[a] = "idle"
    /\ Holds(a)
    /\ stage' = [stage EXCEPT ![a] = "loaded"]
    /\ draft' = [draft EXCEPT ![a] = CapLru(Upsert(from, k, clock))]
    /\ job' = [job EXCEPT ![a] = [key |-> k, stamp |-> clock, blank |-> blank, temp |-> NoTemp]]
    /\ UNCHANGED <<lockVars, target, pending, temps, seq, acked, safe, clock>>

Load(a, k) == Begin(a, k, LoadFrom(target), FALSE)

\* The read itself fails, and the store starts fresh.
LoadFails(a, k) == Begin(a, k, NoEntries, TRUE)

\* temp_path: the plain name, then numbered ones.
TempNames(p) == {0} \cup (seq[p] + 1 .. seq[p] + TempRetries - 1)
FreeNames(p) == TempNames(p) \ temps[p]
FirstFree(p) == CHOOSE n \in FreeNames(p) : \A i \in FreeNames(p) : n <= i

\* open_temp with create_new: the first name nobody has.
OpenTemp(a) ==
    /\ stage[a] = "loaded"
    /\ FreeNames(a[1]) /= {}
    /\ LET n == FirstFree(a[1])
       IN  /\ temps' = [temps EXCEPT ![a[1]] = @ \cup {n}]
           /\ seq' = [seq EXCEPT ![a[1]] = IF n = 0 THEN @ ELSE n]
           /\ job' = [job EXCEPT ![a].temp = n]
    /\ stage' = [stage EXCEPT ![a] = "temp"]
    /\ UNCHANGED <<lockVars, target, pending, draft, acked, safe, clock>>

\* Every attempt found its name taken: each used up a number.
NoTempName(a) ==
    /\ stage[a] = "loaded"
    /\ FreeNames(a[1]) = {}
    /\ seq' = [seq EXCEPT ![a[1]] = @ + TempRetries - 1]
    /\ stage' = [stage EXCEPT ![a] = "done"]
    /\ UNCHANGED <<lockVars, target, pending, temps, draft, job, acked, safe, clock>>

Fill(a) ==
    /\ stage[a] = "temp"
    /\ stage' = [stage EXCEPT ![a] = "filled"]
    /\ UNCHANGED <<lockVars, target, pending, temps, seq, draft, job, acked, safe, clock>>

SyncTemp(a) ==
    /\ stage[a] = "filled"
    /\ stage' = [stage EXCEPT ![a] = "synced"]
    /\ UNCHANGED <<lockVars, target, pending, temps, seq, draft, job, acked, safe, clock>>

\* Mutant: the rename does not wait for the fsync.
FilledTemp(a) == stage[a] \in {"filled", "synced"}

Renamable(a) == stage[a] = "synced"

\* Until the directory is synced a power loss may show the old file or this one,
\* and this one torn if its data was not synced.  A blank load was permission to
\* start fresh: the updates it dropped are excused.
Rename(a) ==
    /\ Renamable(a)
    /\ target' = Whole(draft[a])
    /\ pending' = pending \cup {IF stage[a] = "synced" THEN target' ELSE Torn}
    /\ temps' = [temps EXCEPT ![a[1]] = @ \ {job[a].temp}]
    /\ stage' = [stage EXCEPT ![a] = "renamed"]
    /\ job' = [job EXCEPT ![a].temp = NoTemp]
    /\ IF job[a].blank THEN acked' = {} /\ safe' = {} ELSE UNCHANGED <<acked, safe>>
    /\ UNCHANGED <<lockVars, seq, draft, clock>>

\* sync_parent, its result ignored, and the Ok.
SyncParent(a, ok) ==
    /\ stage[a] = "renamed"
    /\ acked' = acked \cup {[key |-> job[a].key, stamp |-> job[a].stamp]}
    /\ IF ok THEN pending' = {target} /\ safe' = acked' ELSE UNCHANGED <<pending, safe>>
    /\ stage' = [stage EXCEPT ![a] = "done"]
    /\ UNCHANGED <<lockVars, target, temps, seq, draft, job, clock>>

RemoveTemp(a) == temps[a[1]] \ {job[a].temp}

\* create_dir_all, open_temp, fill, sync_all or rename returns an error.
WriteFails(a) ==
    /\ stage[a] \in {"loaded", "temp", "filled", "synced"}
    /\ temps' = [temps EXCEPT ![a[1]] = RemoveTemp(a)]
    /\ job' = [job EXCEPT ![a].temp = NoTemp]
    /\ stage' = [stage EXCEPT ![a] = "done"]
    /\ UNCHANGED <<lockVars, target, pending, seq, draft, acked, safe, clock>>

\* The body returns and the guard is dropped.
Return(a) ==
    /\ stage[a] = "done"
    /\ DropGuard(a)
    /\ stage' = [stage EXCEPT ![a] = "idle"]
    /\ draft' = [draft EXCEPT ![a] = NoEntries]
    /\ job' = [job EXCEPT ![a] = NoJob]
    /\ UNCHANGED <<target, pending, temps, seq, acked, safe, clock>>

-----------------------------------------------------------------------------
(***************************************************************************)
(* The lock, time and failures.                                            *)
(***************************************************************************)
Locking(a) ==
    /\ \/ ClaimFree(a, "exclusive") \/ Wait(a, "exclusive")
       \/ OpenLockFile(a) \/ AcquireFails(a) \/ OsLock(a)
       \/ Notify(a) \/ Unlock(a) \/ SpuriousWake(a)
    /\ UNCHANGED fileVars

Tick ==
    /\ clock < MaxClock
    /\ clock' = clock + 1
    /\ UNCHANGED <<lockVars, target, pending, temps, seq, stage, draft, job, acked, safe>>

Forgotten(P) ==
    /\ seq' = [p \in Proc |-> IF p \in P THEN 0 ELSE seq[p]]
    /\ stage' = [a \in Actor |-> IF a[1] \in P THEN "idle" ELSE stage[a]]
    /\ draft' = [a \in Actor |-> IF a[1] \in P THEN NoEntries ELSE draft[a]]
    /\ job' = [a \in Actor |-> IF a[1] \in P THEN NoJob ELSE job[a]]

\* A process dies; its temp file stays, and its successor may have the same pid.
Die(p) ==
    /\ Crash(p)
    /\ Forgotten({p})
    /\ UNCHANGED <<target, pending, temps, acked, safe, clock>>

\* The machine stops: every process dies, and the name shows any pending file.
\* An update whose directory sync failed is excused.
PowerLoss ==
    /\ crashes < MaxCrashes
    /\ crashes' = crashes + 1
    /\ holder' = [p \in Proc |-> NoHolder]
    /\ os' = [a \in Actor |-> "none"]
    /\ guards' = [a \in Actor |-> <<>>]
    /\ pc' = [a \in Actor |-> "run"]
    /\ target' \in pending
    /\ pending' = {target'}
    /\ acked' = safe
    /\ Forgotten(Proc)
    /\ UNCHANGED <<want, calls, temps, safe, clock>>

StateNext ==
    \/ \E a \in Actor :
          \/ Locking(a)
          \/ \E k \in Key : Load(a, k) \/ LoadFails(a, k)
          \/ OpenTemp(a) \/ NoTempName(a) \/ Fill(a) \/ SyncTemp(a) \/ Rename(a)
          \/ \E ok \in BOOLEAN : SyncParent(a, ok)
          \/ WriteFails(a) \/ Return(a)
    \/ Tick
    \/ \E p \in Proc : Die(p)
    \/ PowerLoss

StateSpec == StateInit /\ [][StateNext]_stateVars

-----------------------------------------------------------------------------
(***************************************************************************)
(* Properties.                                                             *)
(***************************************************************************)
\* Whatever the index's name shows, to a lookup that takes no lock and to the
\* next start after a power loss, is a complete store within the cap: never a
\* half-written one, which load_from would take for an empty index.
IndexWhole ==
    \A file \in pending \cup {target} :
        file.whole /\ Cardinality(DOMAIN file.entries) <= Cap

\* Kept, replaced by a later update of the same file, or pushed out by a full
\* index of more recent ones.
Remembered(u, s) ==
    \/ u.key \in DOMAIN s /\ s[u.key] >= u.stamp
    \/ Cardinality(DOMAIN s) = Cap /\ \A k \in DOMAIN s : s[k] >= u.stamp

\* An update that returned Ok is not lost to another process's update, to a
\* failed one, to a crash, or (once the directory was synced) to a power loss.
NoLostUpdate ==
    /\ \A u \in acked : Remembered(u, target.entries)
    /\ \A u \in safe, file \in pending : Remembered(u, file.entries)
=============================================================================
