---------------------------- MODULE CatalogCache ----------------------------
(***************************************************************************)
(* Redis in front of MongoDB: the read-through of internal/service/        *)
(* catalog.go (readThrough for lists, readThroughOne for one document)     *)
(* racing the sync jobs of sync.go, which write MongoDB and then evict.    *)
(*                                                                         *)
(* The value behind a key is a version, 0 while nothing has been synced.   *)
(* A job is the sequence of its writes and evictions: a write that fails   *)
(* ends the job, an eviction that fails is logged and the job goes on.     *)
(* Redis and MongoDB calls may fail at any moment, entries expire, and     *)
(* the process may stop in the middle of everything.                       *)
(***************************************************************************)
EXTENDS Integers, Sequences

CONSTANTS
  Key,        \* the keys in play, out of AllKeys
  Job,        \* the jobs that run, out of those of Program
  Reader,     \* reads in progress at a time
  MaxVersion  \* bound: changes behind each key

\* One key stands for all of its kind: teams:<league>, matches:<date>, ...
AllKeys == {"leagues", "teams", "matches", "standings", "analysis", "events", "stats"}
Single  == {"standings", "analysis"}          \* read with readThroughOne

ASSUME KeyAssumption     == Key \subseteq AllKeys /\ Key # {}
ASSUME VersionAssumption == MaxVersion \in [Key -> Nat]

W(k) == [op |-> "write", key |-> k]
E(k) == [op |-> "evict", key |-> k]

\* The table evicted first, then written: StaleExplained.
Program_Bug == [logos     |-> <<W("leagues"), W("teams"), E("leagues")>>,
                tool      |-> <<W("leagues"), W("teams")>>,
                standings |-> <<E("standings"), W("standings")>>]
\* What each job writes and evicts, in the order of its code.  modify deletes matches,
\* upserts the refetched ones and evicts the old dates last.  logos stamps leagues, then
\* teams, and evicts like dictionary; a run with nothing to stamp is one that never starts.
\* tool is cmd/logo-sync, a process of its own without Redis: it stamps the same and evicts
\* nothing.  live evicts nothing either, and stands besides for what the other two do to the
\* list of a date they do not evict: a schedule run that moves a match to another date, a
\* modification whose old date could not be looked up.
Program ==
  [dictionary |-> <<W("leagues"), W("teams"), E("leagues")>>,
   logos      |-> <<W("leagues"), W("teams"), E("leagues")>>,
   tool       |-> <<W("leagues"), W("teams")>>,
   schedule   |-> <<W("matches"), E("matches")>>,
   modify     |-> <<W("matches"), W("matches"), E("matches"), E("matches")>>,
   live       |-> <<W("matches")>>,
   events     |-> <<W("events"), E("events")>>,
   stats      |-> <<W("stats"), E("stats")>>,
   standings  |-> <<W("standings"), E("standings")>>,
   analysis   |-> <<W("analysis"), E("analysis")>>]

ASSUME JobAssumption == Job \subseteq DOMAIN Program

\* The writes after which their job evicts nothing: the cached value is left to its TTL.
LeftToTTL == {<<"live", "matches">>, <<"tool", "leagues">>}
               \cup ({"dictionary", "logos", "tool"} \X {"teams"})

VARIABLES
  db,       \* MongoDB: the version behind each key
  cached,   \* Redis: the version cached, or Absent
  at,       \* the step each job is at, 0 when it is not running
  rpc,      \* what each read does: "idle", "get", "load", "set"
  rkey,     \* the key it reads
  val,      \* what it loaded, or answered: a version, or NotFound
  there,    \* history: the document it reads was there when it began
  lost,     \* history: stale keys whose eviction failed, never came or is nobody's job
  raced     \* history: stale keys that a read which overlapped a write has cached

reads == <<rpc, rkey, val, there>>
why   == <<lost, raced>>
vars  == <<db, cached, at, reads, why>>

Absent   == -1
NotFound == -2
Error    == -3
Pending  == -4
AnyKey   == CHOOSE k \in Key : TRUE

Init ==
  /\ db = [k \in Key |-> 0]
  /\ cached = [k \in Key |-> Absent]
  /\ at = [j \in Job |-> 0]
  /\ rpc = [r \in Reader |-> "idle"]
  /\ rkey = [r \in Reader |-> AnyKey]
  /\ val = [r \in Reader |-> 0]
  /\ there = [r \in Reader |-> FALSE]
  /\ lost = {} /\ raced = {}

Stale(k) == cached[k] \notin {Absent, db[k]}

\* The keys in L stay stale for want of an eviction, those in R because of a read.
Because(L, R) == /\ lost' = {k \in lost \cup L : Stale(k)'}
                 /\ raced' = {k \in raced \cup R : Stale(k)'}

(***************************************************************************)
(* Reads                                                                   *)
(***************************************************************************)
Begin(r, k) ==
  /\ rpc[r] = "idle"
  /\ rpc' = [rpc EXCEPT ![r] = "get"]
  /\ rkey' = [rkey EXCEPT ![r] = k]
  /\ there' = [there EXCEPT ![r] = k \in Single /\ db[k] > 0]
  /\ val' = [val EXCEPT ![r] = 0]
  /\ UNCHANGED <<db, cached, at, why>>

Answer(r, v) == rpc' = [rpc EXCEPT ![r] = "idle"] /\ val' = [val EXCEPT ![r] = v]

Hit(r) ==
  /\ rpc[r] = "get" /\ cached[rkey[r]] # Absent
  /\ Answer(r, cached[rkey[r]])
  /\ UNCHANGED <<db, cached, at, rkey, there, why>>

\* ErrMiss, or a Redis error, which degrades to a read of the store.
Miss(r) ==
  /\ rpc[r] = "get"
  /\ rpc' = [rpc EXCEPT ![r] = "load"]
  /\ UNCHANGED <<db, cached, at, rkey, val, there, why>>

\* A missing list is an empty list, a missing document an error.
\* The zero document is cached like an empty list: ReadsSpec.
FoundNothing_Bug(k) == FALSE
FoundNothing(k) == k \in Single /\ db[k] = 0

Load(r) ==
  /\ rpc[r] = "load"
  /\ IF FoundNothing(rkey[r])
     THEN Answer(r, NotFound)
     ELSE /\ rpc' = [rpc EXCEPT ![r] = "set"]
          /\ val' = [val EXCEPT ![r] = db[rkey[r]]]
  /\ UNCHANGED <<db, cached, at, rkey, there, why>>

\* A MongoDB error is the answer.  Cached as an empty result: ReadsSpec.
LoadFails_Bug(r) ==
  /\ rpc[r] = "load"
  /\ rpc' = [rpc EXCEPT ![r] = "set"]
  /\ UNCHANGED <<db, cached, at, rkey, val, there, why>>
LoadFails(r) ==
  /\ rpc[r] = "load"
  /\ Answer(r, Error)
  /\ UNCHANGED <<db, cached, at, rkey, there, why>>

Populate(r) ==
  /\ rpc[r] = "set"
  /\ cached' = [cached EXCEPT ![rkey[r]] = val[r]]
  /\ Answer(r, val[r])
  /\ UNCHANGED <<db, at, rkey, there>>
  /\ Because({}, {rkey[r]})

PopulateFails(r) ==
  /\ rpc[r] = "set"
  /\ Answer(r, val[r])
  /\ UNCHANGED <<db, cached, at, rkey, there, why>>

Read(r) == Hit(r) \/ Miss(r) \/ Load(r) \/ LoadFails(r) \/ Populate(r) \/ PopulateFails(r)

(***************************************************************************)
(* Expiry: every SetJSON of the catalog passes a TTL.                      *)
(***************************************************************************)
\* A list cached without a TTL, as go-redis takes 0: EventuallyFresh.
HasTTL_Bug(k) == k \in Single
HasTTL(k) == k \in AllKeys

Expire(k) ==
  /\ HasTTL(k) /\ cached[k] # Absent
  /\ cached' = [cached EXCEPT ![k] = Absent]
  /\ UNCHANGED <<db, at, reads>>
  /\ Because({}, {})

(***************************************************************************)
(* The sync jobs                                                           *)
(***************************************************************************)
Start(j) ==
  /\ at[j] = 0
  /\ at' = [at EXCEPT ![j] = 1]
  /\ UNCHANGED <<db, cached, reads, why>>

Step(j)    == Program[j][at[j]]
At(j, op)  == at[j] # 0 /\ Step(j).op = op
Advance(j) == at' = [at EXCEPT ![j] = IF @ = Len(Program[j]) THEN 0 ELSE @ + 1]
Touched(j) == {Program[j][i].key : i \in 1..at[j]} \cap Key

\* An upsert, a delete or a stamp changes something, or finds everything as it was.  A key
\* that is not in play keeps nothing ...
Change(k) ==
  \/ /\ k \in Key /\ db[k] < MaxVersion[k]
     /\ db' = [db EXCEPT ![k] = @ + 1]
  \/ db' = db

Write(j) ==
  /\ At(j, "write") /\ Change(Step(j).key)
  /\ Advance(j)
  /\ UNCHANGED <<cached, reads>>
  /\ Because({k \in Key : <<j, k>> \in LeftToTTL /\ db'[k] # db[k]}, {})

\* ... or fails, perhaps half done: the job returns and evicts nothing.
WriteFails(j) ==
  /\ At(j, "write") /\ Change(Step(j).key)
  /\ at' = [at EXCEPT ![j] = 0]
  /\ UNCHANGED <<cached, reads>>
  /\ Because(Touched(j), {})

Evict(j) ==
  /\ At(j, "evict")
  /\ cached' = [k \in Key |-> IF k = Step(j).key THEN Absent ELSE cached[k]]
  /\ Advance(j)
  /\ UNCHANGED <<db, reads>>
  /\ Because({}, {})

EvictFails(j) ==
  /\ At(j, "evict")
  /\ Advance(j)
  /\ UNCHANGED <<db, cached, reads>>
  /\ Because({Step(j).key} \cap Key, {})

\* The process stops and starts again: reads and jobs are gone, Redis is not.  (cmd/logo-sync
\* goes with it: a run cut short by its own end is one whose write fails.)
Crash ==
  /\ at' = [j \in Job |-> 0]
  /\ rpc' = [r \in Reader |-> "idle"] /\ val' = [r \in Reader |-> Error]
  /\ UNCHANGED <<db, cached, rkey, there>>
  /\ Because(UNION {Touched(j) : j \in Job}, {})

Next ==
  \/ \E r \in Reader : Read(r) \/ \E k \in Key : Begin(r, k)
  \/ \E k \in Key : Expire(k)
  \/ \E j \in Job : Start(j) \/ Write(j) \/ WriteFails(j) \/ Evict(j) \/ EvictFails(j)
  \/ Crash

Spec == Init /\ [][Next]_vars

\* A read goes on, and Redis drops what is past its TTL.  Nothing else is owed: no job
\* ever runs again, no eviction succeeds.
Fairness == /\ \A r \in Reader : WF_vars(Read(r))
            /\ \A k \in Key : WF_vars(Expire(k))
FairSpec == Spec /\ Fairness

(***************************************************************************)
(* Properties                                                              *)
(***************************************************************************)
\* A cached value is out of date only between a job's write and its eviction, or for one of
\* four reasons that leave it to the TTL: the eviction failed, the job failed or was stopped
\* on its way there, what was written is one of LeftToTTL, which nobody evicts, or a read
\* that had loaded the old value before the write cached it after the eviction.
StaleExplained ==
  \A k \in Key : Stale(k) =>
    \/ k \in lost \cup raced
    \/ \E j \in Job : /\ k \in Touched(j)
                      /\ \E i \in at[j]..Len(Program[j]) : Program[j][i] = E(k)

\* readThroughOne: a document "that hasn't synced yet is re-checked on every call rather
\* than pinned as absent": no read that begins once it is there misses it, whatever the
\* reads before it, or beside it, cached.
AbsenceNotCached ==
  \A r \in Reader : there[r] /\ rpc[r] = "idle" => val[r] \notin {NotFound, 0}

\* What readers rely on: an answer is a version that MongoDB has, that Redis has, or that
\* a read beside it is about to cache, and a version gone from all of these never comes
\* back; a document that was there is found, and one that was not is not made up.
Held(k)  == {val[r] : r \in {s \in Reader : rpc[s] = "set" /\ rkey[s] = k}}
Alive(k) == {db[k]} \cup ({cached[k]} \ {Absent}) \cup Held(k)

Reads == INSTANCE CatalogReads WITH
  alive  <- [k \in Key |-> Alive(k)],
  asked  <- rkey,
  answer <- [r \in Reader |-> IF rpc[r] = "idle" THEN val[r] ELSE Pending]
ReadsSpec == Reads!Spec

\* Whatever failed or raced, and though no job ever runs again, each key is cached
\* up to date or not at all in the end: nothing stale is pinned for good.
EventuallyFresh == \A k \in Key : <>[](~Stale(k))

\* The keys of which catalog.go says so.
Evicted == Key \cap {"standings", "analysis", "events", "stats"}

\* catalog.go: standings, analysis, events and stats are evicted on every write, so the
\* TTL "only bounds staleness between a sync and its eviction": a stale entry means a job
\* on its way to evict it, unless an eviction was lost.
StaleOnlyUntilEvicted ==
  \A k \in Evicted : Stale(k) => k \in lost \/ \E j \in Job : k \in Touched(j)
=============================================================================
