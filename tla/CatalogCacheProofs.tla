------------------------- MODULE CatalogCacheProofs -------------------------
(***************************************************************************)
(* Whatever keys, jobs and reads are in play, and whatever fails: why a    *)
(* cached value may be out of date, why no absence is ever cached, and     *)
(* that readers get what CatalogReads promises them.                       *)
(***************************************************************************)
EXTENDS CatalogCache, TLAPS

ReadStates == {"idle", "get", "load", "set"}
Version    == Nat \ {0}

CacheTypeOK ==
  /\ db \in [Key -> Nat]
  /\ cached \in [Key -> Nat \cup {Absent}]
  /\ at \in [Job -> Nat] /\ \A j \in Job : at[j] <= Len(Program[j])
  /\ rpc \in [Reader -> ReadStates]
  /\ rkey \in [Reader -> Key]
  /\ val \in [Reader -> Nat \cup {NotFound, Error}]
  /\ there \in [Reader -> BOOLEAN]
  /\ lost \subseteq Key /\ raced \subseteq Key

\* A document that is cached, or about to be, is one that was found.
Found ==
  /\ \A k \in Key : k \in Single => cached[k] # 0
  /\ \A r \in Reader : rpc[r] = "set" => /\ val[r] \in Nat
                                         /\ rkey[r] \in Single => val[r] # 0

\* A document that was there when a read began is still there.
StillThere == \A r \in Reader : there[r] => rkey[r] \in Single /\ db[rkey[r]] # 0

\* A job on its way to the eviction of k.
OnItsWay(j, k) == k \in Touched(j) /\ \E i \in at[j]..Len(Program[j]) : Program[j][i] = E(k)

CacheInv == CacheTypeOK /\ Found /\ StillThere /\ AbsenceNotCached /\ StaleExplained

(***************************************************************************)
(* The programs of the jobs                                                *)
(***************************************************************************)
LEMMA Programs ==
  ASSUME NEW j \in Job
  PROVE  \/ j \in {"dictionary", "logos"} /\ Program[j] = <<W("leagues"), W("teams"), E("leagues")>>
         \/ j = "tool" /\ Program[j] = <<W("leagues"), W("teams")>>
         \/ j = "modify" /\ Program[j] = <<W("matches"), W("matches"), E("matches"), E("matches")>>
         \/ j = "live" /\ Program[j] = <<W("matches")>>
         \/ \E k \in AllKeys : Program[j] = <<W(k), E(k)>>
BY JobAssumption DEF Program, AllKeys

\* A program is a list of writes and evictions.
LEMMA ProgramType ==
  ASSUME NEW j \in Job
  PROVE  /\ Len(Program[j]) \in Nat \ {0}
         /\ DOMAIN Program[j] = 1..Len(Program[j])
         /\ \A i \in DOMAIN Program[j] : Program[j][i].op \in {"write", "evict"}
<1>1. CASE Program[j] = <<W("leagues"), W("teams"), E("leagues")>>
  BY <1>1 DEF W, E
<1>2. CASE Program[j] = <<W("leagues"), W("teams")>>
  BY <1>2 DEF W, E
<1>3. CASE Program[j] = <<W("matches"), W("matches"), E("matches"), E("matches")>>
  BY <1>3 DEF W, E
<1>4. CASE Program[j] = <<W("matches")>>
  BY <1>4 DEF W, E
<1>5. ASSUME NEW k \in AllKeys, Program[j] = <<W(k), E(k)>>
      PROVE  /\ Len(Program[j]) \in Nat \ {0}
             /\ DOMAIN Program[j] = 1..Len(Program[j])
             /\ \A i \in DOMAIN Program[j] : Program[j][i].op \in {"write", "evict"}
  BY <1>5 DEF W, E
<1> QED
  BY <1>1, <1>2, <1>3, <1>4, <1>5, Programs

\* Every job evicts what it writes, later, but for what is left to the TTL.
LEMMA WrittenIsEvicted ==
  ASSUME NEW j \in Job, NEW i \in 1..Len(Program[j]), Program[j][i].op = "write",
         NEW k, Program[j][i].key = k, <<j, k>> \notin LeftToTTL
  PROVE  \E n \in (i + 1)..Len(Program[j]) : Program[j][n] = E(k)
<1>1. /\ j \in {"dictionary", "logos", "tool"} => k # "teams"
      /\ j = "tool" => k # "leagues"
      /\ j = "live" => k # "matches"
  BY DEF LeftToTTL
<1>2. CASE j \in {"dictionary", "logos"} /\ Program[j] = <<W("leagues"), W("teams"), E("leagues")>>
  <2>1. i \in {1, 2, 3} /\ Len(Program[j]) = 3 /\ Program[j][3] = E("leagues")
    BY <1>2
  <2>2. i = 1 /\ k = "leagues"
    BY <1>1, <1>2, <2>1 DEF W, E
  <2> QED
    BY <2>1, <2>2
<1>3. CASE j = "tool" /\ Program[j] = <<W("leagues"), W("teams")>>
  <2>1. i \in {1, 2}
    BY <1>3
  <2>2. k \in {"leagues", "teams"}
    BY <1>3, <2>1 DEF W
  <2> QED
    BY <1>1, <1>3, <2>2
<1>4. CASE Program[j] = <<W("matches"), W("matches"), E("matches"), E("matches")>>
  <2>1. i \in {1, 2, 3, 4} /\ Len(Program[j]) = 4 /\ Program[j][3] = E("matches")
    BY <1>4
  <2>2. i \in {1, 2} /\ k = "matches"
    BY <1>4, <2>1 DEF W, E
  <2> QED
    BY <2>1, <2>2
<1>5. CASE j = "live" /\ Program[j] = <<W("matches")>>
  <2>1. i = 1
    BY <1>5
  <2> QED
    BY <1>1, <1>5, <2>1 DEF W
<1>6. ASSUME NEW n \in AllKeys, Program[j] = <<W(n), E(n)>>
      PROVE  \E m \in (i + 1)..Len(Program[j]) : Program[j][m] = E(k)
  <2>1. i \in {1, 2} /\ Len(Program[j]) = 2 /\ Program[j][2] = E(n)
    BY <1>6
  <2>2. i = 1 /\ k = n
    BY <1>6, <2>1 DEF W, E
  <2> QED
    BY <2>1, <2>2
<1> QED
  BY <1>2, <1>3, <1>4, <1>5, <1>6, Programs

(***************************************************************************)
(* Types, and documents that are found                                     *)
(***************************************************************************)
LEMMA CacheInit == Init => CacheInv
<1> SUFFICES ASSUME Init PROVE CacheInv
  OBVIOUS
<1>1. AnyKey \in Key
  BY KeyAssumption DEF AnyKey
<1>2. CacheTypeOK
  BY <1>1, ProgramType DEF Init, CacheTypeOK, ReadStates
<1>3. Found /\ StillThere /\ AbsenceNotCached
  BY DEF Init, Found, StillThere, AbsenceNotCached, Absent
<1>4. StaleExplained
  BY DEF Init, StaleExplained, Stale
<1> QED
  BY <1>2, <1>3, <1>4 DEF CacheInv

\* A job is at a step of its program, and advances to one.
LEMMA JobAt ==
  ASSUME CacheTypeOK, NEW j \in Job, NEW op, At(j, op)
  PROVE  /\ at[j] \in 1..Len(Program[j])
         /\ Advance(j) => /\ at' \in [Job -> Nat]
                          /\ \A i \in Job : at'[i] <= Len(Program[i])
<1>1. at[j] \in 1..Len(Program[j]) /\ Len(Program[j]) \in Nat
  BY ProgramType DEF CacheTypeOK, At
<1>2. ASSUME Advance(j)
      PROVE  at' \in [Job -> Nat] /\ \A i \in Job : at'[i] <= Len(Program[i])
  <2> DEFINE n == IF at[j] = Len(Program[j]) THEN 0 ELSE at[j] + 1
  <2>1. n \in 0..Len(Program[j])
    BY <1>1
  <2>2. at' = [at EXCEPT ![j] = n]
    BY <1>2 DEF Advance
  <2> HIDE DEF n
  <2> QED
    BY <1>1, <2>1, <2>2 DEF CacheTypeOK
<1> QED
  BY <1>1, <1>2

\* A document once there stays there.
LEMMA ChangeType ==
  ASSUME CacheTypeOK, NEW k, Change(k)
  PROVE  /\ db' \in [Key -> Nat]
         /\ \A n \in Key : db[n] # 0 => db'[n] # 0
         /\ \A n \in Key \ {k} : db'[n] = db[n]
<1>1. CASE db' = db
  BY <1>1 DEF CacheTypeOK
<1>2. CASE k \in Key /\ db' = [db EXCEPT ![k] = @ + 1]
  BY <1>2 DEF CacheTypeOK
<1> QED
  BY <1>1, <1>2 DEF Change

LEMMA TouchedType ==
  ASSUME NEW j \in Job
  PROVE  Touched(j) \subseteq Key
BY DEF Touched

LEMMA ReadStep ==
  ASSUME CacheTypeOK, Found, StillThere, AbsenceNotCached, NEW r \in Reader,
         Read(r) \/ \E k \in Key : Begin(r, k)
  PROVE  CacheTypeOK' /\ Found' /\ StillThere' /\ AbsenceNotCached'
<1> USE DEF CacheTypeOK, ReadStates
<1>1. ASSUME NEW k \in Key, Begin(r, k)
      PROVE  CacheTypeOK' /\ Found' /\ StillThere' /\ AbsenceNotCached'
  <2>1. /\ rpc' = [rpc EXCEPT ![r] = "get"] /\ rkey' = [rkey EXCEPT ![r] = k]
        /\ val' = [val EXCEPT ![r] = 0] /\ UNCHANGED <<db, cached, at, lost, raced>>
    BY <1>1 DEF Begin, why
  <2> DEFINE b == k \in Single /\ db[k] > 0
  <2>a. there' = [there EXCEPT ![r] = b]
    BY <1>1 DEF Begin
  <2>b. b \in BOOLEAN /\ (b => k \in Single /\ db[k] # 0)
    OBVIOUS
  <2>2. there' = [there EXCEPT ![r] = b] /\ b \in BOOLEAN /\ (b => k \in Single /\ db[k] # 0)
    BY <2>a, <2>b
  <2> HIDE DEF b
  <2>3. \A n \in Reader \ {r} : /\ rpc'[n] = rpc[n] /\ rkey'[n] = rkey[n]
                                /\ val'[n] = val[n] /\ there'[n] = there[n]
    BY <2>1, <2>2
  <2>4. rpc'[r] = "get" /\ rkey'[r] = k /\ (there'[r] => k \in Single /\ db[k] # 0)
    BY <2>1, <2>2
  <2>5. CacheTypeOK'
    BY <2>1, <2>2
  <2> QED
    BY <2>1, <2>3, <2>4, <2>5 DEF Found, StillThere, AbsenceNotCached
<1>2. CASE Hit(r)
  <2>1. /\ rpc' = [rpc EXCEPT ![r] = "idle"] /\ val' = [val EXCEPT ![r] = cached[rkey[r]]]
        /\ cached[rkey[r]] \in Nat /\ UNCHANGED <<db, cached, at, rkey, there, lost, raced>>
    BY <1>2 DEF Hit, Answer, why
  <2>2. there[r] => cached[rkey[r]] # 0
    BY DEF Found, StillThere
  <2> QED
    BY <2>1, <2>2 DEF Found, StillThere, AbsenceNotCached, NotFound
<1>3. CASE Miss(r)
  BY <1>3 DEF Miss, why, Found, StillThere, AbsenceNotCached
<1>4. CASE Load(r) /\ FoundNothing(rkey[r])
  <2>1. ~there[r]
    BY <1>4 DEF FoundNothing, StillThere
  <2> QED
    BY <1>4, <2>1 DEF Load, Answer, why, Found, StillThere, AbsenceNotCached
<1>5. CASE Load(r) /\ ~FoundNothing(rkey[r])
  BY <1>5 DEF Load, FoundNothing, why, Found, StillThere, AbsenceNotCached
<1>6. CASE LoadFails(r)
  BY <1>6 DEF LoadFails, Answer, why, Found, StillThere, AbsenceNotCached, Error, NotFound
<1>7. CASE Populate(r)
  <2>1. /\ cached' = [cached EXCEPT ![rkey[r]] = val[r]] /\ rpc' = [rpc EXCEPT ![r] = "idle"]
        /\ val' = val /\ UNCHANGED <<db, at, rkey, there>>
        /\ val[r] \in Nat /\ (rkey[r] \in Single => val[r] # 0)
    BY <1>7 DEF Populate, Answer, Found
  <2>2. lost' \subseteq Key /\ raced' \subseteq Key
    BY <1>7 DEF Populate, Because
  <2>3. cached' \in [Key -> Nat \cup {Absent}]
    BY <2>1
  <2>4. Found' /\ StillThere'
    BY <2>1 DEF Found, StillThere
  <2>5. AbsenceNotCached'
    BY <2>1 DEF AbsenceNotCached, StillThere, NotFound
  <2> QED
    BY <2>1, <2>2, <2>3, <2>4, <2>5
<1>8. CASE PopulateFails(r)
  BY <1>8 DEF PopulateFails, Answer, why, Found, StillThere, AbsenceNotCached, NotFound
<1> QED
  BY <1>1, <1>2, <1>3, <1>4, <1>5, <1>6, <1>7, <1>8 DEF Read

\* Nothing that is not a read caches a value or takes a document away.
LEMMA OtherStep ==
  ASSUME CacheTypeOK, Found, StillThere, AbsenceNotCached,
         UNCHANGED reads,
         db' \in [Key -> Nat], \A k \in Key : db[k] # 0 => db'[k] # 0,
         cached' \in [Key -> Nat \cup {Absent}],
         \A k \in Key : cached'[k] \in {cached[k], Absent},
         at' \in [Job -> Nat], \A j \in Job : at'[j] <= Len(Program[j]),
         lost' \subseteq Key, raced' \subseteq Key
  PROVE  CacheTypeOK' /\ Found' /\ StillThere' /\ AbsenceNotCached'
BY DEF CacheTypeOK, Found, StillThere, AbsenceNotCached, reads, Absent

LEMMA JobStep ==
  ASSUME CacheTypeOK, Found, StillThere, AbsenceNotCached, NEW j \in Job,
         Start(j) \/ Write(j) \/ WriteFails(j) \/ Evict(j) \/ EvictFails(j)
  PROVE  CacheTypeOK' /\ Found' /\ StillThere' /\ AbsenceNotCached'
<1>1. CASE Start(j)
  <2>1. at' \in [Job -> Nat] /\ \A i \in Job : at'[i] <= Len(Program[i])
    BY <1>1, ProgramType DEF Start, CacheTypeOK
  <2> QED
    BY <1>1, <2>1, OtherStep DEF Start, CacheTypeOK, why
<1>2. ASSUME NEW L, Because(L, {}), L \subseteq Key PROVE lost' \subseteq Key /\ raced' \subseteq Key
  BY <1>2 DEF Because, CacheTypeOK
<1>3. CASE Write(j) \/ WriteFails(j)
  <2>1. /\ At(j, "write") /\ Change(Step(j).key) /\ cached' = cached /\ UNCHANGED reads
        /\ \E L \in SUBSET Key : Because(L, {})
    BY <1>3, TouchedType DEF Write, WriteFails
  <2>2. at' \in [Job -> Nat] /\ \A i \in Job : at'[i] <= Len(Program[i])
    <3>1. CASE Write(j)
      BY <3>1, JobAt DEF Write
    <3>2. CASE WriteFails(j)
      BY <3>2, ProgramType DEF WriteFails, CacheTypeOK
    <3> QED
      BY <1>3, <3>1, <3>2
  <2>3. lost' \subseteq Key /\ raced' \subseteq Key
    BY <1>2, <2>1
  <2>4. db' \in [Key -> Nat] /\ \A n \in Key : db[n] # 0 => db'[n] # 0
    BY <2>1, ChangeType
  <2> QED
    BY <2>1, <2>2, <2>3, <2>4, OtherStep DEF CacheTypeOK
<1>4. CASE Evict(j) \/ EvictFails(j)
  <2>1. /\ At(j, "evict") /\ db' = db /\ UNCHANGED reads /\ Advance(j)
        /\ \E L \in SUBSET Key : Because(L, {})
    BY <1>4 DEF Evict, EvictFails
  <2>2. at' \in [Job -> Nat] /\ \A i \in Job : at'[i] <= Len(Program[i])
    BY <2>1, JobAt
  <2>3. lost' \subseteq Key /\ raced' \subseteq Key
    BY <1>2, <2>1
  <2>4. /\ cached' \in [Key -> Nat \cup {Absent}]
        /\ \A k \in Key : cached'[k] \in {cached[k], Absent}
    BY <1>4 DEF Evict, EvictFails, CacheTypeOK
  <2> QED
    BY <2>1, <2>2, <2>3, <2>4, OtherStep DEF CacheTypeOK
<1> QED
  BY <1>1, <1>3, <1>4

LEMMA FoundStep ==
  ASSUME CacheInv, [Next]_vars
  PROVE  CacheTypeOK' /\ Found' /\ StillThere' /\ AbsenceNotCached'
<1> USE DEF CacheInv
<1>1. ASSUME NEW k \in Key, Expire(k)
      PROVE  CacheTypeOK' /\ Found' /\ StillThere' /\ AbsenceNotCached'
  <2>1. raced' \subseteq Key /\ lost' \subseteq Key
    BY <1>1 DEF Expire, Because, CacheTypeOK
  <2>2. /\ cached' \in [Key -> Nat \cup {Absent}]
        /\ \A n \in Key : cached'[n] \in {cached[n], Absent}
    BY <1>1 DEF Expire, CacheTypeOK
  <2> QED
    BY <1>1, <2>1, <2>2, OtherStep DEF Expire, CacheTypeOK
<1>2. CASE Crash
  <2>1. raced' \subseteq Key /\ lost' \subseteq Key
    BY <1>2, TouchedType DEF Crash, Because, CacheTypeOK
  <2>2. at' = [j \in Job |-> 0] /\ rpc' = [r \in Reader |-> "idle"]
        /\ val' = [r \in Reader |-> Error] /\ UNCHANGED <<db, cached, rkey, there>>
    BY <1>2 DEF Crash
  <2>3. CacheTypeOK'
    BY <2>1, <2>2, ProgramType DEF CacheTypeOK, ReadStates
  <2> QED
    BY <2>2, <2>3 DEF CacheTypeOK, Found, StillThere, AbsenceNotCached, Error, NotFound
<1>3. CASE UNCHANGED vars
  BY <1>3 DEF vars, reads, why, CacheTypeOK, Found, StillThere, AbsenceNotCached
<1> QED
  BY <1>1, <1>2, <1>3, ReadStep, JobStep DEF Next

(***************************************************************************)
(* What is stale                                                           *)
(***************************************************************************)
LEMMA Explained ==
  StaleExplained <=>
    \A k \in Key : Stale(k) => k \in lost \cup raced \/ \E j \in Job : OnItsWay(j, k)
BY DEF StaleExplained, OnItsWay

\* A job that takes a step other than the eviction of k stays on its way to it.
LEMMA WayKept ==
  ASSUME CacheTypeOK, NEW j \in Job, NEW k \in Key, OnItsWay(j, k),
         \/ at'[j] = at[j]
         \/ at' = [at EXCEPT ![j] = IF @ = Len(Program[j]) THEN 0 ELSE @ + 1]
            /\ Program[j][at[j]] # E(k)
  PROVE  OnItsWay(j, k)'
<1>1. at[j] \in Nat /\ at[j] <= Len(Program[j]) /\ Len(Program[j]) \in Nat
  BY ProgramType DEF CacheTypeOK
<1>2. PICK i \in at[j]..Len(Program[j]) : Program[j][i] = E(k)
  BY DEF OnItsWay
<1>3. PICK n \in 1..at[j] : k = Program[j][n].key
  BY DEF OnItsWay, Touched
<1>4. at'[j] \in at[j]..i
  BY <1>1, <1>2 DEF CacheTypeOK
<1>5. n \in 1..at'[j] /\ i \in at'[j]..Len(Program[j])
  BY <1>1, <1>2, <1>3, <1>4
<1> QED
  BY <1>2, <1>3, <1>5 DEF OnItsWay, Touched

\* A key stale for a reason before stays so for one after, unless a job lets go of it.
LEMMA StaleKept ==
  ASSUME CacheInv, NEW k \in Key, Stale(k), Stale(k)', NEW L, NEW R, Because(L, R),
         \A j \in Job : OnItsWay(j, k) => OnItsWay(j, k)' \/ k \in L
  PROVE  k \in (lost \cup raced)' \/ \E j \in Job : OnItsWay(j, k)'
BY Explained DEF CacheInv, Because

LEMMA StaleJob ==
  ASSUME CacheInv, NEW j \in Job, NEW k \in Key, Stale(k)',
         Start(j) \/ Write(j) \/ WriteFails(j) \/ Evict(j) \/ EvictFails(j)
  PROVE  k \in (lost \cup raced)' \/ \E i \in Job : OnItsWay(i, k)'
<1>0. CacheTypeOK
  BY DEF CacheInv
<1>1. ASSUME NEW i \in Job \ {j} PROVE OnItsWay(i, k) => OnItsWay(i, k)'
  <2>1. at'[i] = at[i]
    BY <1>0 DEF CacheTypeOK, Start, Write, WriteFails, Evict, EvictFails, Advance
  <2> QED
    BY <1>0, <2>1, WayKept
<1>2. CASE Start(j)
  <2>1. ~OnItsWay(j, k)
    BY <1>2 DEF Start, OnItsWay, Touched
  <2>2. Stale(k) /\ lost' = lost /\ raced' = raced
    BY <1>2 DEF Start, Stale, why
  <2> QED
    BY <1>1, <2>1, <2>2, Explained DEF CacheInv
<1>3. CASE Write(j) \/ WriteFails(j)
  <2> DEFINE L == IF Write(j) THEN {n \in Key : <<j, n>> \in LeftToTTL /\ db'[n] # db[n]}
                              ELSE Touched(j)
  <2>1. At(j, "write") /\ Change(Step(j).key) /\ cached' = cached /\ Because(L, {})
    BY <1>3 DEF Write, WriteFails
  <2>2. /\ at[j] \in 1..Len(Program[j])
        /\ Program[j][at[j]].op = "write" /\ Program[j][at[j]].key = Step(j).key
    BY <1>0, <2>1, JobAt DEF At, Step
  <2>3. Program[j][at[j]] # E(k)
    BY <2>2 DEF E
  <2>4. OnItsWay(j, k) => OnItsWay(j, k)' \/ k \in L
    <3>1. CASE Write(j)
      BY <1>0, <2>3, <3>1, WayKept DEF Write, Advance
    <3>2. CASE ~Write(j)
      BY <3>2 DEF OnItsWay
    <3> QED
      BY <3>1, <3>2
  <2>5. CASE Stale(k)
    <3> HIDE DEF L
    <3> QED
      BY <1>1, <2>1, <2>4, <2>5, StaleKept
  <2>6. CASE ~Stale(k)
    <3>1. db'[k] # db[k]
      BY <2>1, <2>6 DEF Stale
    <3>2. Step(j).key = k
      BY <1>0, <2>1, <3>1, ChangeType
    <3>3. k \in Touched(j)
      BY <2>2, <3>2 DEF Touched
    <3>4. CASE <<j, k>> \in LeftToTTL \/ ~Write(j)
      <4>1. k \in L
        BY <3>1, <3>3, <3>4
      <4> QED
        BY <2>1, <4>1 DEF Because
    <3>5. CASE <<j, k>> \notin LeftToTTL /\ Write(j)
      <4>1. PICK n \in (at[j] + 1)..Len(Program[j]) : Program[j][n] = E(k)
        BY <2>2, <3>2, <3>5, WrittenIsEvicted
      <4>2. OnItsWay(j, k)
        BY <2>2, <3>3, <4>1 DEF OnItsWay
      <4>3. OnItsWay(j, k)'
        BY <1>0, <2>3, <3>5, <4>2, WayKept DEF Write, Advance
      <4> QED
        BY <4>3
    <3> QED
      BY <3>4, <3>5
  <2> QED
    BY <2>5, <2>6
<1>4. CASE Evict(j) \/ EvictFails(j)
  <2> DEFINE L == IF Evict(j) THEN {} ELSE {Step(j).key} \cap Key
  <2>1. At(j, "evict") /\ db' = db /\ Because(L, {}) /\ Advance(j)
    BY <1>4 DEF Evict, EvictFails
  <2>2. at[j] \in 1..Len(Program[j])
    BY <1>0, <2>1, JobAt
  <2>3. CASE Step(j).key = k
    <3>1. ~Evict(j)
      BY <2>3 DEF Evict, Stale
    <3>2. k \in L
      BY <2>3, <3>1
    <3> QED
      BY <2>1, <3>2 DEF Because
  <2>4. CASE Step(j).key # k
    <3>1. Program[j][at[j]] # E(k)
      BY <2>4 DEF Step, E
    <3>2. OnItsWay(j, k) => OnItsWay(j, k)'
      BY <1>0, <2>1, <3>1, WayKept DEF Advance
    <3>3. Stale(k)
      BY <1>4, <2>1, <2>4 DEF Evict, EvictFails, Stale
    <3> HIDE DEF L
    <3> QED
      BY <1>1, <2>1, <3>2, <3>3, StaleKept
  <2> QED
    BY <2>3, <2>4
<1> QED
  BY <1>2, <1>3, <1>4

LEMMA StaleStep ==
  ASSUME CacheInv, [Next]_vars
  PROVE  StaleExplained'
<1> SUFFICES ASSUME NEW k \in Key, Stale(k)'
             PROVE  k \in (lost \cup raced)' \/ \E j \in Job : OnItsWay(j, k)'
  BY DEF StaleExplained, OnItsWay
<1>0. CacheTypeOK
  BY DEF CacheInv
<1>1. CASE UNCHANGED <<db, cached, at, lost, raced>>
  <2>1. Stale(k)
    BY <1>1 DEF Stale
  <2>2. \A j \in Job : OnItsWay(j, k) => OnItsWay(j, k)'
    BY <1>1 DEF OnItsWay, Touched
  <2> QED
    BY <1>1, <2>1, <2>2, Explained DEF CacheInv
<1>2. ASSUME NEW r \in Reader, Read(r) \/ \E n \in Key : Begin(r, n)
      PROVE  k \in (lost \cup raced)' \/ \E j \in Job : OnItsWay(j, k)'
  <2>1. CASE Populate(r)
    <3>1. /\ cached' = [cached EXCEPT ![rkey[r]] = val[r]] /\ Because({}, {rkey[r]})
          /\ db' = db /\ at' = at
      BY <2>1 DEF Populate
    <3>2. CASE rkey[r] = k
      BY <3>1, <3>2 DEF Because
    <3>3. CASE rkey[r] # k
      <4>1. Stale(k)
        BY <1>0, <3>1, <3>3 DEF Stale, CacheTypeOK
      <4>2. \A j \in Job : OnItsWay(j, k) => OnItsWay(j, k)'
        BY <3>1 DEF OnItsWay, Touched
      <4> QED
        BY <3>1, <4>1, <4>2, StaleKept
    <3> QED
      BY <3>2, <3>3
  <2> QED
    BY <1>1, <1>2, <2>1 DEF Read, Begin, Hit, Miss, Load, LoadFails, PopulateFails, why
<1>3. ASSUME NEW n \in Key, Expire(n)
      PROVE  k \in (lost \cup raced)' \/ \E j \in Job : OnItsWay(j, k)'
  <2>1. Stale(k)
    BY <1>0, <1>3 DEF Expire, Stale, CacheTypeOK
  <2>2. \A j \in Job : OnItsWay(j, k) => OnItsWay(j, k)'
    BY <1>3 DEF Expire, OnItsWay, Touched
  <2> QED
    BY <1>3, <2>1, <2>2, StaleKept DEF Expire
<1>4. CASE Crash
  <2>1. Stale(k)
    BY <1>4 DEF Crash, Stale
  <2>2. \A j \in Job : OnItsWay(j, k) => k \in UNION {Touched(i) : i \in Job}
    BY DEF OnItsWay
  <2> QED
    BY <1>4, <2>1, <2>2, StaleKept DEF Crash
<1>5. CASE UNCHANGED vars
  BY <1>1, <1>5 DEF vars, why
<1> QED
  BY <1>2, <1>3, <1>4, <1>5, StaleJob DEF Next

LEMMA CacheInvariant == Spec => []CacheInv
<1>1. CacheInv /\ [Next]_vars => CacheInv'
  BY FoundStep, StaleStep DEF CacheInv
<1> QED
  BY CacheInit, <1>1, PTL DEF Spec

\* Every variable keeps its type, whatever the keys, jobs and readers are.
THEOREM CacheTypeCorrect == Spec => []CacheTypeOK
<1>1. CacheInv => CacheTypeOK
  BY DEF CacheInv
<1> QED
  BY <1>1, CacheInvariant, PTL

\* Nothing is cached out of date but for a job on its way to the eviction, an eviction that
\* was lost, a write of those that nobody evicts (cmd/logo-sync's, the live loops', the teams
\* of all), or a read that raced a write: for any keys, jobs, readers and failures.
THEOREM StaleExplainedHolds == Spec => []StaleExplained
<1>1. CacheInv => StaleExplained
  BY DEF CacheInv
<1> QED
  BY <1>1, CacheInvariant, PTL

\* readThroughOne never pins a document as absent: a read that began once it was there
\* neither misses it nor answers the zero document, whatever raced it or failed.
THEOREM AbsenceNotCachedHolds == Spec => []AbsenceNotCached
<1>1. CacheInv => AbsenceNotCached
  BY DEF CacheInv
<1> QED
  BY <1>1, CacheInvariant, PTL

(***************************************************************************)
(* What readers rely on                                                    *)
(***************************************************************************)
Answered == [r \in Reader |-> IF rpc[r] = "idle" THEN val[r] ELSE Pending]

\* Nothing but the latest version of MongoDB is cached, or about to be, that was not before.
LEMMA Fades ==
  ASSUME db' \in [Key -> Nat],
         \A k \in Key : /\ cached'[k] \in {cached[k], Absent} \cup Held(k)
                        /\ Held(k)' \subseteq Held(k) \cup {db'[k]}
  PROVE  Reads!Fading
BY DEF Reads!Fading, Alive

\* Whoever holds a version before a step holds it after, or drops it.
LEMMA HeldKept ==
  ASSUME UNCHANGED <<rkey, val>>, \A r \in Reader : rpc'[r] = "set" => rpc[r] = "set",
         NEW k \in Key
  PROVE  Held(k)' \subseteq Held(k)
BY DEF Held

LEMMA ReadsInit == Init => Reads!Init
<1> SUFFICES ASSUME Init PROVE Reads!Init
  OBVIOUS
<1>1. AnyKey \in Key
  BY KeyAssumption DEF AnyKey
<1>2. ASSUME NEW k \in Key PROVE Alive(k) = {0}
  <2>1. Held(k) = {}
    BY DEF Init, Held
  <2> QED
    BY <2>1 DEF Init, Alive
<1> QED
  BY <1>1, <1>2 DEF Init, Reads!Init

\* A read that is answered gets a version that is alive, or learns what is missing.
LEMMA ReplyStep ==
  ASSUME CacheTypeOK, NEW r \in Reader, NEW v,
         rpc[r] # "idle", rpc' = [rpc EXCEPT ![r] = "idle"], val' = [val EXCEPT ![r] = v],
         UNCHANGED <<db, rkey, there>>,
         v \in Alive(rkey[r]) \cup {NotFound, Error},
         \/ v \in Alive(rkey[r]) /\ (rkey[r] \in Single => v # 0)
         \/ v = NotFound /\ rkey[r] \in Single /\ ~there[r]
         \/ v = Error,
         Reads!Fading
  PROVE  Reads!Reply(r)
<1>1. Answered[r] = Pending
  BY DEF Answered
<1>2. Answered' = [Answered EXCEPT ![r] = v]
  BY DEF Answered, CacheTypeOK
<1>3. Reads!Allowed(r, v)
  BY DEF Reads!Allowed, Reads!NotFound, Reads!Error, NotFound, Error, CacheTypeOK
<1> QED
  BY <1>1, <1>2, <1>3 DEF Reads!Reply, Answered, Reads!Pending, Pending, Reads!NotFound, Reads!Error,
     NotFound, Error, CacheTypeOK

\* What is cached changes by expiry and eviction alone, and reads stay where they are.
LEMMA ForgetStep ==
  ASSUME db' \in [Key -> Nat], UNCHANGED <<rpc, rkey, val, there>>,
         \A k \in Key : cached'[k] \in {cached[k], Absent}
  PROVE  Reads!Fading /\ UNCHANGED <<rkey, Answered, there>>
BY HeldKept, Fades DEF Answered

LEMMA ReadsRead ==
  ASSUME CacheInv, CacheTypeOK', NEW r \in Reader,
         Read(r) \/ \E k \in Key : Begin(r, k)
  PROVE  Reads!Next
<1> USE DEF CacheInv
<1>1. ASSUME NEW k \in Key, Begin(r, k)
      PROVE  Reads!Next
  <2>1. /\ rpc[r] = "idle" /\ rpc' = [rpc EXCEPT ![r] = "get"] /\ rkey' = [rkey EXCEPT ![r] = k]
        /\ val' = [val EXCEPT ![r] = 0]
        /\ there' = [there EXCEPT ![r] = k \in Single /\ db[k] > 0]
        /\ UNCHANGED <<db, cached>>
    BY <1>1 DEF Begin
  <2>a. Pending \notin Nat \cup {NotFound, Error}
    BY DEF NotFound, Error, Pending
  <2>b. val[r] \in Nat \cup {NotFound, Error}
    BY DEF CacheTypeOK
  <2>c. Answered' = [Answered EXCEPT ![r] = Pending]
    BY <2>1 DEF Answered, CacheTypeOK
  <2>2. Answered[r] # Pending /\ Answered' = [Answered EXCEPT ![r] = Pending]
    BY <2>1, <2>a, <2>b, <2>c DEF Answered
  <2>3. ASSUME NEW n \in Key PROVE Alive(n)' = Alive(n)
    <3>1. \A s \in Reader : rpc'[s] = "set" /\ rkey'[s] = n <=> rpc[s] = "set" /\ rkey[s] = n
      BY <2>1 DEF CacheTypeOK
    <3>2. \A s \in Reader : rpc[s] = "set" => val'[s] = val[s]
      BY <2>1 DEF CacheTypeOK
    <3>3. Held(n)' = Held(n)
      BY <3>1, <3>2 DEF Held
    <3> QED
      BY <2>1, <3>3 DEF Alive
  <2>4. Reads!Ask(r, k)
    BY <2>1, <2>2, <2>3 DEF Reads!Ask, Answered, Reads!Pending, Pending
  <2> QED
    BY <2>4 DEF Reads!Next
<1>2. ASSUME Reads!Reply(r) PROVE Reads!Next
  BY <1>2 DEF Reads!Next
<1>3. ASSUME db' = db, rkey' = rkey, NEW v, rpc' = [rpc EXCEPT ![r] = "idle"],
             val' = [val EXCEPT ![r] = v],
             \A k \in Key : cached'[k] \in {cached[k], Absent} \cup Held(k)
      PROVE  Reads!Fading
  <2>1. \A k \in Key : Held(k)' \subseteq Held(k)
    BY <1>3 DEF Held, CacheTypeOK
  <2> QED
    BY <1>3, <2>1, Fades DEF CacheTypeOK
<1>4. CASE Hit(r)
  <2>1. /\ rpc[r] # "idle" /\ rpc' = [rpc EXCEPT ![r] = "idle"]
        /\ val' = [val EXCEPT ![r] = cached[rkey[r]]]
        /\ cached[rkey[r]] # Absent /\ UNCHANGED <<db, cached, rkey, there>>
    BY <1>4 DEF Hit, Answer
  <2>2. Reads!Fading
    BY <1>3, <2>1
  <2>3. rkey[r] \in Key /\ (rkey[r] \in Single => cached[rkey[r]] # 0)
    BY DEF CacheTypeOK, Found
  <2> QED
    BY <1>2, <2>1, <2>2, <2>3, ReplyStep DEF Alive
<1>5. CASE Miss(r)
  <2>1. /\ rpc[r] = "get" /\ rpc' = [rpc EXCEPT ![r] = "load"]
        /\ UNCHANGED <<db, cached, rkey, val, there>>
    BY <1>5 DEF Miss
  <2>2. Answered' = Answered /\ \A s \in Reader : rpc'[s] = "set" => rpc[s] = "set"
    BY <2>1 DEF Answered, CacheTypeOK
  <2>3. Reads!Fading
    BY <2>1, <2>2, HeldKept, Fades DEF CacheTypeOK
  <2> QED
    BY <2>1, <2>2, <2>3 DEF Reads!Next, Reads!Forget, Answered
<1>6. CASE Load(r) /\ FoundNothing(rkey[r])
  <2>1. /\ rpc[r] # "idle" /\ rpc' = [rpc EXCEPT ![r] = "idle"]
        /\ val' = [val EXCEPT ![r] = NotFound] /\ UNCHANGED <<db, cached, rkey, there>>
    BY <1>6 DEF Load, Answer
  <2>2. Reads!Fading
    BY <1>3, <2>1
  <2>3. rkey[r] \in Single /\ ~there[r]
    BY <1>6 DEF FoundNothing, StillThere
  <2> QED
    BY <1>2, <2>1, <2>2, <2>3, ReplyStep
<1>7. CASE Load(r) /\ ~FoundNothing(rkey[r])
  <2>1. /\ rpc[r] = "load" /\ rpc' = [rpc EXCEPT ![r] = "set"]
        /\ val' = [val EXCEPT ![r] = db[rkey[r]]] /\ UNCHANGED <<db, cached, rkey, there>>
    BY <1>7 DEF Load
  <2>2. Answered' = Answered
    BY <2>1 DEF Answered, CacheTypeOK
  <2>3. ASSUME NEW k \in Key PROVE Held(k)' \subseteq Held(k) \cup {db'[k]}
    BY <2>1 DEF Held, CacheTypeOK
  <2>4. Reads!Fading
    BY <2>1, <2>3, Fades DEF CacheTypeOK
  <2> QED
    BY <2>1, <2>2, <2>4 DEF Reads!Next, Reads!Forget, Answered
<1>8. CASE LoadFails(r)
  <2>1. /\ rpc[r] # "idle" /\ rpc' = [rpc EXCEPT ![r] = "idle"]
        /\ val' = [val EXCEPT ![r] = Error] /\ UNCHANGED <<db, cached, rkey, there>>
    BY <1>8 DEF LoadFails, Answer
  <2>2. Reads!Fading
    BY <1>3, <2>1
  <2> QED
    BY <1>2, <2>1, <2>2, ReplyStep
<1>9. CASE Populate(r) \/ PopulateFails(r)
  <2>1. /\ rpc[r] = "set" /\ rpc' = [rpc EXCEPT ![r] = "idle"]
        /\ val' = [val EXCEPT ![r] = val[r]] /\ UNCHANGED <<db, rkey, there>>
    BY <1>9 DEF Populate, PopulateFails, Answer
  <2>2. val[r] \in Held(rkey[r]) /\ rkey[r] \in Key /\ (rkey[r] \in Single => val[r] # 0)
    BY <2>1 DEF Held, Found, CacheTypeOK
  <2>3. \A k \in Key : cached'[k] \in {cached[k], Absent} \cup Held(k)
    BY <1>9, <2>2 DEF Populate, PopulateFails, CacheTypeOK
  <2>4. Reads!Fading
    BY <1>3, <2>1, <2>3
  <2> QED
    BY <1>2, <2>1, <2>2, <2>4, ReplyStep DEF Alive
<1> QED
  BY <1>1, <1>4, <1>5, <1>6, <1>7, <1>8, <1>9 DEF Read

LEMMA ReadsStep ==
  ASSUME CacheInv, [Next]_vars
  PROVE  [Reads!Next]_Reads!vars
<1>0. CacheTypeOK /\ CacheTypeOK' /\ db' \in [Key -> Nat]
  BY FoundStep DEF CacheInv, CacheTypeOK
<1>1. ASSUME Reads!Fading, UNCHANGED <<db, rkey, Answered, there>>
      PROVE  Reads!Next
  BY <1>1 DEF Reads!Next, Reads!Forget, Answered
<1>2. ASSUME NEW k \in Key, Expire(k) PROVE Reads!Next
  <2>1. UNCHANGED <<db, rpc, rkey, val, there>> /\ \A n \in Key : cached'[n] \in {cached[n], Absent}
    BY <1>0, <1>2 DEF Expire, reads, CacheTypeOK
  <2> QED
    BY <1>0, <1>1, <2>1, ForgetStep
<1>3. ASSUME NEW j \in Job, Start(j) \/ Evict(j) \/ EvictFails(j)
      PROVE  Reads!Next
  <2>1. UNCHANGED <<db, rpc, rkey, val, there>> /\ \A n \in Key : cached'[n] \in {cached[n], Absent}
    BY <1>0, <1>3 DEF Start, Evict, EvictFails, reads, CacheTypeOK
  <2> QED
    BY <1>0, <1>1, <2>1, ForgetStep
<1>4. ASSUME NEW j \in Job, Write(j) \/ WriteFails(j)
      PROVE  Reads!Next
  <2>1. Change(Step(j).key) /\ UNCHANGED <<cached, rpc, rkey, val, there>>
    BY <1>4 DEF Write, WriteFails, reads
  <2>2. db' \in [Key -> Nat]
    BY <1>0
  <2>3. Reads!Fading /\ UNCHANGED <<rkey, Answered, there>>
    BY <1>0, <2>1, ForgetStep
  <2>4. CASE db' = db
    BY <1>1, <2>3, <2>4
  <2>5. CASE Step(j).key \in Key /\ db' = [db EXCEPT ![Step(j).key] = @ + 1]
    <3>1. Reads!Change(Step(j).key)
      BY <2>3, <2>5 DEF Reads!Change, Answered
    <3> QED
      BY <2>5, <3>1 DEF Reads!Next
  <2> QED
    BY <2>1, <2>4, <2>5 DEF Change
<1>5. CASE Crash
  <2>1. /\ rpc' = [r \in Reader |-> "idle"] /\ val' = [r \in Reader |-> Error]
        /\ UNCHANGED <<db, cached, rkey, there>>
    BY <1>5 DEF Crash
  <2>2. Answered' = [r \in Reader |-> Error] /\ \A k \in Key : Held(k)' \subseteq Held(k)
    BY <2>1 DEF Answered, Held
  <2>3. Reads!Fading
    BY <1>0, <2>1, <2>2, Fades
  <2> QED
    BY <2>1, <2>2, <2>3 DEF Reads!Next, Reads!Restart, Answered, Reads!Error, Error
<1>6. CASE UNCHANGED vars
  BY <1>6 DEF vars, reads, Reads!vars, Alive, Held
<1> QED
  BY <1>0, <1>2, <1>3, <1>4, <1>5, <1>6, ReadsRead DEF Next

\* CatalogCache implements CatalogReads, for any keys, jobs and readers and whatever fails:
\* an answer is a version still in MongoDB, in Redis or in the hand of a read beside it, a
\* version gone from there never comes back, a document that was there is found, and no
\* answer is made up out of an error.
THEOREM ReadsImplemented == Spec => ReadsSpec
<1>1. Init => Reads!Init
  BY ReadsInit
<1>2. CacheInv /\ [Next]_vars => [Reads!Next]_Reads!vars
  BY ReadsStep
<1> QED
  BY <1>1, <1>2, CacheInvariant, PTL DEF Spec, ReadsSpec, Reads!Spec
=============================================================================
