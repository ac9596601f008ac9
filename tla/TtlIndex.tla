------------------------------ MODULE TtlIndex ------------------------------
(***************************************************************************)
(* ensureTTLIndex of internal/store, for one collection: each process that *)
(* starts (the service, `cmd/api -once`, the next deployment) makes the    *)
(* index on the date field what its own configuration says, starting from  *)
(* whatever index is there, while other processes do the same.  A process  *)
(* whose attempt fails ends, and systemd starts it again.                  *)
(***************************************************************************)
EXTENDS Integers

CONSTANTS
  Process,
  Days,          \* the retentions a process may be configured with, in days
  DaySeconds,    \* 86400
  IntRange,      \* 2^32, the number of values of expireAfterSeconds
  MaxFaults      \* bound: failed commands, kills and new configurations

ASSUME ProcessAssumption == Process # {} /\ MaxFaults \in Nat
ASSUME DaysAssumption    == Days \subseteq Int /\ DaySeconds \in Nat \ {0}
ASSUME RangeAssumption   == IntRange \in Nat \ {0} /\ IntRange % 2 = 0

Plain   == -1                                   \* an index that expires nothing
NoIndex == [name |-> "none", seconds |-> Plain]
Ours    == "field_ttl"
Index   == {NoIndex} \cup [name : {Ours, "by hand"}, seconds : {Plain} \cup Nat]

\* int32(retentionDays) * 86400, in an int32.
Wrapped(n) == LET m == n % IntRange IN IF 2 * m < IntRange THEN m ELSE m - IntRange
expireAfterSeconds(days) == Wrapped(Wrapped(days) * DaySeconds)
Fits(days) == 2 * (days * DaySeconds) < IntRange

VARIABLES
  index,      \* the single-field index on the date field
  setting,    \* the retention each process is configured with
  tpc,        \* "down", "create", "collMod", "lookup", "drop", "recreate", "up"
  found,      \* the name findIndexNameByField returned
  faults

ttlVars == <<index, setting, tpc, found, faults>>

TtlTypeOK ==
  /\ index \in Index
  /\ setting \in [Process -> Days]
  /\ tpc \in [Process -> {"down", "create", "collMod", "lookup", "drop", "recreate", "up"}]
  /\ found \in [Process -> {"none", Ours, "by hand"}]
  /\ faults \in Nat

\* Whatever an earlier configuration, or somebody by hand, has left.
Leftovers == {NoIndex, [name |-> "by hand", seconds |-> Plain]}
               \cup {[name |-> n, seconds |-> DaySeconds] : n \in {Ours, "by hand"}}

TtlInit ==
  /\ index \in Leftovers
  /\ setting \in [Process -> Days]
  /\ tpc = [p \in Process |-> "down"] /\ found = [p \in Process |-> "none"]
  /\ faults = 0

Fault == faults < MaxFaults /\ faults' = faults + 1
Off(p) == setting[p] <= 0
Seconds(p) == expireAfterSeconds(setting[p])
Goto(p, step) == tpc' = [tpc EXCEPT ![p] = step]

Launch(p) ==
  /\ tpc[p] = "down"
  /\ Goto(p, IF Off(p) THEN "lookup" ELSE "create")
  /\ UNCHANGED <<index, setting, found, faults>>

\* MongoDB's createIndexes for the index p wants: it refuses seconds out of range,
\* creates the index, finds it there, or reports a conflict.
Wanted(p)    == [name |-> Ours, seconds |-> Seconds(p)]
Creatable(p) == Seconds(p) >= 0
Conflict(p)  == index \notin {NoIndex, Wanted(p)}

\* Only one of the two conflict codes is known: StartsUp.
AfterConflict_Bug(p) == IF index.seconds = Plain THEN "collMod" ELSE "down"
AfterConflict(p) == "collMod"

\* The first CreateOne, and the one after a drop, whose conflict ends the process.
CreateOne(p) ==
  /\ tpc[p] \in {"create", "recreate"}
  /\ IF Creatable(p) /\ ~Conflict(p)
     THEN index' = Wanted(p) /\ Goto(p, "up")
     ELSE /\ index' = index
          /\ Goto(p, IF Creatable(p) /\ tpc[p] = "create" THEN AfterConflict(p) ELSE "down")
  /\ UNCHANGED <<setting, found, faults>>

\* An error of collMod taken for success: IndexAsConfigured.
AfterCollMod_Bug(done) == "up"
AfterCollMod(done) == IF done THEN "up" ELSE "lookup"

InPlace(p) == [index EXCEPT !.seconds = Seconds(p)]

\* A TTL index is changed in place, a plain one converted or not by the server's version;
\* a command that fails, carried out or not, leads to the fallback too.
CollMod(p) ==
  /\ tpc[p] = "collMod"
  /\ \/ index # NoIndex /\ index' = InPlace(p) /\ Goto(p, AfterCollMod(TRUE)) /\ faults' = faults
     \/ index.seconds = Plain /\ index' = index /\ Goto(p, AfterCollMod(FALSE)) /\ faults' = faults
     \/ index # NoIndex /\ index' \in {index, InPlace(p)} /\ Goto(p, AfterCollMod(FALSE)) /\ Fault
  /\ UNCHANGED <<setting, found>>

AfterDrop(p) == IF Off(p) THEN "up" ELSE "recreate"

Lookup(p) ==
  /\ tpc[p] = "lookup"
  /\ found' = [found EXCEPT ![p] = index.name]
  /\ Goto(p, IF index = NoIndex THEN AfterDrop(p) ELSE "drop")
  /\ UNCHANGED <<index, setting, faults>>

\* An index that is no longer there, under this name, is no error.
DropOne(p) ==
  /\ tpc[p] = "drop"
  /\ index' = IF index.name = found[p] THEN NoIndex ELSE index
  /\ Goto(p, AfterDrop(p))
  /\ UNCHANGED <<setting, found, faults>>

\* A command fails, perhaps after it was carried out, or the process is killed.
Dies(p) ==
  /\ tpc[p] # "down"
  /\ Fault /\ Goto(p, "down")
  /\ \/ index' = index
     \/ tpc[p] \in {"create", "recreate"} /\ Creatable(p) /\ ~Conflict(p) /\ index' = Wanted(p)
     \/ tpc[p] = "drop" /\ index.name = found[p] /\ index' = NoIndex
     \/ tpc[p] = "collMod" /\ index # NoIndex /\ index' = InPlace(p)
  /\ UNCHANGED <<setting, found>>

Reconfigure(p) ==
  /\ tpc[p] = "down" /\ Fault
  /\ \E d \in Days : setting' = [setting EXCEPT ![p] = d]
  /\ UNCHANGED <<index, tpc, found>>

TtlStep(p) == Launch(p) \/ CreateOne(p) \/ CollMod(p) \/ Lookup(p) \/ DropOne(p)

TtlNext == \E p \in Process : TtlStep(p) \/ Dies(p) \/ Reconfigure(p)

TtlSpec == TtlInit /\ [][TtlNext]_ttlVars

(***************************************************************************)
(* Properties                                                              *)
(***************************************************************************)
AsConfigured(p) == IF Off(p) THEN index = NoIndex
                             ELSE index.seconds = setting[p] * DaySeconds

\* Whatever was left, and however their attempts interleave and fail: when every process
\* is up, the index is exactly what the configuration of one of them says, so what all
\* say when they agree, and there is none when all disable it.
IndexAsConfigured ==
  (\A p \in Process : tpc[p] = "up" /\ Fits(setting[p])) => \E p \in Process : AsConfigured(p)

\* No process is kept from starting by the index it finds or by what others do to it
\* meanwhile; only a retention beyond the int32 ends it at each start.
StartsUp == <>[](\A p \in Process : Fits(setting[p]) => tpc[p] = "up")
=============================================================================
