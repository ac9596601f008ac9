---------------------------- MODULE CatalogReads ----------------------------
(***************************************************************************)
(* What the callers of catalog.go rely on, whatever is behind it: which    *)
(* versions a read may be answered with.  There is no cache here, no job   *)
(* and no step of a read but its beginning and its answer.                 *)
(*                                                                         *)
(* `alive` is what is left of the versions behind a key.  A new one enters *)
(* as MongoDB takes it; an old one may linger, and once it is gone it is   *)
(* gone for good: no read is ever answered with it again.                  *)
(***************************************************************************)
EXTENDS Integers

CONSTANTS
  Key, Reader,
  Single        \* the keys of single documents; the others are those of lists

VARIABLES
  db,       \* the latest version behind each key, 0 while nothing has been synced
  alive,    \* the versions behind each key that a read may still be answered with
  asked,    \* the key each read asks for
  answer,   \* its answer: a version, NotFound or Error, Pending before
  there     \* the document it asks for was there when it began

vars == <<db, alive, asked, answer, there>>

NotFound == -2
Error    == -3
Pending  == -4

Init ==
  /\ db = [k \in Key |-> 0] /\ alive = [k \in Key |-> {0}]
  /\ asked \in [Reader -> Key] /\ answer = [r \in Reader |-> 0]
  /\ there = [r \in Reader |-> FALSE]

\* The latest version is never gone, and no other one appears.
Fading ==
  /\ DOMAIN alive' = Key
  /\ \A k \in Key : db'[k] \in alive'[k] /\ alive'[k] \subseteq alive[k] \cup {db'[k]}

Ask(r, k) ==
  /\ answer[r] # Pending
  /\ answer' = [answer EXCEPT ![r] = Pending]
  /\ asked' = [asked EXCEPT ![r] = k]
  /\ there' = [there EXCEPT ![r] = k \in Single /\ db[k] > 0]
  /\ UNCHANGED <<db, alive>>

\* A version that is alive, but no empty document; "not found" of a document only, and
\* only if it was missing when the read began; an error at any moment.
Allowed(r, v) ==
  \/ v \in alive[asked[r]] /\ (asked[r] \in Single => v # 0)
  \/ v = NotFound /\ asked[r] \in Single /\ ~there[r]
  \/ v = Error

Reply(r) ==
  /\ answer[r] = Pending
  /\ \E v \in alive[asked[r]] \cup {NotFound, Error} :
       Allowed(r, v) /\ answer' = [answer EXCEPT ![r] = v]
  /\ Fading /\ UNCHANGED <<db, asked, there>>

Change(k) ==
  /\ db' = [db EXCEPT ![k] = @ + 1]
  /\ Fading /\ UNCHANGED <<asked, answer, there>>

Forget == Fading /\ UNCHANGED <<db, asked, answer, there>>

\* The process ends: its reads get no answer.
Restart ==
  /\ answer' = [r \in Reader |-> Error]
  /\ Fading /\ UNCHANGED <<db, asked, there>>

Next ==
  \/ \E r \in Reader : Reply(r) \/ \E k \in Key : Ask(r, k)
  \/ \E k \in Key : Change(k)
  \/ Forget \/ Restart

Spec == Init /\ [][Next]_vars
=============================================================================
