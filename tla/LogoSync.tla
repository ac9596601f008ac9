------------------------------ MODULE LogoSync ------------------------------
(***************************************************************************)
(* The logos of internal/service: the dictionary sync keeps the source URL *)
(* of each league and team, SyncLogos mirrors what is pending into object  *)
(* storage (R2) through a pool of workers and stamps the mirrored URL on   *)
(* the documents, and the match syncs copy a team's URL onto its matches.  *)
(*                                                                         *)
(* SyncLogos runs in two processes: "daily" is the dictionary loop of      *)
(* cmd/api, "tool" is cmd/logo-sync, which somebody starts at any time.    *)
(* They share MongoDB and the bucket and know nothing of each other.  One  *)
(* match stands for all of them: in the window of the match syncs at first *)
(* and, sooner or later or never, out of it.                               *)
(***************************************************************************)
EXTENDS Integers, FiniteSets

CONSTANTS
  League, Team,   \* the documents, by id
  MatchTeam,      \* the team whose logo the match shows
  Source,         \* source URLs that name an image
  logoWorkers,    \* 8 in the code
  MaxChanges,     \* bound: changes upstream or of the public base URL, deltas, and the
                  \* match leaving the window
  MaxTroubles     \* bound: failed calls, cancellations and kills

ASSUME DocAssumption    == League \cap Team = {} /\ MatchTeam \in Team
ASSUME WorkerAssumption == logoWorkers \in Nat \ {0}
ASSUME TroubleAssumption == MaxChanges \in Nat /\ MaxTroubles \in Nat

Doc  == League \cup Team
Kind == [leagues |-> League, teams |-> Team]
Run  == {"daily", "tool"}

NoSource == "none"      \* an empty source URL
Junk     == "junk"      \* one that names no file
AnySource == Source \cup {NoSource, Junk}
ASSUME SourceAssumption == Source # {} /\ NoSource \notin Source /\ Junk \notin Source

NoURL    == [base |-> 0, src |-> NoSource]
NoAnswer == [base |-> 0, src |-> Junk]      \* MirrorAll's map has no entry
MirrorURLs == [base : Nat, src : Source]    \* ... of the object of the document's own

VARIABLES
  upstream,     \* the source URL thscore has for each document
  base,         \* the public base URL, by number
  source,       \* logo_source_url in MongoDB
  logo,         \* logo_url in MongoDB
  objects,      \* the bucket: the sources mirrored, by document
  pc,           \* where each run is: "idle", "dictionary", "list", "mirror", "stamp"
  kind,         \* the collection it is at
  pending,      \* what it found pending there: the source by document, or NoSource
  rest,         \* MirrorAll: pending documents no worker has taken
  busy,         \* documents a worker downloads and uploads the logo of
  out,          \* the results by document
  cancelled,    \* ctx is done
  shown,        \* the logo on the match
  hand,         \* what each writer of the match is about to write there
  window,       \* the schedule loops, or the live one, still come by the match
  changes, troubles

inputs == <<upstream, base, changes>>
store  == <<source, logo, objects>>
pool   == <<rest, busy, out>>
runs   == <<pc, kind, pending, pool, cancelled>>
match  == <<shown, hand, window>>
vars   == <<inputs, store, runs, match, troubles>>

Writer  == {"sync", "delta"}     \* schedule and live-snapshot loops; live-changes
Nothing == [base |-> 0, src |-> "nothing"]

TypeOK ==
  /\ upstream \in [Doc -> AnySource] /\ base \in Nat
  /\ source \in [Doc -> AnySource]
  /\ logo \in [Doc -> MirrorURLs \cup {NoURL}]
  /\ objects \subseteq Doc \X Source
  /\ pc \in [Run -> {"idle", "dictionary", "list", "mirror", "stamp"}]
  /\ kind \in [Run -> {"leagues", "teams"}]
  /\ pending \in [Run -> [Doc -> AnySource]]
  /\ rest \in [Run -> SUBSET Doc]
  /\ busy \in [Run -> SUBSET Doc]
  /\ out \in [Run -> [Doc -> MirrorURLs \cup {NoURL, NoAnswer}]]
  /\ cancelled \in [Run -> BOOLEAN]
  /\ shown \in MirrorURLs \cup {NoURL}
  /\ hand \in [Writer -> MirrorURLs \cup {NoURL, Nothing}]
  /\ window \in BOOLEAN
  /\ changes \in Nat /\ troubles \in Nat

ForAllDocs(x) == [d \in Doc |-> x]
ForAllRuns(x) == [r \in Run |-> x]

\* URLs of different documents are never compared: any one does to begin with.
Init ==
  /\ upstream = ForAllDocs(CHOOSE s \in Source : TRUE) /\ base = 1
  /\ source = ForAllDocs(NoSource) /\ logo = ForAllDocs(NoURL) /\ objects = {}
  /\ pc = ForAllRuns("idle") /\ kind = ForAllRuns("leagues")
  /\ pending = ForAllRuns(ForAllDocs(NoSource))
  /\ rest = ForAllRuns({}) /\ busy = ForAllRuns({})
  /\ out = ForAllRuns(ForAllDocs(NoAnswer))
  /\ cancelled = ForAllRuns(FALSE)
  /\ shown = NoURL /\ hand = [w \in Writer |-> Nothing] /\ window = TRUE
  /\ changes = 0 /\ troubles = 0

Works   == troubles' = troubles
Trouble == troubles < MaxTroubles /\ troubles' = troubles + 1
Change  == changes < MaxChanges /\ changes' = changes + 1

usableLogoSource(s) == s \notin {NoSource, Junk}
\* Only MirrorURL knows a junk source: LogosHeal.
ExpectedURL_Bug(s) == IF s # NoSource THEN [base |-> base, src |-> s] ELSE NoURL
ExpectedURL(s) == IF usableLogoSource(s) THEN [base |-> base, src |-> s] ELSE NoURL

(***************************************************************************)
(* What changes around the runs                                            *)
(***************************************************************************)
NewSource(d, s) ==
  /\ Change
  /\ upstream' = [upstream EXCEPT ![d] = s]
  /\ UNCHANGED <<base, store, runs, match, troubles>>

\* R2_PUBLIC_BASE_URL is changed while neither process runs; the bucket stays.
NewBase ==
  /\ \A r \in Run : pc[r] = "idle"
  /\ Change
  /\ base' = base + 1
  /\ UNCHANGED <<upstream, store, runs, match, troubles>>

(***************************************************************************)
(* A run: the daily one syncs the dictionary first, then for leagues and   *)
(* for teams: list what is pending, mirror it, stamp what was mirrored     *)
(***************************************************************************)
\* What the run holds is dropped with the goroutine's stack.
Drop(r) ==
  /\ pending' = [pending EXCEPT ![r] = ForAllDocs(NoSource)]
  /\ rest' = [rest EXCEPT ![r] = {}]
  /\ busy' = [busy EXCEPT ![r] = {}]
  /\ out' = [out EXCEPT ![r] = ForAllDocs(NoAnswer)]

Start(r) ==
  /\ pc[r] = "idle"
  /\ pc' = [pc EXCEPT ![r] = IF r = "daily" THEN "dictionary" ELSE "list"]
  /\ kind' = [kind EXCEPT ![r] = "leagues"]
  /\ cancelled' = [cancelled EXCEPT ![r] = FALSE]
  /\ UNCHANGED <<inputs, store, pending, pool, match, troubles>>

\* The run is done with a collection.
Onward(r) ==
  /\ Drop(r)
  /\ IF kind[r] = "leagues"
     THEN /\ kind' = [kind EXCEPT ![r] = "teams"]
          /\ pc' = [pc EXCEPT ![r] = IF @ = "dictionary" THEN @ ELSE "list"]
     ELSE /\ kind' = [kind EXCEPT ![r] = "leagues"]
          /\ pc' = [pc EXCEPT ![r] = IF @ = "dictionary" THEN "list" ELSE "idle"]

GiveUp(r) ==
  /\ Drop(r)
  /\ pc' = [pc EXCEPT ![r] = "idle"] /\ kind' = [kind EXCEPT ![r] = "leagues"]

\* A call fails, for a reason of its own or because ctx is done.  What it was to write may
\* have been written.
CallFails(r) == Trouble \/ (Works /\ cancelled[r])

\* upsertSet: an empty source URL is left out of the $set, logo_url always is.
Synced(k) == [d \in Doc |-> IF d \in Kind[k] /\ upstream[d] # NoSource
                            THEN upstream[d] ELSE source[d]]

Dictionary(r) ==
  /\ pc[r] = "dictionary"
  /\ \/ Works /\ ~cancelled[r] /\ Onward(r) /\ source' = Synced(kind[r])
     \/ CallFails(r) /\ GiveUp(r) /\ source' \in {source, Synced(kind[r])}
  /\ UNCHANGED <<inputs, logo, objects, cancelled, match>>

\* Only documents that have no logo yet: LogosHeal.
IsPending_Bug(d) == source[d] # NoSource /\ logo[d] = NoURL
IsPending(d) == source[d] # NoSource /\ logo[d] # ExpectedURL(source[d])

List(r) ==
  LET found == {d \in Kind[kind[r]] : IsPending(d)} IN
  /\ pc[r] = "list"
  /\ \/ /\ Works /\ ~cancelled[r] /\ found # {}
        /\ pc' = [pc EXCEPT ![r] = "mirror"]
        /\ pending' = [pending EXCEPT ![r] = [d \in Doc |-> IF d \in found THEN source[d]
                                                                           ELSE NoSource]]
        /\ rest' = [rest EXCEPT ![r] = found]
        /\ UNCHANGED <<kind, busy, out>>
     \/ Works /\ ~cancelled[r] /\ found = {} /\ Onward(r)
     \/ CallFails(r) /\ GiveUp(r)
  /\ UNCHANGED <<inputs, store, cancelled, match>>

(***************************************************************************)
(* MirrorAll: the feeder hands documents to idle workers, in any order     *)
(***************************************************************************)
\* A worker that takes a document asks at once whether its object is there: what happens
\* in between could as well have happened before.
Answer(r, d, u) == out' = [out EXCEPT ![r][d] = u]

MirroredURL(r, d) == [base |-> base, src |-> pending[r][d]]

\* What a worker makes of an error: the URL all the same, NoBrokenLogo.
OnError_Bug(r, d) == MirroredURL(r, d)
OnError(r, d) == NoURL

\* MirrorURL up to the question whether the object is there.
Feed(r, d) ==
  /\ pc[r] = "mirror" /\ d \in rest[r]
  /\ Cardinality(busy[r]) < logoWorkers
  /\ rest' = [rest EXCEPT ![r] = @ \ {d}]
  /\ \/ /\ ~usableLogoSource(pending[r][d]) /\ Works
        /\ Answer(r, d, NoURL) /\ busy' = busy
     \/ /\ usableLogoSource(pending[r][d]) /\ Works /\ ~cancelled[r]
        /\ IF <<d, pending[r][d]>> \in objects
           THEN Answer(r, d, MirroredURL(r, d)) /\ busy' = busy
           ELSE busy' = [busy EXCEPT ![r] = @ \cup {d}] /\ out' = out
     \/ /\ usableLogoSource(pending[r][d]) /\ CallFails(r)
        /\ Answer(r, d, OnError(r, d)) /\ busy' = busy
  /\ UNCHANGED <<inputs, store, pc, kind, pending, cancelled, match>>

\* `case <-ctx.Done(): break feed`
StopFeeding(r) ==
  /\ pc[r] = "mirror" /\ cancelled[r] /\ rest[r] # {}
  /\ rest' = [rest EXCEPT ![r] = {}]
  /\ UNCHANGED <<inputs, store, pc, kind, pending, busy, out, cancelled, match, troubles>>

\* ... and its download and upload; an upload that fails may have been carried out.
Upload(r, d) ==
  LET uploaded == objects \cup {<<d, pending[r][d]>>} IN
  /\ d \in busy[r]
  /\ busy' = [busy EXCEPT ![r] = @ \ {d}]
  /\ \/ Works /\ Answer(r, d, MirroredURL(r, d)) /\ objects' = uploaded
     \/ CallFails(r) /\ Answer(r, d, OnError(r, d)) /\ objects' \in {objects, uploaded}
  /\ UNCHANGED <<inputs, source, logo, pc, kind, pending, rest, cancelled, match>>

\* Without wg.Wait: Answered.  jobs closed on the cancelled path only: RunEnds.
Drained_NoWaitBug(r)  == rest[r] = {}
Drained_NoCloseBug(r) == rest[r] = {} /\ busy[r] = {} /\ cancelled[r]
Drained(r) == rest[r] = {} /\ busy[r] = {}     \* close(jobs), wg.Wait

MirrorAllReturns(r) ==
  /\ pc[r] = "mirror" /\ Drained(r)
  /\ pc' = [pc EXCEPT ![r] = "stamp"]
  /\ UNCHANGED <<inputs, store, kind, pending, pool, cancelled, match, troubles>>

(***************************************************************************)
(* mirrorAndStamp saves the results that are not empty                     *)
(***************************************************************************)
\* The empty results are saved as well: LogoKept.
Mirrored_Bug(r) == {d \in Doc : out[r][d] # NoAnswer}
Mirrored(r) == {d \in Doc : out[r][d] \notin {NoAnswer, NoURL}}

Stamped(r, S) == [d \in Doc |-> IF d \in S THEN out[r][d] ELSE logo[d]]

Stamp(r) ==
  /\ pc[r] = "stamp"
  /\ \/ Works /\ ~cancelled[r] /\ Onward(r) /\ logo' = Stamped(r, Mirrored(r))
     \/ CallFails(r) /\ GiveUp(r) /\ \E S \in SUBSET Mirrored(r) : logo' = Stamped(r, S)
  /\ UNCHANGED <<inputs, source, objects, cancelled, match>>

Step(r) == \/ Dictionary(r) \/ List(r) \/ StopFeeding(r) \/ MirrorAllReturns(r) \/ Stamp(r)
           \/ \E d \in Doc : Feed(r, d) \/ Upload(r, d)

\* SIGTERM: the calls of the run fail from now on, until the process is gone.
Cancel(r) ==
  /\ pc[r] # "idle" /\ ~cancelled[r] /\ Trouble
  /\ cancelled' = [cancelled EXCEPT ![r] = TRUE]
  /\ UNCHANGED <<inputs, store, pc, kind, pending, pool, match>>

Kill(r) ==
  /\ pc[r] # "idle" /\ Trouble
  /\ GiveUp(r)
  /\ UNCHANGED <<inputs, store, cancelled, match>>

(***************************************************************************)
(* The match: schedule and live-snapshot write it from a row without a     *)
(* logo and stampTeamLogos' look-up, live-changes from its previous state. *)
(***************************************************************************)
\* The logo the match has is kept: MatchLogoHeals.
LookUp_Bug == shown
LookUp == logo[MatchTeam]                         \* TeamLogoURLsForIDs

\* The match's date falls behind yesterday, or upstream lists it no more.
LeaveWindow ==
  /\ window /\ Change
  /\ window' = FALSE
  /\ UNCHANGED <<upstream, base, store, runs, shown, hand, troubles>>

\* Outside the window it takes a modification upstream to have the match fetched and stamped.
stampTeamLogos ==
  /\ hand["sync"] = Nothing
  /\ \/ Works /\ hand' = [hand EXCEPT !["sync"] = LookUp]
     \/ Trouble /\ hand' = [hand EXCEPT !["sync"] = NoURL]    \* logged, and written without
  /\ UNCHANGED <<inputs, store, runs, shown, window>>

ReadPrevious ==
  /\ hand["delta"] = Nothing
  /\ Change
  /\ hand' = [hand EXCEPT !["delta"] = shown]
  /\ UNCHANGED <<upstream, base, store, runs, shown, window, troubles>>

WriteMatch(w) ==
  /\ hand[w] # Nothing
  /\ \/ Works /\ shown' = hand[w]
     \/ Trouble /\ shown' = shown
  /\ hand' = [hand EXCEPT ![w] = Nothing]
  /\ UNCHANGED <<inputs, store, runs, window>>

Next ==
  \/ \E r \in Run : Start(r) \/ Step(r) \/ Cancel(r) \/ Kill(r)
  \/ \E d \in Doc, s \in AnySource : s # upstream[d] /\ NewSource(d, s)
  \/ NewBase
  \/ LeaveWindow \/ stampTeamLogos \/ ReadPrevious \/ \E w \in Writer : WriteMatch(w)

Spec == Init /\ [][Next]_vars

\* The daily ticker comes round, so do the match loops for a match in their window, and
\* every call returns: the download after 15 seconds at the latest, R2 and MongoDB with an
\* answer or an error.  Nobody need ever start the tool, and no loop need ever stamp a match
\* that has left the window.
Fairness ==
  /\ WF_vars(Start("daily"))
  /\ \A r \in Run : WF_vars(Step(r))
  /\ WF_vars(window /\ stampTeamLogos)
  /\ \A w \in Writer : WF_vars(WriteMatch(w))

FairSpec == Spec /\ Fairness

(***************************************************************************)
(* Properties                                                              *)
(***************************************************************************)
\* No document and no match shows a logo that is not in the bucket, whatever calls of
\* whichever process failed, were cancelled or repeated on the way.
InBucket(d, u) == u = NoURL \/ <<d, u.src>> \in objects
NoBrokenLogo == /\ \A d \in Doc : InBucket(d, logo[d])
                /\ InBucket(MatchTeam, shown)

\* A logo once mirrored is replaced by another and never lost: not by a failed mirroring
\* of a new source, nor by a junk one, nor by the dictionary sync.
LogoKept == [][\A d \in Doc : logo[d] # NoURL => logo'[d] # NoURL]_vars

\* MirrorAll leaves nobody out: unless it was cancelled, it returns a result for each
\* pending document and for no other, and a URL is that of the document's own source.
Answered ==
  \A r \in Run : pc[r] = "stamp" /\ ~cancelled[r] =>
    \A d \in Doc :
      /\ pending[r][d] # NoSource <=> out[r][d] # NoAnswer
      /\ out[r][d] \in {NoAnswer, NoURL, MirroredURL(r, d)}

\* logos.go: "self-heals earlier failures, changed sources, and public-base-URL
\* migrations": in the end each document shows the logo of its source, whichever process
\* stamped what in between, and nothing is pending for good, but for a document whose
\* source turned into a junk one after it had got a logo.
LogosHeal == \A d \in Doc :
  <>[](/\ usableLogoSource(upstream[d]) => logo[d] = ExpectedURL(upstream[d])
       /\ IsPending(d) => source[d] = Junk /\ logo[d] # NoURL)

\* Each match in the window gets the logo of its team in the end, though live-changes may
\* write an older one back over the one just stamped.  One that leaves the window keeps the
\* logo it has: a new base URL or a new logo never gets to it.
MatchLogoHeals == <>[](window => shown = logo[MatchTeam])

\* A run ends, a cancelled one too: the feeder, its workers and wg.Wait never wait for
\* each other.
RunEnds == \A r \in Run : pc[r] # "idle" ~> pc[r] = "idle"
=============================================================================
