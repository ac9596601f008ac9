----------------------------- MODULE EventsSync -----------------------------
(***************************************************************************)
(* syncEventsStats: once a minute one goroutine fetches the event lists of *)
(* two UTC dates, merges them by match, replaces the timelines whose       *)
(* digest changed and publishes those, then replaces and publishes the     *)
(* technical stats of each match of today, changed or not.  A failed call  *)
(* ends the run, but for an eviction, which is logged.  A second process,  *)
(* `cmd/api -once events-stats`, does the same with nobody to publish to.  *)
(*                                                                         *)
(* A timeline and the stats of a match are lists of items with an id; the  *)
(* lists are sorted by minute and id before they are compared or stored,   *)
(* so a list is the function from ids to items.                            *)
(***************************************************************************)
EXTENDS Integers

CONSTANTS
  Match, Event,   \* match ids; ids of the items in a list
  Listings,       \* bound: which date lists may carry each match
  FirstDate, LastDate,  \* bound: the UTC dates of a behaviour
  Changing,       \* bound: the documents that change upstream
  Watched,        \* bound: the documents somebody reads
  MaxChanges,     \* bound: changes upstream
  MaxMishaps      \* bound: failed calls and stops of the process

ASSUME ListingAssumption == Listings \subseteq [Match -> SUBSET Int] /\ Listings # {}
ASSUME DateAssumption    == FirstDate \in Int /\ LastDate \in Int
ASSUME LimitAssumption   == MaxChanges \in Nat /\ MaxMishaps \in Nat
ASSUME PeopleAssumption  == Match # {} /\ Event # {}

NoItem   == [body |-> 0, opr |-> 0]
Item     == [body : Nat, opr : {0, 1}]    \* opr is OprTime, body every other field
List     == [Event -> Item]
NoList   == [e \in Event |-> NoItem]
Doc      == {"events", "stats"}           \* match_events and match_stats
AnyMatch == CHOOSE m \in Match : TRUE

ASSUME DocumentAssumption == Changing \subseteq Doc \X Match /\ Watched \subseteq Doc \X Match

VARIABLES
  feed,      \* upstream: the list of each document of each match
  listed,    \* upstream: the UTC dates whose lists of events and stats carry a match
  today,     \* the UTC date
  stored,    \* MongoDB
  cached,    \* Redis, events:<id> and stats:<id>: the copy, or none
  said,      \* the list last published on match:<id>
  epc,       \* the run: "idle", "yesterday", "today", "each", "replace", "evict", "publish"
  doc, base, \* the documents it is at; the date it took for today
  byMatch, rest, cur,   \* what it fetched, the matches left of it, the one it is at
  hand,      \* what a one-shot process has fetched for a document, or nothing
  unsure,    \* history: documents replaced by a run that did not publish them
  gone,      \* history: events not upstream at some instant since the run began
  upstreamChanges, mishaps

upstream  == <<feed, listed, today, upstreamChanges>>
served    == <<stored, cached, said, hand, unsure>>
eventsRun == <<epc, doc, base, byMatch, rest, cur>>
eventsVars == <<upstream, served, eventsRun, gone, mishaps>>

EventsTypeOK ==
  /\ feed \in [Doc -> [Match -> List]]
  /\ listed \in [Match -> SUBSET Int] /\ today \in Int
  /\ stored \in [Doc -> [Match -> List]] /\ said \in [Doc -> [Match -> List]]
  /\ cached \in [Doc -> [Match -> SUBSET List]]
  /\ epc \in {"idle", "yesterday", "today", "each", "replace", "evict", "publish"}
  /\ doc \in Doc /\ base \in Int
  /\ byMatch \in [Match -> List] /\ rest \subseteq Match /\ cur \in Match
  /\ hand \subseteq [doc : Doc, match : Match, list : List]
  /\ unsure \subseteq Doc \X Match /\ gone \subseteq Match \X Event
  /\ upstreamChanges \in Nat /\ mishaps \in Nat

EventsInit ==
  /\ feed = [d \in Doc |-> [m \in Match |-> NoList]]
  /\ listed \in Listings /\ today = FirstDate
  /\ stored = feed /\ said = feed
  /\ cached = [d \in Doc |-> [m \in Match |-> {}]]
  /\ epc = "idle" /\ doc = "events" /\ base = FirstDate
  /\ byMatch = [m \in Match |-> NoList] /\ rest = {} /\ cur = AnyMatch
  /\ hand = {} /\ unsure = {} /\ gone = {}
  /\ upstreamChanges = 0 /\ mishaps = 0

Mishap == mishaps < MaxMishaps /\ mishaps' = mishaps + 1

(***************************************************************************)
(* Upstream: items come, are amended, re-stamped or withdrawn; at midnight *)
(* the dates that a run asks for move on.                                  *)
(***************************************************************************)
DatesOf(d)   == IF d = "events" THEN {today - 1, today} ELSE {today}
InFeed(d, m) == DatesOf(d) \cap listed[m] # {}
Missing(f)   == {x \in Match \X Event : f["events"][x[1]][x[2]] = NoItem}

Amend(d, m, e) ==
  /\ upstreamChanges < MaxChanges /\ upstreamChanges' = upstreamChanges + 1
  /\ \E i \in {[feed[d][m][e] EXCEPT !.body = @ + 1], NoItem,
               [feed[d][m][e] EXCEPT !.opr = 1 - @]} \ {feed[d][m][e]} :
       /\ i.body = 0 => i = NoItem
       /\ feed' = [feed EXCEPT ![d][m][e] = i]
  /\ gone' = IF epc = "idle" THEN gone ELSE gone \cup Missing(feed')
  /\ UNCHANGED <<listed, today, served, eventsRun, mishaps>>

Midnight ==
  /\ today < LastDate /\ today' = today + 1
  /\ UNCHANGED <<feed, listed, upstreamChanges, served, eventsRun, gone, mishaps>>

(***************************************************************************)
(* One run                                                                 *)
(***************************************************************************)
BeginEvents ==
  /\ epc = "idle"
  /\ epc' = "yesterday" /\ doc' = "events" /\ base' = today
  /\ gone' = Missing(feed)
  /\ UNCHANGED <<upstream, served, byMatch, rest, cur, mishaps>>

\* The events of cmd=new, whose payload may be partial: EventsKept.
DayLists_Bug(m) == {[e \in Event |-> IF e \in S THEN feed["events"][m][e] ELSE NoItem] :
                      S \in SUBSET Event}
DayLists(m) == {feed["events"][m]}     \* complete, whichever date list carries it

\* mergeEvents: by event id, the later list wins.
mergeEvents(existing, incoming) ==
  [e \in Event |-> IF incoming[e] # NoItem THEN incoming[e] ELSE existing[e]]

FetchDayEvents ==
  /\ epc \in {"yesterday", "today"}
  /\ LET date   == IF epc = "yesterday" THEN base - 1 ELSE base
         onDate == {m \in Match : date \in listed[m]}
     IN /\ \E lists \in [onDate -> UNION {DayLists(m) : m \in onDate}] :
             /\ \A m \in onDate : lists[m] \in DayLists(m)
             /\ byMatch' = [m \in Match |-> IF m \in onDate
                                            THEN mergeEvents(byMatch[m], lists[m])
                                            ELSE byMatch[m]]
        /\ rest' = rest \cup onDate
  /\ epc' = IF epc = "yesterday" THEN "today" ELSE "each"
  /\ UNCHANGED <<upstream, served, doc, base, cur, gone, mishaps>>

\* The digest of ids: TimelineHeals; of every field, the time of the record too: NoEcho.
eventsDigest_IdsBug(l) == {e \in Event : l[e] # NoItem}
eventsDigest_OprBug(l) == l
eventsDigest(l) == [e \in Event |-> l[e].body]

\* The stats compared like the events: StatsHeal.
Unchanged_Bug(d, m, l) == eventsDigest(stored[d][m]) = eventsDigest(l)
Unchanged(d, m, l) == d = "events" /\ eventsDigest(stored[d][m]) = eventsDigest(l)

\* The next match of the map, in any order (the stats come as a list, in any order too).
NextMatch(m) ==
  /\ epc = "each" /\ m \in rest
  /\ rest' = rest \ {m}
  /\ IF Unchanged(doc, m, byMatch[m]) THEN epc' = "each" /\ cur' = cur ELSE epc' = "replace" /\ cur' = m
  /\ UNCHANGED <<upstream, served, doc, base, byMatch, gone, mishaps>>

ReplaceDoc == stored' = [stored EXCEPT ![doc][cur] = byMatch[cur]]

Replace ==
  /\ epc = "replace" /\ epc' = "evict"
  /\ ReplaceDoc
  /\ UNCHANGED <<upstream, cached, said, hand, unsure, doc, base, byMatch, rest, cur, gone, mishaps>>

\* A failed eviction goes on with the next match: Announced.
Evict_Bug ==
  /\ epc = "evict"
  /\ \/ epc' = "publish" /\ mishaps' = mishaps /\ cached' = [cached EXCEPT ![doc][cur] = {}]
     \/ epc' = "each" /\ Mishap /\ cached' = cached
  /\ UNCHANGED <<upstream, stored, said, hand, unsure, doc, base, byMatch, rest, cur, gone>>

\* Whether or not the eviction works, the list is published next.
Evict ==
  /\ epc = "evict" /\ epc' = "publish"
  /\ \/ cached' = [cached EXCEPT ![doc][cur] = {}] /\ mishaps' = mishaps
     \/ Mishap /\ cached' = cached
  /\ UNCHANGED <<upstream, stored, said, hand, unsure, doc, base, byMatch, rest, cur, gone>>

PublishList ==
  /\ epc = "publish" /\ epc' = "each"
  /\ said' = [said EXCEPT ![doc][cur] = byMatch[cur]]
  /\ unsure' = IF stored[doc][cur] = byMatch[cur] THEN unsure \ {<<doc, cur>>} ELSE unsure
  /\ cur' = AnyMatch
  /\ UNCHANGED <<upstream, stored, cached, hand, doc, base, byMatch, rest, gone, mishaps>>

\* With no date: the matches of upstream's today.
FetchLiveStats ==
  /\ epc = "each" /\ doc = "events" /\ rest = {}
  /\ doc' = "stats" /\ byMatch' = feed["stats"] /\ rest' = {m \in Match : InFeed("stats", m)}
  /\ UNCHANGED <<upstream, served, epc, base, cur, gone, mishaps>>

Forget ==
  /\ epc' = "idle" /\ doc' = "events" /\ base' = FirstDate /\ cur' = AnyMatch
  /\ byMatch' = [m \in Match |-> NoList] /\ rest' = {} /\ gone' = {}

EndEvents ==
  /\ epc = "each" /\ doc = "stats" /\ rest = {}
  /\ Forget
  /\ UNCHANGED <<upstream, served, mishaps>>

\* A fetch or a read fails, or a replace, which may have been carried out.
EventsCallFails ==
  /\ epc \in {"yesterday", "today", "replace"} \/ (epc = "each" /\ doc = "events")
  /\ Mishap /\ Forget
  /\ \/ stored' = stored /\ unsure' = unsure
     \/ epc = "replace" /\ ReplaceDoc /\ unsure' = unsure \cup {<<doc, cur>>}
  /\ UNCHANGED <<upstream, cached, said, hand>>

\* The process stops and starts again.
EventsCrash ==
  /\ epc # "idle"
  /\ Mishap /\ Forget
  /\ unsure' = unsure \cup (IF epc \in {"evict", "publish"} THEN {<<doc, cur>>} ELSE {})
  /\ UNCHANGED <<upstream, stored, cached, said, hand>>

(***************************************************************************)
(* The one-shot process, for one document: its Publisher is a no-op.       *)
(***************************************************************************)
OnceFetch(d, m) ==
  /\ hand = {} /\ InFeed(d, m)
  /\ Mishap
  /\ hand' = {[doc |-> d, match |-> m, list |-> feed[d][m]]}
  /\ UNCHANGED <<upstream, stored, cached, said, unsure, eventsRun, gone>>

OnceReplace(h) ==
  /\ hand' = {}
  /\ IF Unchanged(h.doc, h.match, h.list)
     THEN UNCHANGED <<stored, cached, unsure>>
     ELSE /\ stored' = [stored EXCEPT ![h.doc][h.match] = h.list]
          /\ cached' = [cached EXCEPT ![h.doc][h.match] = {}]
          /\ unsure' = unsure \cup {<<h.doc, h.match>>}
  /\ UNCHANGED <<upstream, said, eventsRun, gone, mishaps>>

EventsStep == \/ BeginEvents \/ FetchDayEvents \/ \E m \in Match : NextMatch(m)
              \/ Replace \/ Evict \/ PublishList \/ FetchLiveStats \/ EndEvents

(***************************************************************************)
(* The catalog's copy: a read fills it, its TTL empties it (the races of a *)
(* read with a write are CatalogCache's).                                  *)
(***************************************************************************)
ReadThrough(d, m) ==
  /\ cached[d][m] = {}
  /\ cached' = [cached EXCEPT ![d][m] = {stored[d][m]}]
  /\ UNCHANGED <<upstream, stored, said, hand, unsure, eventsRun, gone, mishaps>>

ExpireCopy(d, m) ==
  /\ cached[d][m] # {}
  /\ cached' = [cached EXCEPT ![d][m] = {}]
  /\ UNCHANGED <<upstream, stored, said, hand, unsure, eventsRun, gone, mishaps>>

EventsNext ==
  \/ EventsStep \/ EventsCallFails \/ EventsCrash
  \/ \E x \in Changing : OnceFetch(x[1], x[2]) \/ \E e \in Event : Amend(x[1], x[2], e)
  \/ \E h \in hand : OnceReplace(h)
  \/ \E x \in Watched : ReadThrough(x[1], x[2]) \/ ExpireCopy(x[1], x[2])
  \/ Midnight

EventsSpec == EventsInit /\ [][EventsNext]_eventsVars

(***************************************************************************)
(* Properties                                                              *)
(***************************************************************************)
\* What is stored has been published: the digest skip loses no announcement.  Excepted
\* are the document a run is at, and one replaced by a one-shot process or by a run that
\* died, or saw an error for a write that was carried out, before it could publish.
Announced ==
  \A d \in Doc, m \in Match :
    \/ said[d][m] = stored[d][m]
    \/ <<d, m>> \in unsure
    \/ epc \in {"evict", "publish"} /\ doc = d /\ cur = m

\* What a list says, the times of its records aside.
Content(l) == [e \in Event |-> l[e].body]

\* events.go: "publish on-change only".  No subscriber is sent a timeline that differs
\* from the one it was sent last in nothing but the time of a record (but after an unannounced one).
NoEcho ==
  [][\A m \in Match :
       said'["events"][m] # said["events"][m] /\ <<"events", m>> \notin unsure =>
         Content(said'["events"][m]) # Content(said["events"][m])]_eventsVars

\* syncEventsStats: replacing "silently dropped previously-stored events" with partial
\* payloads.  The loop takes an event out of the store only if it was withdrawn upstream.
EventsKept ==
  [][\A m \in Match, e \in Event :
       stored["events"][m][e] # NoItem /\ stored'["events"][m][e] = NoItem =>
         <<m, e>> \in gone \/ hand' # hand]_eventsVars

\* However a run ended, the timelines of the matches still in the feed end up in the
\* store as upstream has them, and no reader keeps an older one.
TimelineHeals ==
  <>[](\A m \in Match : InFeed("events", m) =>
         /\ Content(stored["events"][m]) = Content(feed["events"][m])
         /\ cached["events"][m] \subseteq {stored["events"][m]})

\* Stats are published whether or not they changed, which also repairs what a run that
\* died had stored and not announced, as long as the match is one of today.
StatsHeal ==
  <>[](\A m \in Match : InFeed("stats", m) =>
         /\ said["stats"][m] = feed["stats"][m]
         /\ cached["stats"][m] \subseteq {stored["stats"][m]})
=============================================================================
