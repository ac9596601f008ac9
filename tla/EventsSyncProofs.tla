-------------------------- MODULE EventsSyncProofs --------------------------
(***************************************************************************)
(* Whatever the matches, the lists, the failures and the stops: what the   *)
(* events loop stores it publishes, it publishes only news, and it takes   *)
(* no event out of the store that upstream has not withdrawn.              *)
(***************************************************************************)
EXTENDS EventsSync, TLAPS

\* A run about to publish has the list it stored, unless another process replaced it.
AtHand ==
  epc \in {"evict", "publish"} => stored[doc][cur] = byMatch[cur] \/ <<doc, cur>> \in unsure

\* A timeline on its way to the subscribers differs from the one they have.
IsNews ==
  epc \in {"replace", "evict", "publish"} /\ doc = "events" =>
    \/ Content(said["events"][cur]) # Content(byMatch[cur])
    \/ <<"events", cur>> \in unsure

\* What a run has fetched of a timeline lacks only what was missing upstream meanwhile.
Pending  == rest \cup (IF epc = "replace" THEN {cur} ELSE {})
Complete ==
  /\ epc # "idle" => Missing(feed) \subseteq gone
  /\ epc = "idle" => rest = {}
  /\ doc = "events" => \A m \in Pending, e \in Event :
                         byMatch[m][e] = NoItem => <<m, e>> \in gone

EventsInv == EventsTypeOK /\ Announced /\ AtHand /\ IsNews /\ Complete

LEMMA NoListType == NoItem \in Item /\ NoList \in List
BY DEF NoItem, Item, NoList, List

LEMMA AnyMatchType == AnyMatch \in Match
BY PeopleAssumption DEF AnyMatch

\* One entry of a table by document and match.
LEMMA EntryType ==
  ASSUME NEW S, NEW f \in [Doc -> [Match -> S]], NEW d \in Doc, NEW m \in Match, NEW v \in S
  PROVE  [f EXCEPT ![d][m] = v] \in [Doc -> [Match -> S]]
OBVIOUS

LEMMA EventsInitInv == EventsInit => EventsInv
<1> SUFFICES ASSUME EventsInit PROVE EventsInv
  OBVIOUS
<1>1. EventsTypeOK
  BY NoListType, AnyMatchType, ListingAssumption, DateAssumption
     DEF EventsInit, EventsTypeOK, Doc
<1>2. Announced /\ AtHand /\ IsNews /\ Complete
  BY DEF EventsInit, Announced, AtHand, IsNews, Complete, Pending
<1> QED
  BY <1>1, <1>2 DEF EventsInv

LEMMA AmendType ==
  ASSUME EventsTypeOK, NEW d \in Doc, NEW m \in Match, NEW e \in Event, Amend(d, m, e)
  PROVE  feed' \in [Doc -> [Match -> List]]
<1>1. PICK i \in {[feed[d][m][e] EXCEPT !.body = @ + 1], NoItem,
                  [feed[d][m][e] EXCEPT !.opr = 1 - @]} :
        feed' = [feed EXCEPT ![d][m][e] = i]
  BY DEF Amend
<1>2. feed[d][m][e] \in Item
  BY DEF EventsTypeOK, List
<1>3. i \in Item
  BY <1>2, NoListType DEF Item
<1>4. [feed[d][m] EXCEPT ![e] = i] \in List
  BY <1>3 DEF EventsTypeOK, List
<1> QED
  BY <1>1, <1>4 DEF EventsTypeOK

LEMMA FetchType ==
  ASSUME EventsTypeOK, FetchDayEvents
  PROVE  /\ byMatch' \in [Match -> List] /\ rest' \subseteq Match
         /\ rest \subseteq rest'
         /\ \A m \in Match : \/ byMatch'[m] = byMatch[m] /\ m \notin rest' \ rest
                             \/ byMatch'[m] = mergeEvents(byMatch[m], feed["events"][m])
<1> DEFINE date   == IF epc = "yesterday" THEN base - 1 ELSE base
           onDate == {m \in Match : date \in listed[m]}
<1>1. PICK lists \in [onDate -> UNION {DayLists(m) : m \in onDate}] :
        /\ \A m \in onDate : lists[m] \in DayLists(m)
        /\ byMatch' = [m \in Match |-> IF m \in onDate
                                       THEN mergeEvents(byMatch[m], lists[m])
                                       ELSE byMatch[m]]
        /\ rest' = rest \cup onDate
  BY DEF FetchDayEvents
<1>2. \A m \in onDate : lists[m] = feed["events"][m]
  BY <1>1 DEF DayLists
<1>3. ASSUME NEW m \in Match PROVE mergeEvents(byMatch[m], feed["events"][m]) \in List
  BY DEF EventsTypeOK, Doc, List, mergeEvents
<1> QED
  BY <1>1, <1>2, <1>3 DEF EventsTypeOK

LEMMA EventsTypeStep ==
  ASSUME EventsTypeOK, [EventsNext]_eventsVars
  PROVE  EventsTypeOK'
<1> USE DEF EventsTypeOK
<1>1. CASE BeginEvents
  BY <1>1 DEF BeginEvents, upstream, served, Missing, Doc
<1>2. CASE FetchDayEvents
  BY <1>2, FetchType DEF FetchDayEvents, upstream, served
<1>3. ASSUME NEW m \in Match, NextMatch(m) PROVE EventsTypeOK'
  BY <1>3 DEF NextMatch, upstream, served
<1>4. CASE Replace
  BY <1>4 DEF Replace, ReplaceDoc, upstream
<1>5. CASE Evict
  <2>1. [cached EXCEPT ![doc][cur] = {}] \in [Doc -> [Match -> SUBSET List]]
    BY EntryType
  <2>2. /\ cached' \in {cached, [cached EXCEPT ![doc][cur] = {}]}
        /\ mishaps' \in {mishaps, mishaps + 1}
    BY <1>5 DEF Evict, Mishap
  <2>3. cached' \in [Doc -> [Match -> SUBSET List]]
    BY <2>1, <2>2
  <2>4. mishaps' \in Nat
    BY <2>2
  <2> QED
    BY <1>5, <2>3, <2>4 DEF Evict, upstream
<1>6. CASE PublishList
  BY <1>6, AnyMatchType DEF PublishList, upstream
<1>7. CASE FetchLiveStats
  BY <1>7 DEF FetchLiveStats, upstream, served, Doc
<1>8. ASSUME Forget PROVE /\ epc' = "idle" /\ doc' \in Doc /\ base' \in Int /\ gone' = {}
                          /\ byMatch' \in [Match -> List] /\ rest' = {} /\ cur' \in Match
  BY <1>8, AnyMatchType, NoListType, DateAssumption DEF Forget, Doc
<1>9. CASE EndEvents
  BY <1>8, <1>9 DEF EndEvents, upstream, served
<1>10. CASE EventsCallFails
  <2>1. /\ stored' \in {stored, [stored EXCEPT ![doc][cur] = byMatch[cur]]}
        /\ unsure' \in {unsure, unsure \cup {<<doc, cur>>}}
    BY <1>10 DEF EventsCallFails, ReplaceDoc
  <2>2. [stored EXCEPT ![doc][cur] = byMatch[cur]] \in [Doc -> [Match -> List]]
    BY EntryType
  <2>3. stored' \in [Doc -> [Match -> List]]
    BY <2>1, <2>2
  <2>4. unsure' \subseteq Doc \X Match
    BY <2>1
  <2> QED
    BY <1>8, <1>10, <2>3, <2>4 DEF EventsCallFails, Mishap, upstream
<1>11. CASE EventsCrash
  BY <1>8, <1>11 DEF EventsCrash, Mishap, upstream
<1>12. ASSUME NEW d \in Doc, NEW m \in Match, OnceFetch(d, m) PROVE EventsTypeOK'
  BY <1>12 DEF OnceFetch, Mishap, upstream, eventsRun
<1>13. ASSUME NEW h \in hand, OnceReplace(h) PROVE EventsTypeOK'
  <2>1. h.doc \in Doc /\ h.match \in Match /\ h.list \in List
    OBVIOUS
  <2>2. /\ [stored EXCEPT ![h.doc][h.match] = h.list] \in [Doc -> [Match -> List]]
        /\ [cached EXCEPT ![h.doc][h.match] = {}] \in [Doc -> [Match -> SUBSET List]]
    BY <2>1, EntryType
  <2>3. /\ stored' \in {stored, [stored EXCEPT ![h.doc][h.match] = h.list]}
        /\ cached' \in {cached, [cached EXCEPT ![h.doc][h.match] = {}]}
        /\ unsure' \in {unsure, unsure \cup {<<h.doc, h.match>>}}
    BY <1>13 DEF OnceReplace
  <2>4. stored' \in [Doc -> [Match -> List]] /\ cached' \in [Doc -> [Match -> SUBSET List]]
    BY <2>2, <2>3
  <2>5. unsure' \subseteq Doc \X Match
    BY <2>1, <2>3
  <2> QED
    BY <1>13, <2>4, <2>5 DEF OnceReplace, upstream, eventsRun
<1>14. ASSUME NEW d \in Doc, NEW m \in Match, NEW e \in Event, Amend(d, m, e)
       PROVE  EventsTypeOK'
  <2>1. feed' \in [Doc -> [Match -> List]]
    BY <1>14, AmendType
  <2>2. gone' \subseteq Match \X Event
    BY <1>14 DEF Amend, Missing
  <2>3. upstreamChanges' \in Nat /\ UNCHANGED <<listed, today, served, eventsRun, mishaps>>
    BY <1>14 DEF Amend
  <2> QED
    BY <2>1, <2>2, <2>3 DEF served, eventsRun
<1>15. ASSUME NEW d \in Doc, NEW m \in Match, ReadThrough(d, m) \/ ExpireCopy(d, m)
       PROVE  EventsTypeOK'
  <2>1. /\ [cached EXCEPT ![d][m] = {}] \in [Doc -> [Match -> SUBSET List]]
        /\ [cached EXCEPT ![d][m] = {stored[d][m]}] \in [Doc -> [Match -> SUBSET List]]
    BY EntryType
  <2> QED
    BY <1>15, <2>1 DEF ReadThrough, ExpireCopy, upstream, eventsRun
<1>16. CASE Midnight
  BY <1>16, DateAssumption DEF Midnight, served, eventsRun
<1>17. CASE UNCHANGED eventsVars
  BY <1>17 DEF eventsVars, upstream, served, eventsRun
<1>18. \A x \in Changing \cup Watched : x[1] \in Doc /\ x[2] \in Match
  BY DocumentAssumption
<1> QED
  BY <1>1, <1>2, <1>3, <1>4, <1>5, <1>6, <1>7, <1>9, <1>10, <1>11, <1>12, <1>13, <1>14,
     <1>15, <1>16, <1>17, <1>18 DEF EventsNext, EventsStep

\* The actions that touch neither what the run does nor what it stores and publishes.
Aside ==
  \/ \E x \in Changing : OnceFetch(x[1], x[2])
  \/ \E x \in Watched : ReadThrough(x[1], x[2]) \/ ExpireCopy(x[1], x[2])
  \/ Midnight \/ UNCHANGED eventsVars

LEMMA AsideFrame ==
  ASSUME Aside
  PROVE  UNCHANGED <<feed, stored, said, unsure, epc, doc, cur, byMatch, rest, gone>>
BY DEF Aside, OnceFetch, ReadThrough, ExpireCopy, Midnight, eventsVars, upstream, served,
       eventsRun

LEMMA NextCases ==
  ASSUME [EventsNext]_eventsVars
  PROVE  \/ EventsStep \/ EventsCallFails \/ EventsCrash \/ Aside
         \/ \E h \in hand : OnceReplace(h)
         \/ \E x \in Changing, e \in Event : Amend(x[1], x[2], e)
BY DEF EventsNext, Aside

\* A run that ends, in whatever way, has nothing pending.
LEMMA ForgetComplete ==
  ASSUME Forget
  PROVE  Complete'
BY DEF Forget, Complete, Pending

\* Replacing one document leaves every other as it is.
LEMMA ReplaceEffect ==
  ASSUME EventsTypeOK, ReplaceDoc
  PROVE  /\ stored'[doc][cur] = byMatch[cur]
         /\ \A d \in Doc, m \in Match : d # doc \/ m # cur => stored'[d][m] = stored[d][m]
BY DEF EventsTypeOK, ReplaceDoc

LEMMA PublishEffect ==
  ASSUME EventsTypeOK, PublishList
  PROVE  /\ said'[doc][cur] = byMatch[cur]
         /\ \A d \in Doc, m \in Match : d # doc \/ m # cur => said'[d][m] = said[d][m]
         /\ \A d \in Doc, m \in Match : d # doc \/ m # cur =>
              (<<d, m>> \in unsure' <=> <<d, m>> \in unsure)
         /\ stored[doc][cur] # byMatch[cur] => unsure' = unsure
BY DEF EventsTypeOK, PublishList

LEMMA OnceEffect ==
  ASSUME EventsTypeOK, NEW h \in hand, OnceReplace(h)
  PROVE  /\ UNCHANGED <<feed, said, epc, doc, cur, byMatch, rest, gone>>
         /\ unsure \subseteq unsure'
         /\ \A d \in Doc, m \in Match :
              stored'[d][m] = stored[d][m] \/ <<d, m>> \in unsure'
<1>1. h.doc \in Doc /\ h.match \in Match
  BY DEF EventsTypeOK
<1>2. \/ stored' = stored /\ unsure' = unsure
      \/ /\ stored' = [stored EXCEPT ![h.doc][h.match] = h.list]
         /\ unsure' = unsure \cup {<<h.doc, h.match>>}
  BY DEF OnceReplace
<1>3. ASSUME NEW d \in Doc, NEW m \in Match
      PROVE  stored'[d][m] = stored[d][m] \/ <<d, m>> \in unsure'
  <2>1. CASE stored' = stored
    BY <2>1
  <2>2. CASE d = h.doc /\ m = h.match /\ unsure' = unsure \cup {<<h.doc, h.match>>}
    BY <2>2
  <2>3. CASE /\ d # h.doc \/ m # h.match
             /\ stored' = [stored EXCEPT ![h.doc][h.match] = h.list]
    BY <1>1, <2>3 DEF EventsTypeOK
  <2> QED
    BY <1>2, <2>1, <2>2, <2>3
<1> QED
  BY <1>2, <1>3 DEF OnceReplace, upstream, eventsRun

LEMMA AnnouncedStep ==
  ASSUME EventsInv, [EventsNext]_eventsVars
  PROVE  Announced'
<1> USE DEF EventsInv
<1>1. CASE BeginEvents \/ FetchDayEvents \/ FetchLiveStats \/ EndEvents
  BY <1>1 DEF Announced, BeginEvents, FetchDayEvents, FetchLiveStats, EndEvents, Forget, served
<1>2. ASSUME NEW m \in Match, NextMatch(m) PROVE Announced'
  BY <1>2 DEF Announced, NextMatch, served
<1>3. CASE Replace
  BY <1>3, ReplaceEffect DEF Announced, Replace
<1>4. CASE Evict
  BY <1>4 DEF Announced, Evict
<1>5. CASE PublishList
  <2> SUFFICES ASSUME NEW d \in Doc, NEW m \in Match
               PROVE  said'[d][m] = stored'[d][m] \/ <<d, m>> \in unsure'
    BY DEF Announced
  <2>1. stored' = stored /\ epc = "publish"
    BY <1>5 DEF PublishList
  <2>2. CASE d = doc /\ m = cur
    BY <1>5, <2>1, <2>2, PublishEffect DEF AtHand
  <2>3. CASE d # doc \/ m # cur
    BY <1>5, <2>1, <2>3, PublishEffect DEF Announced
  <2> QED
    BY <2>2, <2>3
<1>6. CASE EventsCallFails
  <2>1. said' = said /\ epc \notin {"evict", "publish"}
    BY <1>6 DEF EventsCallFails
  <2>2. \/ stored' = stored /\ unsure' = unsure
        \/ ReplaceDoc /\ unsure' = unsure \cup {<<doc, cur>>}
    BY <1>6 DEF EventsCallFails
  <2> QED
    BY <2>1, <2>2, ReplaceEffect DEF Announced
<1>7. CASE EventsCrash
  BY <1>7 DEF Announced, EventsCrash
<1>8. ASSUME NEW h \in hand, OnceReplace(h) PROVE Announced'
  BY <1>8, OnceEffect DEF Announced
<1>9. ASSUME NEW d \in Doc, NEW m \in Match, NEW e \in Event, Amend(d, m, e) PROVE Announced'
  BY <1>9 DEF Announced, Amend, served, eventsRun
<1>10. CASE Aside
  BY <1>10, AsideFrame DEF Announced
<1> QED
  BY <1>1, <1>2, <1>3, <1>4, <1>5, <1>6, <1>7, <1>8, <1>9, <1>10, NextCases,
     DocumentAssumption DEF EventsStep

LEMMA AtHandStep ==
  ASSUME EventsInv, [EventsNext]_eventsVars
  PROVE  AtHand'
<1> USE DEF EventsInv
<1>1. CASE BeginEvents \/ FetchDayEvents \/ FetchLiveStats \/ EndEvents \/ PublishList
           \/ EventsCallFails \/ EventsCrash
  BY <1>1 DEF AtHand, BeginEvents, FetchDayEvents, FetchLiveStats, EndEvents, PublishList,
              EventsCallFails, EventsCrash, Forget
<1>2. ASSUME NEW m \in Match, NextMatch(m) PROVE AtHand'
  BY <1>2 DEF AtHand, NextMatch
<1>3. CASE Replace
  BY <1>3, ReplaceEffect DEF AtHand, Replace
<1>4. CASE Evict
  BY <1>4 DEF AtHand, Evict
<1>5. ASSUME NEW h \in hand, OnceReplace(h) PROVE AtHand'
  BY <1>5, OnceEffect DEF AtHand, EventsTypeOK
<1>6. ASSUME NEW d \in Doc, NEW m \in Match, NEW e \in Event, Amend(d, m, e) PROVE AtHand'
  BY <1>6 DEF AtHand, Amend, served, eventsRun
<1>7. CASE Aside
  BY <1>7, AsideFrame DEF AtHand
<1> QED
  BY <1>1, <1>2, <1>3, <1>4, <1>5, <1>6, <1>7, NextCases, DocumentAssumption DEF EventsStep

LEMMA IsNewsStep ==
  ASSUME EventsInv, [EventsNext]_eventsVars
  PROVE  IsNews'
<1> USE DEF EventsInv
<1>1. CASE BeginEvents \/ FetchDayEvents \/ FetchLiveStats \/ EndEvents \/ PublishList
           \/ EventsCallFails \/ EventsCrash
  BY <1>1 DEF IsNews, BeginEvents, FetchDayEvents, FetchLiveStats, EndEvents, PublishList,
              EventsCallFails, EventsCrash, Forget
<1>2. ASSUME NEW m \in Match, NextMatch(m) PROVE IsNews'
  <2> SUFFICES ASSUME epc' = "replace", doc' = "events"
               PROVE  \/ Content(said["events"][m]) # Content(byMatch[m])
                      \/ <<"events", m>> \in unsure
    BY <1>2 DEF IsNews, NextMatch, served
  <2>1. epc = "each" /\ doc = "events" /\ ~Unchanged("events", m, byMatch[m])
    BY <1>2 DEF NextMatch
  <2>2. Content(stored["events"][m]) # Content(byMatch[m])
    BY <2>1 DEF Unchanged, eventsDigest, Content
  <2>3. said["events"][m] = stored["events"][m] \/ <<"events", m>> \in unsure
    BY <2>1 DEF Announced, Doc
  <2> QED
    BY <2>2, <2>3
<1>3. CASE Replace
  BY <1>3 DEF IsNews, Replace
<1>4. CASE Evict
  BY <1>4 DEF IsNews, Evict
<1>5. ASSUME NEW h \in hand, OnceReplace(h) PROVE IsNews'
  BY <1>5, OnceEffect DEF IsNews
<1>6. ASSUME NEW d \in Doc, NEW m \in Match, NEW e \in Event, Amend(d, m, e) PROVE IsNews'
  BY <1>6 DEF IsNews, Amend, served, eventsRun
<1>7. CASE Aside
  BY <1>7, AsideFrame DEF IsNews
<1> QED
  BY <1>1, <1>2, <1>3, <1>4, <1>5, <1>6, <1>7, NextCases, DocumentAssumption DEF EventsStep

LEMMA CompleteStep ==
  ASSUME EventsInv, [EventsNext]_eventsVars
  PROVE  Complete'
<1> USE DEF EventsInv
<1>1. CASE BeginEvents
  BY <1>1 DEF Complete, Pending, BeginEvents, upstream, Missing
<1>2. CASE FetchDayEvents
  <2>1. /\ epc \in {"yesterday", "today"} /\ epc' \in {"today", "each"}
        /\ UNCHANGED <<feed, doc, gone>>
    BY <1>2 DEF FetchDayEvents, upstream
  <2>2. Missing(feed') \subseteq gone'
    BY <2>1 DEF Complete, Missing
  <2>3. ASSUME doc = "events", NEW m \in rest', NEW e \in Event, byMatch'[m][e] = NoItem
        PROVE  <<m, e>> \in gone
    <3>1. m \in Match
      BY <1>2, FetchType
    <3>2. CASE byMatch'[m] = byMatch[m] /\ m \notin rest' \ rest
      BY <2>1, <2>3, <3>2 DEF Complete, Pending
    <3>3. CASE byMatch'[m] = mergeEvents(byMatch[m], feed["events"][m])
      <4>1. feed["events"][m][e] = NoItem
        BY <2>3, <3>3 DEF mergeEvents
      <4> QED
        BY <2>1, <3>1, <4>1 DEF Complete, Missing
    <3> QED
      BY <1>2, <3>1, <3>2, <3>3, FetchType
  <2> QED
    BY <2>1, <2>2, <2>3 DEF Complete, Pending
<1>3. ASSUME NEW m \in Match, NextMatch(m) PROVE Complete'
  <2>1. /\ UNCHANGED <<feed, byMatch, doc, gone>> /\ epc = "each" /\ epc' # "idle"
        /\ Pending' \subseteq Pending
    BY <1>3 DEF NextMatch, upstream, Pending
  <2> QED
    BY <2>1 DEF Complete, Missing
<1>4. CASE Replace \/ Evict \/ PublishList
  <2>1. /\ UNCHANGED <<feed, byMatch, doc, gone>> /\ epc # "idle" /\ epc' # "idle"
        /\ Pending' \subseteq Pending
    BY <1>4 DEF Replace, Evict, PublishList, upstream, Pending
  <2> QED
    BY <2>1 DEF Complete, Missing
<1>5. CASE FetchLiveStats
  BY <1>5 DEF Complete, FetchLiveStats, upstream, Missing
<1>6. CASE EndEvents \/ EventsCallFails \/ EventsCrash
  BY <1>6, ForgetComplete DEF EndEvents, EventsCallFails, EventsCrash
<1>7. ASSUME NEW h \in hand, OnceReplace(h) PROVE Complete'
  BY <1>7, OnceEffect DEF Complete, Pending, Missing
<1>8. ASSUME NEW d \in Doc, NEW m \in Match, NEW e \in Event, Amend(d, m, e) PROVE Complete'
  <2>1. /\ UNCHANGED <<epc, doc, byMatch, rest, cur>>
        /\ gone' = IF epc = "idle" THEN gone ELSE gone \cup Missing(feed')
    BY <1>8 DEF Amend, eventsRun
  <2> QED
    BY <2>1 DEF Complete, Pending, Missing
<1>9. CASE Aside
  BY <1>9, AsideFrame DEF Complete, Pending, Missing
<1> QED
  BY <1>1, <1>2, <1>3, <1>4, <1>5, <1>6, <1>7, <1>8, <1>9, NextCases, DocumentAssumption
     DEF EventsStep

LEMMA EventsInvariant == EventsSpec => []EventsInv
<1>1. EventsInv /\ [EventsNext]_eventsVars => EventsInv'
  BY EventsTypeStep, AnnouncedStep, AtHandStep, IsNewsStep, CompleteStep DEF EventsInv
<1> QED
  BY <1>1, EventsInitInv, PTL DEF EventsSpec

\* The variables of the events loop keep their types, however many matches and dates.
THEOREM EventsTypeCorrect == EventsSpec => []EventsTypeOK
<1>1. EventsInv => EventsTypeOK
  BY DEF EventsInv
<1> QED
  BY <1>1, EventsInvariant, PTL

\* The digest skip of the events loop loses no announcement: what MongoDB has of a match
\* has been published, unless the process that stored it never came to publish it.
THEOREM AnnouncedHolds == EventsSpec => []Announced
<1>1. EventsInv => Announced
  BY DEF EventsInv
<1> QED
  BY <1>1, EventsInvariant, PTL

\* A timeline published after an announced one says something else than it did.
THEOREM NoEchoHolds == EventsSpec => NoEcho
<1> DEFINE News == \A m \in Match :
                     said'["events"][m] # said["events"][m] /\ <<"events", m>> \notin unsure =>
                       Content(said'["events"][m]) # Content(said["events"][m])
<1>1. ASSUME EventsInv, [EventsNext]_eventsVars PROVE News
  <2> SUFFICES ASSUME NEW m \in Match, said'["events"][m] # said["events"][m],
                      <<"events", m>> \notin unsure
               PROVE  Content(said'["events"][m]) # Content(said["events"][m])
    OBVIOUS
  <2>1. ~PublishList => said' = said
    <3>1. ASSUME EventsStep, ~PublishList PROVE said' = said
      BY <3>1 DEF EventsStep, BeginEvents, FetchDayEvents, NextMatch, Replace, Evict,
                  FetchLiveStats, EndEvents, served
    <3>2. ASSUME NEW d, NEW n, NEW e, Amend(d, n, e) PROVE said' = said
      BY <3>2 DEF Amend, served
    <3> QED
      BY <1>1, <3>1, <3>2, NextCases, AsideFrame
         DEF EventsCallFails, EventsCrash, OnceReplace
  <2>2. PublishList
    BY <2>1
  <2>3. doc = "events" /\ cur = m
    BY <1>1, <2>2, PublishEffect DEF EventsInv, Doc
  <2>4. epc = "publish"
    BY <2>2 DEF PublishList
  <2> QED
    BY <1>1, <2>2, <2>3, <2>4, PublishEffect DEF EventsInv, IsNews
<1>2. EventsInv /\ [EventsNext]_eventsVars => [News]_eventsVars
  BY <1>1
<1>3. EventsSpec => [][News]_eventsVars
  <2> HIDE DEF News
  <2> QED
    BY <1>2, EventsInvariant, PTL DEF EventsSpec
<1> QED
  BY <1>3 DEF NoEcho

\* Replacing a timeline as a whole takes out only what upstream withdrew: no event is lost
\* to a partial fetch, to a failure or to a stop.
THEOREM EventsKeptHolds == EventsSpec => EventsKept
<1> DEFINE Kept == \A m \in Match, e \in Event :
                     stored["events"][m][e] # NoItem /\ stored'["events"][m][e] = NoItem =>
                       <<m, e>> \in gone \/ hand' # hand
<1>1. ASSUME EventsInv, [EventsNext]_eventsVars PROVE Kept
  <2> SUFFICES ASSUME NEW m \in Match, NEW e \in Event, stored["events"][m][e] # NoItem,
                      stored'["events"][m][e] = NoItem
               PROVE  <<m, e>> \in gone \/ hand' # hand
    OBVIOUS
  <2>1. CASE epc = "replace" /\ ReplaceDoc
    <3>1. doc = "events" /\ cur = m
      BY <1>1, <2>1, ReplaceEffect DEF EventsInv, Doc
    <3>2. byMatch[m][e] = NoItem
      BY <1>1, <2>1, <3>1, ReplaceEffect DEF EventsInv
    <3> QED
      BY <1>1, <2>1, <3>1, <3>2 DEF EventsInv, Complete, Pending
  <2>2. CASE \E h \in hand : OnceReplace(h)
    BY <2>2 DEF OnceReplace
  <2>3. ASSUME EventsStep PROVE stored' = stored \/ (epc = "replace" /\ ReplaceDoc)
    BY <2>3 DEF EventsStep, BeginEvents, FetchDayEvents, NextMatch, Replace, Evict,
                PublishList, FetchLiveStats, EndEvents, served
  <2>4. ASSUME NEW d, NEW n, NEW i, Amend(d, n, i) PROVE stored' = stored
    BY <2>4 DEF Amend, served
  <2>5. CASE stored' = stored
    BY <2>5
  <2> QED
    BY <1>1, <2>1, <2>2, <2>3, <2>4, <2>5, NextCases, AsideFrame
       DEF EventsCallFails, EventsCrash
<1>2. EventsInv /\ [EventsNext]_eventsVars => [Kept]_eventsVars
  BY <1>1
<1>3. EventsSpec => [][Kept]_eventsVars
  <2> HIDE DEF Kept
  <2> QED
    BY <1>2, EventsInvariant, PTL DEF EventsSpec
<1> QED
  BY <1>3 DEF EventsKept
=============================================================================
