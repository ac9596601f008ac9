--------------------------- MODULE LogoSyncProofs ---------------------------
(***************************************************************************)
(* Whatever the number of documents and workers, and however often calls   *)
(* fail: no document shows a logo that is not in the bucket, none loses    *)
(* one, and MirrorAll answers for every pending document.                  *)
(***************************************************************************)
EXTENDS LogoSync, TLAPS

\* Every URL on its way to a document or to the match names an object in the bucket too:
\* what a run has mirrored, and what a writer of the match has in hand.
OutInBucket  == \A r \in Run, d \in Doc : out[r][d] = NoAnswer \/ InBucket(d, out[r][d])
HandInBucket == \A w \in Writer : hand[w] = Nothing \/ InBucket(MatchTeam, hand[w])
BucketInv == NoBrokenLogo /\ OutInBucket /\ HandInBucket

\* A pending document is waiting, with a worker, or answered; nothing is left of a run
\* that is not in MirrorAll or just out of it.
InPool(r, d) == d \in rest[r] \/ d \in busy[r] \/ out[r][d] # NoAnswer
PoolOf(r, d) ==
  /\ d \in busy[r] => usableLogoSource(pending[r][d]) /\ d \notin rest[r]
  /\ out[r][d] \in {NoAnswer, NoURL, MirroredURL(r, d)}
  /\ pc[r] = "stamp" => d \notin rest[r] /\ d \notin busy[r]
  /\ pc[r] \notin {"mirror", "stamp"} => ~InPool(r, d) /\ pending[r][d] = NoSource
  /\ InPool(r, d) => pending[r][d] # NoSource
  /\ ~cancelled[r] /\ pending[r][d] # NoSource => InPool(r, d)
PoolInv == \A r \in Run, d \in Doc : PoolOf(r, d)

LogoInv == TypeOK /\ BucketInv /\ PoolInv

LEMMA MirroredType ==
  ASSUME TypeOK, NEW r \in Run, NEW d \in Doc, usableLogoSource(pending[r][d])
  PROVE  /\ pending[r][d] \in Source
         /\ MirroredURL(r, d) \in MirrorURLs
         /\ MirroredURL(r, d) \notin {NoURL, NoAnswer}
<1>1. pending[r][d] \in Source
  BY DEF TypeOK, AnySource, usableLogoSource
<1>2. MirroredURL(r, d) \in MirrorURLs
  BY <1>1 DEF TypeOK, MirroredURL, MirrorURLs
<1>3. MirroredURL(r, d) \notin {NoURL, NoAnswer}
  BY <1>1, SourceAssumption DEF MirroredURL, NoURL, NoAnswer
<1> QED
  BY <1>1, <1>2, <1>3

LEMMA InitInv == Init => LogoInv
<1> SUFFICES ASSUME Init PROVE LogoInv
  OBVIOUS
<1>1. (CHOOSE s \in Source : TRUE) \in AnySource
  BY SourceAssumption DEF AnySource
<1>2. TypeOK
  BY <1>1 DEF Init, TypeOK, ForAllDocs, ForAllRuns, AnySource, Run, Writer
<1>3. BucketInv
  BY DEF Init, BucketInv, NoBrokenLogo, OutInBucket, HandInBucket, InBucket, ForAllDocs,
         ForAllRuns
<1>4. NoURL # NoAnswer
  BY DEF NoURL, NoAnswer, NoSource, Junk
<1>5. PoolInv
  BY <1>4 DEF Init, PoolInv, PoolOf, InPool, ForAllDocs, ForAllRuns
<1> QED
  BY <1>2, <1>3, <1>5 DEF LogoInv

\* What ends a collection, or the run, leaves nothing in the pool.
LEMMA DropKeeps ==
  ASSUME LogoInv, NEW r \in Run, Onward(r) \/ GiveUp(r),
         UNCHANGED <<base, cancelled, objects>>
  PROVE  /\ PoolInv' /\ OutInBucket'
         /\ pc' \in [Run -> {"idle", "dictionary", "list", "mirror", "stamp"}]
         /\ kind' \in [Run -> {"leagues", "teams"}]
         /\ pending' \in [Run -> [Doc -> AnySource]]
         /\ rest' \in [Run -> SUBSET Doc]
         /\ busy' \in [Run -> SUBSET Doc]
         /\ out' \in [Run -> [Doc -> MirrorURLs \cup {NoURL, NoAnswer}]]
<1> USE DEF LogoInv
<1>1. Drop(r)
  BY DEF Onward, GiveUp
<1>2. /\ pending' \in [Run -> [Doc -> AnySource]]
      /\ rest' \in [Run -> SUBSET Doc]
      /\ busy' \in [Run -> SUBSET Doc]
      /\ out' \in [Run -> [Doc -> MirrorURLs \cup {NoURL, NoAnswer}]]
  BY <1>1 DEF Drop, TypeOK, ForAllDocs, AnySource
<1>3. kind' \in [Run -> {"leagues", "teams"}]
  <2>1. PICK k \in {"leagues", "teams"} : kind' = [kind EXCEPT ![r] = k]
    BY DEF Onward, GiveUp
  <2> QED
    BY <2>1 DEF TypeOK
<1>7. PICK p \in {"idle", "dictionary", "list"} : pc' = [pc EXCEPT ![r] = p]
  BY DEF Onward, GiveUp
<1>4. /\ pc' \in [Run -> {"idle", "dictionary", "list", "mirror", "stamp"}]
      /\ pc'[r] \in {"idle", "dictionary", "list"}
      /\ \A q \in Run : q # r => pc'[q] = pc[q]
  BY <1>7 DEF TypeOK
<1>5. OutInBucket'
  BY <1>1 DEF Drop, BucketInv, OutInBucket, InBucket, ForAllDocs, TypeOK
<1>6. ASSUME NEW q \in Run, NEW d \in Doc PROVE PoolOf(q, d)'
  <2>1. CASE q = r
    <3>1. /\ rest'[q] = {} /\ busy'[q] = {}
          /\ out'[q][d] = NoAnswer /\ pending'[q][d] = NoSource
      BY <1>1, <2>1 DEF Drop, ForAllDocs, TypeOK
    <3> QED
      BY <1>4, <2>1, <3>1 DEF PoolOf, InPool
  <2>2. CASE q # r
    <3>1. /\ rest'[q] = rest[q] /\ busy'[q] = busy[q]
          /\ out'[q] = out[q] /\ pending'[q] = pending[q]
      BY <1>1, <2>2 DEF Drop, TypeOK
    <3>2. PoolOf(q, d)
      BY DEF PoolInv
    <3> QED
      BY <1>4, <2>2, <3>1, <3>2 DEF PoolOf, InPool, MirroredURL
  <2> QED
    BY <2>1, <2>2
<1> QED
  BY <1>2, <1>3, <1>4, <1>5, <1>6 DEF PoolInv

\* A step of the match's writers touches nothing else.
LEMMA MatchKeeps ==
  ASSUME LogoInv, UNCHANGED <<upstream, base, store, runs>>,
         changes' \in Nat, troubles' \in Nat, window' \in BOOLEAN,
         shown' \in MirrorURLs \cup {NoURL}, InBucket(MatchTeam, shown'),
         hand' \in [Writer -> MirrorURLs \cup {NoURL, Nothing}],
         \A w \in Writer : hand'[w] = Nothing \/ InBucket(MatchTeam, hand'[w])
  PROVE  LogoInv'
<1> USE DEF LogoInv
<1>1. TypeOK'
  BY DEF TypeOK, store, runs, pool
<1>2. BucketInv'
  BY DEF store, runs, pool, BucketInv, NoBrokenLogo, OutInBucket, HandInBucket, InBucket
<1>3. PoolInv'
  BY DEF PoolInv, PoolOf, InPool, MirroredURL, store, runs, pool
<1> QED
  BY <1>1, <1>2, <1>3

\* A worker of run r is through with d, or takes it on: what that leaves to prove.
LEMMA WorkerKeeps ==
  ASSUME LogoInv, NEW r \in Run, NEW d \in Doc, NEW u \in MirrorURLs \cup {NoURL},
         u \in {NoURL, MirroredURL(r, d)}, d \in rest[r] \cup busy[r], InBucket(d, u)',
         out' = [out EXCEPT ![r][d] = u],
         rest' = [rest EXCEPT ![r] = @ \ {d}], busy' = [busy EXCEPT ![r] = @ \ {d}],
         objects \subseteq objects', objects' \subseteq Doc \X Source,
         UNCHANGED <<inputs, source, logo, pc, kind, pending, cancelled, match>>,
         troubles' \in Nat
  PROVE  LogoInv'
<1> USE DEF LogoInv
<1>1. TypeOK'
  BY DEF TypeOK, inputs, match
<1>2. NoBrokenLogo' /\ HandInBucket'
  BY DEF match, BucketInv, NoBrokenLogo, HandInBucket, InBucket
<1>3. ASSUME NEW q \in Run, NEW x \in Doc
      PROVE  PoolOf(q, x)' /\ (out[q][x] = NoAnswer \/ InBucket(x, out[q][x]))'
  <2>1. PoolOf(q, x) /\ (out[q][x] = NoAnswer \/ InBucket(x, out[q][x]))
    BY DEF PoolInv, BucketInv, OutInBucket
  <2>2. MirroredURL(q, x)' = MirroredURL(q, x)
    BY DEF MirroredURL, inputs
  <2>3. CASE q = r /\ x = d
    <3>1. out'[q][x] = u /\ x \notin rest'[q] /\ x \notin busy'[q]
      BY <2>3 DEF TypeOK
    <3>2. u # NoAnswer
      BY SourceAssumption DEF NoURL, NoAnswer, MirrorURLs, NoSource, Junk
    <3>3. x \in rest[q] \cup busy[q]
      BY <2>3
    <3>4. pc[q] = "mirror" /\ pending[q][x] # NoSource
      BY <2>1, <3>3 DEF PoolOf, InPool, TypeOK
    <3>5. PoolOf(q, x)'
      BY <2>2, <2>3, <3>1, <3>2, <3>4 DEF PoolOf, InPool
    <3> QED
      BY <2>3, <3>1, <3>5
  <2>4. CASE ~(q = r /\ x = d)
    <3>1. /\ out'[q][x] = out[q][x]
          /\ x \in rest'[q] <=> x \in rest[q]
          /\ x \in busy'[q] <=> x \in busy[q]
      BY <2>4 DEF TypeOK
    <3>2. PoolOf(q, x)'
      BY <2>1, <2>2, <3>1 DEF PoolOf, InPool
    <3> QED
      BY <2>1, <3>1, <3>2 DEF InBucket
  <2> QED
    BY <2>3, <2>4
<1> QED
  BY <1>1, <1>2, <1>3 DEF PoolInv, BucketInv, OutInBucket

\* One step per action; what a run does to the pool is its own.
LEMMA NextInv == LogoInv /\ [Next]_vars => LogoInv'
<1> SUFFICES ASSUME LogoInv, [Next]_vars PROVE LogoInv'
  OBVIOUS
<1> USE DEF LogoInv
<1>1. CASE UNCHANGED <<base, store, runs, match>> /\ upstream' \in [Doc -> AnySource]
           /\ changes' \in Nat /\ troubles' \in Nat
  <2>1. TypeOK' /\ BucketInv'
    BY <1>1 DEF TypeOK, store, runs, pool, match, BucketInv, NoBrokenLogo, OutInBucket,
                HandInBucket, InBucket
  <2>2. PoolInv'
    BY <1>1 DEF PoolInv, PoolOf, InPool, MirroredURL, store, runs, pool
  <2> QED
    BY <2>1, <2>2
<1>2. CASE UNCHANGED vars
  BY <1>1, <1>2 DEF vars, inputs, TypeOK
<1>3. ASSUME NEW d \in Doc, NEW s \in AnySource, NewSource(d, s) PROVE LogoInv'
  BY <1>1, <1>3 DEF NewSource, Change, TypeOK
<1>4. CASE NewBase
  <2>1. TypeOK' /\ BucketInv'
    BY <1>4 DEF NewBase, Change, TypeOK, store, runs, pool, match, BucketInv, NoBrokenLogo,
                OutInBucket, HandInBucket, InBucket
  <2>2. ASSUME NEW q \in Run, NEW d \in Doc PROVE PoolOf(q, d)'
    BY <1>4 DEF NewBase, store, runs, pool, PoolInv, PoolOf, InPool
  <2> QED
    BY <2>1, <2>2 DEF PoolInv
<1>5. ASSUME NEW r \in Run, Start(r) PROVE LogoInv'
  <2>1. TypeOK' /\ BucketInv'
    BY <1>5 DEF Start, TypeOK, inputs, store, pool, match, BucketInv, NoBrokenLogo,
                OutInBucket, HandInBucket, InBucket
  <2>2. ASSUME NEW q \in Run, NEW d \in Doc PROVE PoolOf(q, d)'
    BY <1>5 DEF Start, inputs, store, pool, PoolInv, PoolOf, InPool, MirroredURL, TypeOK
  <2> QED
    BY <2>1, <2>2 DEF PoolInv
<1>6. ASSUME NEW r \in Run, Dictionary(r) PROVE LogoInv'
  <2>1. Onward(r) \/ GiveUp(r)
    BY <1>6 DEF Dictionary
  <2>2. UNCHANGED <<inputs, logo, objects, cancelled, match>>
    BY <1>6 DEF Dictionary
  <2>3. troubles' \in Nat
    BY <1>6 DEF Dictionary, CallFails, Trouble, Works, TypeOK
  <2>6. source' \in {source, Synced(kind[r])}
    BY <1>6 DEF Dictionary
  <2>7. Synced(kind[r]) \in [Doc -> AnySource]
    BY DEF Synced, TypeOK
  <2>8. source' \in [Doc -> AnySource]
    BY <2>6, <2>7 DEF TypeOK
  <2>4. TypeOK' /\ PoolInv' /\ OutInBucket'
    BY <2>1, <2>2, <2>3, <2>8, DropKeeps DEF TypeOK, inputs, match
  <2>5. NoBrokenLogo' /\ HandInBucket'
    BY <2>2 DEF match, BucketInv, NoBrokenLogo, HandInBucket, InBucket
  <2> QED
    BY <2>4, <2>5 DEF BucketInv
<1>7. ASSUME NEW r \in Run, List(r) PROVE LogoInv'
  <2> DEFINE found == {d \in Kind[kind[r]] : IsPending(d)}
  <2>1. UNCHANGED <<inputs, store, cancelled, match>> /\ troubles' \in Nat /\ pc[r] = "list"
    BY <1>7 DEF List, CallFails, Trouble, Works, TypeOK
  <2>2. NoBrokenLogo' /\ HandInBucket'
    BY <2>1 DEF store, match, BucketInv, NoBrokenLogo, HandInBucket, InBucket
  <2>3. CASE Onward(r) \/ GiveUp(r)
    <3>1. TypeOK' /\ PoolInv' /\ OutInBucket'
      BY <2>1, <2>3, DropKeeps DEF TypeOK, inputs, store, match
    <3> QED
      BY <2>2, <3>1 DEF BucketInv
  <2>4. CASE /\ pc' = [pc EXCEPT ![r] = "mirror"]
             /\ pending' = [pending EXCEPT ![r] = [d \in Doc |-> IF d \in found THEN source[d]
                                                                                ELSE NoSource]]
             /\ rest' = [rest EXCEPT ![r] = found]
             /\ UNCHANGED <<kind, busy, out>>
    <3>1. found \subseteq Doc /\ \A d \in found : source[d] # NoSource
      BY DEF IsPending, Kind, Doc, TypeOK
    <3>2. TypeOK'
      BY <2>1, <2>4, <3>1 DEF TypeOK, inputs, store, match, AnySource
    <3>3. OutInBucket'
      BY <2>1, <2>4 DEF store, BucketInv, OutInBucket, InBucket
    <3>4. ASSUME NEW q \in Run, NEW d \in Doc PROVE PoolOf(q, d)'
      <4>1. PoolOf(q, d)
        BY DEF PoolInv
      <4>2. CASE q = r
        <5>1. /\ out'[q][d] = NoAnswer /\ d \notin busy'[q] /\ pc'[q] = "mirror"
              /\ rest'[q] = found /\ pending'[q][d] = IF d \in found THEN source[d] ELSE NoSource
          BY <2>1, <2>4, <4>1, <4>2 DEF PoolOf, InPool, TypeOK
        <5> QED
          BY <3>1, <5>1 DEF PoolOf, InPool
      <4>3. CASE q # r
        BY <2>1, <2>4, <4>1, <4>3 DEF PoolOf, InPool, MirroredURL, inputs, TypeOK
      <4> QED
        BY <4>2, <4>3
    <3> QED
      BY <2>2, <3>2, <3>3, <3>4 DEF BucketInv, PoolInv
  <2> QED
    BY <1>7, <2>3, <2>4 DEF List
<1>8. ASSUME NEW r \in Run, NEW d \in Doc, Feed(r, d) PROVE LogoInv'
  <2>1. /\ pc[r] = "mirror" /\ d \in rest[r]
        /\ rest' = [rest EXCEPT ![r] = @ \ {d}]
        /\ UNCHANGED <<inputs, store, pc, kind, pending, cancelled, match>>
        /\ troubles' \in Nat
    BY <1>8 DEF Feed, CallFails, Works, Trouble, TypeOK
  <2>2. d \notin busy[r]
    BY <2>1 DEF PoolInv, PoolOf
  <2>3. ASSUME NEW u \in {NoURL, MirroredURL(r, d)}, u \in MirrorURLs \cup {NoURL},
               InBucket(d, u), Answer(r, d, u), busy' = busy
        PROVE  LogoInv'
    <3>1. busy' = [busy EXCEPT ![r] = @ \ {d}]
      BY <2>2, <2>3 DEF TypeOK
    <3>2. InBucket(d, u)'
      BY <2>1, <2>3 DEF InBucket, store
    <3> QED
      BY <2>1, <2>3, <3>1, <3>2, WorkerKeeps DEF Answer, store, TypeOK
  <2>4. CASE Answer(r, d, NoURL) /\ busy' = busy
    BY <2>3, <2>4 DEF InBucket
  <2>5. CASE /\ usableLogoSource(pending[r][d]) /\ <<d, pending[r][d]>> \in objects
             /\ Answer(r, d, MirroredURL(r, d)) /\ busy' = busy
    <3>1. InBucket(d, MirroredURL(r, d))
      BY <2>5 DEF InBucket, MirroredURL
    <3> QED
      BY <2>3, <2>5, <3>1, MirroredType
  <2>6. CASE /\ usableLogoSource(pending[r][d])
             /\ busy' = [busy EXCEPT ![r] = @ \cup {d}] /\ out' = out
    <3>1. TypeOK' /\ BucketInv'
      BY <2>1, <2>6 DEF TypeOK, inputs, store, match, BucketInv, NoBrokenLogo, OutInBucket,
                        HandInBucket, InBucket
    <3>2. ASSUME NEW q \in Run, NEW x \in Doc PROVE PoolOf(q, x)'
      <4>1. PoolOf(q, x)
        BY DEF PoolInv
      <4>2. MirroredURL(q, x)' = MirroredURL(q, x)
        BY <2>1 DEF MirroredURL, inputs
      <4>3. CASE q = r /\ x = d
        <5>1. x \in busy'[q] /\ x \notin rest'[q]
          BY <2>1, <2>6, <4>3 DEF TypeOK
        <5> QED
          BY <2>1, <2>6, <4>1, <4>2, <4>3, <5>1, SourceAssumption
             DEF PoolOf, InPool, usableLogoSource
      <4>4. CASE ~(q = r /\ x = d)
        <5>1. /\ x \in rest'[q] <=> x \in rest[q]
              /\ x \in busy'[q] <=> x \in busy[q]
          BY <2>1, <2>6, <4>4 DEF TypeOK
        <5> QED
          BY <2>1, <2>6, <4>1, <4>2, <5>1 DEF PoolOf, InPool
      <4> QED
        BY <4>3, <4>4
    <3> QED
      BY <3>1, <3>2 DEF PoolInv
  <2> QED
    BY <1>8, <2>4, <2>5, <2>6 DEF Feed, OnError
<1>17. ASSUME NEW r \in Run, NEW d \in Doc, Upload(r, d) PROVE LogoInv'
  <2> DEFINE uploaded == objects \cup {<<d, pending[r][d]>>}
  <2>1. /\ d \in busy[r] /\ busy' = [busy EXCEPT ![r] = @ \ {d}]
        /\ UNCHANGED <<inputs, source, logo, pc, kind, pending, rest, cancelled, match>>
        /\ troubles' \in Nat /\ objects' \in {objects, uploaded}
    BY <1>17 DEF Upload, CallFails, Works, Trouble, TypeOK
  <2>2. d \notin rest[r] /\ usableLogoSource(pending[r][d])
    BY <2>1 DEF PoolInv, PoolOf
  <2>3. objects \subseteq objects' /\ objects' \subseteq Doc \X Source
    BY <2>1, <2>2, MirroredType DEF TypeOK
  <2>4. rest' = [rest EXCEPT ![r] = @ \ {d}]
    BY <2>1, <2>2 DEF TypeOK
  <2>5. CASE Answer(r, d, MirroredURL(r, d)) /\ objects' = uploaded
    <3>1. InBucket(d, MirroredURL(r, d))'
      BY <2>1, <2>5 DEF InBucket, MirroredURL
    <3>2. MirroredURL(r, d)' = MirroredURL(r, d)
      BY <2>1 DEF MirroredURL, inputs
    <3> QED
      BY <2>1, <2>2, <2>3, <2>4, <2>5, <3>1, <3>2, MirroredType, WorkerKeeps DEF Answer, InBucket
  <2>6. CASE Answer(r, d, NoURL)
    BY <2>1, <2>3, <2>4, <2>6, WorkerKeeps DEF Answer, InBucket
  <2> QED
    BY <1>17, <2>5, <2>6 DEF Upload, OnError
<1>9. ASSUME NEW r \in Run, StopFeeding(r) PROVE LogoInv'
  <2>1. TypeOK' /\ BucketInv'
    BY <1>9 DEF StopFeeding, TypeOK, inputs, store, match, BucketInv, NoBrokenLogo,
                OutInBucket, HandInBucket, InBucket
  <2>2. ASSUME NEW q \in Run, NEW d \in Doc PROVE PoolOf(q, d)'
    BY <1>9 DEF StopFeeding, inputs, PoolInv, PoolOf, InPool, MirroredURL, TypeOK
  <2> QED
    BY <2>1, <2>2 DEF PoolInv
<1>10. ASSUME NEW r \in Run, MirrorAllReturns(r) PROVE LogoInv'
  <2>1. TypeOK' /\ BucketInv'
    BY <1>10 DEF MirrorAllReturns, TypeOK, inputs, store, pool, match, BucketInv,
                 NoBrokenLogo, OutInBucket, HandInBucket, InBucket
  <2>2. ASSUME NEW q \in Run, NEW d \in Doc PROVE PoolOf(q, d)'
    BY <1>10 DEF MirrorAllReturns, Drained, inputs, pool, PoolInv, PoolOf, InPool, MirroredURL,
                 TypeOK
  <2> QED
    BY <2>1, <2>2 DEF PoolInv
<1>11. ASSUME NEW r \in Run, Stamp(r) PROVE LogoInv'
  <2>1. UNCHANGED <<inputs, source, objects, cancelled, match>> /\ troubles' \in Nat
    BY <1>11 DEF Stamp, CallFails, Trouble, Works, TypeOK
  <2>2. Onward(r) \/ GiveUp(r)
    BY <1>11 DEF Stamp
  <2>3. PICK S \in SUBSET Mirrored(r) : logo' = Stamped(r, S)
    BY <1>11 DEF Stamp
  <2>4. logo' \in [Doc -> MirrorURLs \cup {NoURL}]
    BY <2>3 DEF Stamped, Mirrored, TypeOK
  <2>5. TypeOK' /\ PoolInv' /\ OutInBucket'
    BY <2>1, <2>2, <2>4, DropKeeps DEF TypeOK, inputs, match
  <2>6. \A d \in Doc : InBucket(d, logo'[d])
    BY <2>3 DEF Stamped, Mirrored, InBucket, BucketInv, NoBrokenLogo, OutInBucket
  <2>7. NoBrokenLogo' /\ HandInBucket'
    BY <2>1, <2>6 DEF match, BucketInv, NoBrokenLogo, HandInBucket, InBucket
  <2> QED
    BY <2>5, <2>7 DEF BucketInv
<1>12. ASSUME NEW r \in Run, Cancel(r) PROVE LogoInv'
  <2>1. TypeOK' /\ BucketInv'
    BY <1>12 DEF Cancel, Trouble, TypeOK, inputs, store, pool, match, BucketInv,
                 NoBrokenLogo, OutInBucket, HandInBucket, InBucket
  <2>2. ASSUME NEW q \in Run, NEW d \in Doc PROVE PoolOf(q, d)'
    BY <1>12 DEF Cancel, inputs, store, pool, PoolInv, PoolOf, InPool, MirroredURL, TypeOK
  <2> QED
    BY <2>1, <2>2 DEF PoolInv
<1>13. ASSUME NEW r \in Run, Kill(r) PROVE LogoInv'
  <2>1. TypeOK' /\ PoolInv' /\ OutInBucket'
    BY <1>13, DropKeeps DEF Kill, Trouble, TypeOK, inputs, store, match
  <2>2. NoBrokenLogo' /\ HandInBucket'
    BY <1>13 DEF Kill, store, match, BucketInv, NoBrokenLogo, HandInBucket, InBucket
  <2> QED
    BY <2>1, <2>2 DEF BucketInv
<1>14. CASE stampTeamLogos
  <2>1. PICK u \in {LookUp, NoURL} : hand' = [hand EXCEPT !["sync"] = u]
    BY <1>14 DEF stampTeamLogos
  <2>2. LookUp \in MirrorURLs \cup {NoURL} /\ InBucket(MatchTeam, LookUp)
    BY DocAssumption DEF LookUp, TypeOK, BucketInv, NoBrokenLogo, Doc
  <2>3. \A w \in Writer : hand'[w] = Nothing \/ InBucket(MatchTeam, hand'[w])
    BY <2>1, <2>2 DEF TypeOK, BucketInv, HandInBucket, InBucket
  <2>4. hand' \in [Writer -> MirrorURLs \cup {NoURL, Nothing}]
    BY <2>1, <2>2 DEF TypeOK
  <2>5. UNCHANGED <<inputs, store, runs, shown, window>> /\ troubles' \in Nat
    BY <1>14 DEF stampTeamLogos, Works, Trouble, TypeOK
  <2> QED
    BY <2>3, <2>4, <2>5, MatchKeeps DEF inputs, TypeOK, BucketInv, NoBrokenLogo
<1>15. CASE ReadPrevious
  <2>1. hand' = [hand EXCEPT !["delta"] = shown]
    BY <1>15 DEF ReadPrevious
  <2>2. \A w \in Writer : hand'[w] = Nothing \/ InBucket(MatchTeam, hand'[w])
    BY <2>1 DEF TypeOK, BucketInv, HandInBucket, NoBrokenLogo
  <2>3. hand' \in [Writer -> MirrorURLs \cup {NoURL, Nothing}]
    BY <2>1 DEF TypeOK
  <2>4. UNCHANGED <<upstream, base, store, runs, shown, window, troubles>> /\ changes' \in Nat
    BY <1>15 DEF ReadPrevious, Change, TypeOK
  <2> QED
    BY <2>2, <2>3, <2>4, MatchKeeps DEF TypeOK, BucketInv, NoBrokenLogo
<1>16. ASSUME NEW w \in Writer, WriteMatch(w) PROVE LogoInv'
  <2>1. hand' = [hand EXCEPT ![w] = Nothing] /\ shown' \in {shown, hand[w]} /\ hand[w] # Nothing
    BY <1>16 DEF WriteMatch
  <2>2. \A x \in Writer : hand'[x] = Nothing \/ InBucket(MatchTeam, hand'[x])
    BY <2>1 DEF TypeOK, BucketInv, HandInBucket
  <2>3. shown' \in MirrorURLs \cup {NoURL} /\ InBucket(MatchTeam, shown')
    BY <2>1 DEF TypeOK, BucketInv, HandInBucket, NoBrokenLogo
  <2>4. hand' \in [Writer -> MirrorURLs \cup {NoURL, Nothing}]
    BY <2>1 DEF TypeOK
  <2>5. UNCHANGED <<inputs, store, runs, window>> /\ troubles' \in Nat
    BY <1>16 DEF WriteMatch, Works, Trouble, TypeOK
  <2> QED
    BY <2>2, <2>3, <2>4, <2>5, MatchKeeps DEF inputs, TypeOK
<1>18. CASE LeaveWindow
  <2>1. UNCHANGED <<upstream, base, store, runs>> /\ shown' = shown /\ hand' = hand
    BY <1>18 DEF LeaveWindow
  <2>2. window' \in BOOLEAN
    BY <1>18 DEF LeaveWindow
  <2>3. changes' \in Nat /\ troubles' \in Nat
    BY <1>18 DEF LeaveWindow, Change, TypeOK
  <2>4. /\ shown' \in MirrorURLs \cup {NoURL} /\ InBucket(MatchTeam, shown')
        /\ hand' \in [Writer -> MirrorURLs \cup {NoURL, Nothing}]
        /\ \A w \in Writer : hand'[w] = Nothing \/ InBucket(MatchTeam, hand'[w])
    BY <2>1 DEF TypeOK, BucketInv, NoBrokenLogo, HandInBucket
  <2> QED
    BY <2>1, <2>2, <2>3, <2>4, MatchKeeps
<1> QED
  BY <1>2, <1>3, <1>4, <1>5, <1>6, <1>7, <1>8, <1>9, <1>10, <1>11, <1>12, <1>13, <1>14,
     <1>15, <1>16, <1>17, <1>18 DEF Next, Step

LEMMA LogoInvariant == Spec => []LogoInv
<1> QED
  BY InitInv, NextInv, PTL DEF Spec

\* Every variable keeps its type, whatever calls fail and whichever runs race.
THEOREM TypeCorrect == Spec => []TypeOK
<1>1. LogoInv => TypeOK
  BY DEF LogoInv
<1> QED
  BY <1>1, LogoInvariant, PTL

\* However many calls fail, are cancelled or race with those of the other process: every
\* logo_url, on a league, a team or a match, names an object that is in the bucket.
THEOREM NoBrokenLogoHolds == Spec => []NoBrokenLogo
<1>1. LogoInv => NoBrokenLogo
  BY DEF LogoInv, BucketInv
<1> QED
  BY <1>1, LogoInvariant, PTL

\* For any number of documents and of workers, MirrorAll returns a result for each pending
\* document and for no other, unless its context is cancelled.
THEOREM AnsweredHolds == Spec => []Answered
<1>1. LogoInv => Answered
  BY DEF LogoInv, PoolInv, PoolOf, InPool, Answered
<1> QED
  BY <1>1, LogoInvariant, PTL

\* No step takes away a logo a document has.
THEOREM LogoKeptHolds == Spec => LogoKept
<1>1. ASSUME LogoInv, [Next]_vars, NEW d \in Doc, logo[d] # NoURL
      PROVE  logo'[d] # NoURL
  <2>1. CASE logo' = logo
    BY <1>1, <2>1
  <2>2. ASSUME NEW r \in Run, Stamp(r) PROVE logo'[d] # NoURL
    BY <1>1, <2>2 DEF Stamp, Stamped, Mirrored
  <2>3. ASSUME NEW r \in Run, Step(r) PROVE logo' = logo \/ Stamp(r)
    BY <2>3 DEF Step, Dictionary, List, Feed, Upload, StopFeeding, MirrorAllReturns, store
  <2>4. ASSUME NEW r \in Run, Start(r) \/ Cancel(r) \/ Kill(r) PROVE logo' = logo
    BY <2>4 DEF Start, Cancel, Kill, store
  <2>5. ASSUME NEW c \in Doc, NEW s \in AnySource, NewSource(c, s) PROVE logo' = logo
    BY <2>5 DEF NewSource, store
  <2>6. CASE NewBase \/ LeaveWindow \/ stampTeamLogos \/ ReadPrevious \/ \E w \in Writer : WriteMatch(w)
    BY <2>1, <2>6 DEF NewBase, LeaveWindow, stampTeamLogos, ReadPrevious, WriteMatch, store
  <2>7. CASE UNCHANGED vars
    BY <2>1, <2>7 DEF vars, store
  <2> QED
    BY <1>1, <2>1, <2>2, <2>3, <2>4, <2>5, <2>6, <2>7 DEF Next
<1> DEFINE Kept == \A d \in Doc : logo[d] # NoURL => logo'[d] # NoURL
<1>2. LogoInv /\ [Next]_vars => [Kept]_vars
  BY <1>1
<1>3. Spec => [][Kept]_vars
  <2> HIDE DEF Kept
  <2> QED
    BY <1>2, LogoInvariant, PTL DEF Spec
<1> QED
  BY <1>3 DEF LogoKept
=============================================================================
