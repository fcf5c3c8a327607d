---------------------------- MODULE AccessLogProofs ----------------------------
(***************************************************************************)
(* Proofs about the counters of AccessLog: what a scanner can make the     *)
(* agent export is bounded, and a line is counted under /:other only in    *)
(* need, for every set of hosts, statuses and requests, all bounds of      *)
(* cardinality, times to live and sweep intervals.                         *)
(***************************************************************************)
EXTENDS AccessLog, Sums

-----------------------------------------------------------------------------
(* uriCounters *)

\* The keys with a path of their own.
Own(u) == {k \in DOMAIN u.m : k[2] # overflowMarker}

\* Counters at a time t: they are finite and within their bound, and no key was
\* idle for long at the last sweep.
Sound(u, t) ==
    /\ u = [m |-> u.m, lastSweep |-> u.lastSweep]
    /\ IsFiniteSet(DOMAIN u.m)
    /\ Cardinality(Own(u)) <= maxCardinalityURI
    /\ u.lastSweep \in Nat /\ u.lastSweep <= t
    /\ \A k \in DOMAIN u.m :
        /\ u.m[k].count \in Nat /\ u.m[k].lastSeen \in Nat
        /\ u.lastSweep - u.m[k].lastSeen <= uriIdleTTL

\* One element more.
LEMMA OneMore ==
    ASSUME NEW S, IsFiniteSet(S), NEW x
    PROVE  /\ IsFiniteSet(S \cup {x})
           /\ Cardinality(S) \in Nat /\ Cardinality(S \cup {x}) \in Nat
           /\ Cardinality(S \cup {x}) <= Cardinality(S) + 1
<1>1. Cardinality(S) \in Nat
  BY FS_CardinalityType
<1> QED
  BY <1>1, FS_AddElement

\* Counters begin sound.
LEMMA NewSound == ASSUME NEW t \in Nat PROVE Sound(NewCounters, t)
<1>1. DOMAIN NewCounters.m = {} /\ Own(NewCounters) = {}
  BY DEF NewCounters, Own
<1>2. IsFiniteSet({}) /\ Cardinality({}) = 0
  BY FS_EmptySet
<1>3. /\ NewCounters = [m |-> NewCounters.m, lastSweep |-> NewCounters.lastSweep]
      /\ NewCounters.lastSweep = 0
  BY DEF NewCounters
<1> QED
  BY <1>1, <1>2, <1>3, LogAssumption DEF Sound

\* What Bump returns, of counters with their two fields.
LEMMA BumpResult ==
    ASSUME NEW u, u = [m |-> u.m, lastSweep |-> u.lastSweep],
           \A k \in DOMAIN u.m : u.m[k].count \in Nat,
           NEW key, NEW t
    PROVE  LET v == Bump(u, key, t) IN
           /\ v = [m |-> v.m, lastSweep |-> v.lastSweep]
           /\ v.lastSweep = u.lastSweep
           /\ DOMAIN v.m = DOMAIN u.m \cup {key}
           /\ v.m[key].lastSeen = t /\ v.m[key].count \in Nat
           /\ \A k \in DOMAIN u.m : k # key => v.m[k] = u.m[k]
<1> DEFINE v == Bump(u, key, t)
           n == 1 + IF key \in DOMAIN u.m THEN u.m[key].count ELSE 0
<1>1. n \in Nat
  OBVIOUS
<1> HIDE DEF n
<1>2. v.m = [k \in DOMAIN u.m \cup {key} |->
              IF k # key THEN u.m[k] ELSE [count |-> n, lastSeen |-> t]]
  BY DEF Bump, n
<1>3. v = [m |-> v.m, lastSweep |-> v.lastSweep] /\ v.lastSweep = u.lastSweep
  BY DEF Bump
<1> HIDE DEF v
<1> QED
  BY <1>1, <1>2, <1>3 DEF v

\* A sweep keeps counters sound, and what it keeps was there.
LEMMA SweepSound ==
    ASSUME NEW u, NEW t \in Nat, Sound(u, t)
    PROVE  LET s == sweep(u, t) IN
           /\ Sound(s, t)
           /\ DOMAIN s.m \subseteq DOMAIN u.m
           /\ \A k \in DOMAIN s.m : /\ s.m[k] = u.m[k]
                                    /\ t - s.m[k].lastSeen <= uriIdleTTL + uriSweepInterval
<1> DEFINE s == sweep(u, t)
<1> USE LogAssumption
<1>1. CASE t - u.lastSweep < uriSweepInterval
  BY <1>1 DEF sweep, Sound
<1>2. CASE ~(t - u.lastSweep < uriSweepInterval)
  <2>1. s = [m |-> [k \in DOMAIN u.m \ Idle(u, t) |-> u.m[k]], lastSweep |-> t]
    BY <1>2 DEF sweep
  <2>2. /\ DOMAIN s.m \subseteq DOMAIN u.m /\ Own(s) \subseteq Own(u)
        /\ \A k \in DOMAIN s.m : s.m[k] = u.m[k]
    BY <2>1 DEF Own
  <2>3. \A k \in DOMAIN s.m : t - s.m[k].lastSeen <= uriIdleTTL
    BY <2>1 DEF Idle, Sound
  <2>4. Own(u) \subseteq DOMAIN u.m
    BY DEF Own
  <2>5. IsFiniteSet(DOMAIN s.m) /\ IsFiniteSet(Own(u))
    BY <2>2, <2>4, FS_Subset DEF Sound
  <2>6. Cardinality(Own(s)) <= Cardinality(Own(u)) /\ IsFiniteSet(Own(s))
    BY <2>2, <2>5, FS_Subset
  <2>7. Cardinality(Own(s)) \in Nat /\ Cardinality(Own(u)) \in Nat
    BY <2>5, <2>6, FS_CardinalityType
  <2>8. s.lastSweep = t /\ s = [m |-> s.m, lastSweep |-> s.lastSweep]
    BY <2>1
  <2> HIDE DEF s
  <2>9. Sound(s, t)
    BY <2>2, <2>3, <2>5, <2>6, <2>7, <2>8 DEF Sound
  <2> QED
    BY <2>2, <2>3, <2>9 DEF Sound, s
<1> QED
  BY <1>1, <1>2
\* add: the bound of the keys, the age of the live ones, and the reason of an
\* overflow.
LEMMA AddSound ==
    ASSUME NEW u, NEW t \in Nat, Sound(u, t), NEW key, NEW overflow,
           overflow[2] = overflowMarker
    PROVE  LET v == add(u, key, overflow, t) IN
           /\ Sound(v, t)
           /\ Overflows(u, v) /\ key[2] # overflowMarker =>
               /\ Cardinality(DOMAIN v.m) >= maxCardinalityURI
               /\ \A k \in DOMAIN v.m :
                   t - v.m[k].lastSeen <= uriIdleTTL + uriSweepInterval
<1> DEFINE v == add(u, key, overflow, t)
           s == IF Full(u) THEN sweep(u, t) ELSE u
           Crowded == /\ Cardinality(DOMAIN v.m) >= maxCardinalityURI
                      /\ \A k \in DOMAIN v.m :
                          t - v.m[k].lastSeen <= uriIdleTTL + uriSweepInterval
<1> USE LogAssumption
<1>0. /\ u = [m |-> u.m, lastSweep |-> u.lastSweep]
      /\ IsFiniteSet(DOMAIN u.m) /\ Own(u) \subseteq DOMAIN u.m
      /\ u.lastSweep \in Nat /\ u.lastSweep <= t
      /\ \A k \in DOMAIN u.m : u.m[k].count \in Nat
  BY DEF Sound, Own
<1>1. CASE key \in DOMAIN u.m
  <2>1. v = Bump(u, key, t)
    BY <1>1 DEF add
  <2> HIDE DEF v
  <2>2. /\ v = [m |-> v.m, lastSweep |-> v.lastSweep]
        /\ v.lastSweep = u.lastSweep /\ DOMAIN v.m = DOMAIN u.m
        /\ v.m[key].lastSeen = t /\ v.m[key].count \in Nat
        /\ \A k \in DOMAIN u.m : k # key => v.m[k] = u.m[k]
    <3>1. DOMAIN u.m \cup {key} = DOMAIN u.m
      BY <1>1
    <3>2. /\ v = [m |-> v.m, lastSweep |-> v.lastSweep]
          /\ v.lastSweep = u.lastSweep /\ DOMAIN v.m = DOMAIN u.m \cup {key}
          /\ v.m[key].lastSeen = t /\ v.m[key].count \in Nat
          /\ \A k \in DOMAIN u.m : k # key => v.m[k] = u.m[k]
      BY <1>0, <2>1, BumpResult
    <3> QED
      BY <3>1, <3>2
  <2>3. Own(v) = Own(u)
    BY <2>2 DEF Own
  <2>4. Sound(v, t)
    BY <1>0, <2>2, <2>3 DEF Sound
  <2>5. key[2] # overflowMarker => ~Overflows(u, v)
    BY <2>2 DEF Overflows
  <2> QED
    BY <2>4, <2>5 DEF v
<1>2. CASE key \notin DOMAIN u.m /\ ~Full(s)
  <2>1. v = Bump(s, key, t)
    BY <1>2 DEF add
  <2>2. /\ Sound(s, t) /\ DOMAIN s.m \subseteq DOMAIN u.m
        /\ \A k \in DOMAIN s.m : s.m[k] = u.m[k]
    BY SweepSound
  <2> HIDE DEF v, s
  <2>3. /\ v = [m |-> v.m, lastSweep |-> v.lastSweep]
        /\ v.lastSweep = s.lastSweep /\ DOMAIN v.m = DOMAIN s.m \cup {key}
        /\ v.m[key].lastSeen = t /\ v.m[key].count \in Nat
        /\ \A k \in DOMAIN s.m : k # key => v.m[k] = s.m[k]
    BY <2>1, <2>2, BumpResult DEF Sound
  <2>4. IsFiniteSet(DOMAIN s.m) /\ Cardinality(DOMAIN s.m) \in Nat
    BY <2>2, FS_CardinalityType DEF Sound
  <2>5. /\ IsFiniteSet(DOMAIN v.m) /\ Cardinality(DOMAIN v.m) \in Nat
        /\ Cardinality(DOMAIN v.m) <= Cardinality(DOMAIN s.m) + 1
    <3> DEFINE S == DOMAIN s.m
    <3>1. DOMAIN v.m = S \cup {key} /\ IsFiniteSet(S)
      BY <2>3, <2>4
    <3> HIDE DEF S
    <3>2. /\ IsFiniteSet(S \cup {key}) /\ Cardinality(S \cup {key}) \in Nat
          /\ Cardinality(S \cup {key}) <= Cardinality(S) + 1
      BY <3>1, OneMore
    <3> QED
      BY <3>1, <3>2 DEF S
  <2>6. Own(v) \subseteq DOMAIN v.m
    BY DEF Own
  <2>7. Cardinality(Own(v)) <= Cardinality(DOMAIN v.m) /\ Cardinality(Own(v)) \in Nat
    BY <2>5, <2>6, FS_Subset, FS_CardinalityType
  <2>8. Cardinality(Own(v)) <= maxCardinalityURI
    BY <1>2, <2>4, <2>5, <2>7 DEF Full
  <2>9. Sound(v, t)
    BY <2>2, <2>3, <2>5, <2>8 DEF Sound
  <2>10. key[2] # overflowMarker => ~Overflows(u, v)
    BY <2>2, <2>3 DEF Overflows
  <2> QED
    BY <2>9, <2>10 DEF v
<1>3. CASE key \notin DOMAIN u.m /\ Full(s)
  <2>1. v = Bump(s, overflow, t)
    BY <1>3 DEF add
  <2>2. s = sweep(u, t)
    BY <1>3
  <2>3. /\ Sound(s, t) /\ DOMAIN s.m \subseteq DOMAIN u.m
        /\ \A k \in DOMAIN s.m : t - s.m[k].lastSeen <= uriIdleTTL + uriSweepInterval
    BY <2>2, SweepSound
  <2> HIDE DEF v, s
  <2>4. /\ v = [m |-> v.m, lastSweep |-> v.lastSweep]
        /\ v.lastSweep = s.lastSweep /\ DOMAIN v.m = DOMAIN s.m \cup {overflow}
        /\ v.m[overflow].lastSeen = t /\ v.m[overflow].count \in Nat
        /\ \A k \in DOMAIN s.m : k # overflow => v.m[k] = s.m[k]
    BY <2>1, <2>3, BumpResult DEF Sound
  <2>5. IsFiniteSet(DOMAIN s.m)
    BY <2>3 DEF Sound
  <2>6. IsFiniteSet(DOMAIN v.m) /\ DOMAIN s.m \subseteq DOMAIN v.m
    BY <2>4, <2>5, FS_AddElement
  <2>7. /\ Cardinality(DOMAIN s.m) <= Cardinality(DOMAIN v.m)
        /\ Cardinality(DOMAIN s.m) \in Nat /\ Cardinality(DOMAIN v.m) \in Nat
    BY <2>5, <2>6, FS_Subset, FS_CardinalityType
  <2>8. Cardinality(DOMAIN v.m) >= maxCardinalityURI
    BY <1>3, <2>7 DEF Full
  <2>9. Own(v) = Own(s)
    BY <2>4 DEF Own
  <2>10. Sound(v, t)
    BY <2>3, <2>4, <2>6, <2>9 DEF Sound
  <2>11. Crowded
    BY <2>3, <2>4, <2>8
  <2> QED
    BY <2>10, <2>11 DEF v
<1> QED
  BY <1>1, <1>2, <1>3
\* Time passes.
LEMMA LaterSound ==
    ASSUME NEW u, NEW t \in Nat, Sound(u, t), NEW later \in Nat, t <= later
    PROVE  Sound(u, later)
  BY DEF Sound

-----------------------------------------------------------------------------
(* The collector *)

\* What the collector exports is within its bounds at any time; before the
\* collector is made, when ExtraLabels are not known yet, it has no series.
LogInv ==
    /\ now \in Nat
    /\ \A f \in Families : Sound(uris[f], now)
    /\ stage = "start" => RequestSeries = {}
    /\ IsFiniteSet(RequestSeries)
    /\ Tagged => Cardinality(RequestSeries) <= maxCardinalityTagged

\* The collector starts with no series.
LEMMA LogInvInit == LogInit => LogInv
<1> SUFFICES ASSUME LogInit PROVE LogInv
  OBVIOUS
<1>1. now \in Nat /\ \A f \in Families : uris[f] = NewCounters
  BY LogAssumption DEF LogInit
<1>2. RequestSeries = {}
  BY DEF LogInit, RequestSeries
<1> QED
  BY <1>1, <1>2, NewSound, FS_EmptySet, LogAssumption DEF LogInv

\* recordLine, of any line
LEMMA RecordLine ==
    ASSUME LogInv, NEW line, recordLine(line), UNCHANGED <<collector, now>>,
           stage # "start", stage' = stage
    PROVE  /\ LogInv'
           /\ \A f \in Families :
                Overflows(uris[f], uris'[f]) /\ line.uri # overflowMarker =>
                    /\ Cardinality(DOMAIN uris'[f].m) >= maxCardinalityURI
                    /\ \A k \in DOMAIN uris'[f].m :
                        now - uris'[f].m[k].lastSeen <= uriIdleTTL + uriSweepInterval
<1>1. ASSUME NEW f \in Families
      PROVE  /\ Sound(uris'[f], now)
             /\ Overflows(uris[f], uris'[f]) /\ line.uri # overflowMarker =>
                  /\ Cardinality(DOMAIN uris'[f].m) >= maxCardinalityURI
                  /\ \A k \in DOMAIN uris'[f].m :
                      now - uris'[f].m[k].lastSeen <= uriIdleTTL + uriSweepInterval
  <2> DEFINE key == Key(f, line, line.uri)
             overflow == Key(f, line, overflowMarker)
  <2>1. uris'[f] = Recorded(line, f)
    BY DEF recordLine
  <2>2. key[2] = line.uri /\ overflow[2] = overflowMarker
    BY DEF Key
  <2>3. Sound(uris[f], now) /\ now \in Nat
    BY DEF LogInv
  <2>4. CASE Counts(line, f)
    <3>1. uris'[f] = add(uris[f], key, overflow, now)
      BY <2>1, <2>4 DEF Recorded
    <3> HIDE DEF key, overflow
    <3> QED
      BY <2>2, <2>3, <3>1, AddSound
  <2>5. CASE ~Counts(line, f)
    <3>1. uris'[f] = uris[f]
      BY <2>1, <2>5 DEF Recorded
    <3> QED
      BY <2>3, <3>1 DEF Overflows
  <2> QED
    BY <2>4, <2>5
<1>2. /\ IsFiniteSet(RequestSeries')
      /\ Tagged => Cardinality(RequestSeries') <= maxCardinalityTagged
  <2>1. /\ IsFiniteSet(RequestSeries)
        /\ Tagged => Cardinality(RequestSeries) <= maxCardinalityTagged
    BY DEF LogInv
  <2>2. CASE line.status = ""
    BY <2>1, <2>2 DEF recordLine, RequestSeries
  <2>3. CASE line.status # ""
    <3> DEFINE key == <<line.status, LabelValues(line)>>
    <3>1. requests' = CountRequest(key)
      BY <2>3 DEF recordLine
    <3> HIDE DEF key
    <3>2. \/ RequestSeries' = RequestSeries
          \/ /\ RequestSeries' = RequestSeries \cup {key}
             /\ Tagged => ~(Cardinality(RequestSeries) >= maxCardinalityTagged)
      BY <3>1 DEF CountRequest, RequestSeries
    <3> QED
      BY <2>1, <3>2, OneMore, LogAssumption
  <2> QED
    BY <2>2, <2>3
<1>3. Tagged' = Tagged /\ now' = now
  BY DEF Tagged
<1> QED
  BY <1>1, <1>2, <1>3 DEF LogInv

\* Every step keeps the counters sound and the tagged series within their cap.
LEMMA LogInvStep ==
    LogInv /\ [LogNext]_logVars =>
        /\ LogInv'
        /\ \A f \in Families :
            Overflows(uris[f], uris'[f]) /\ PathOf(last') # overflowMarker =>
                /\ Cardinality(DOMAIN uris'[f].m) >= maxCardinalityURI
                /\ \A k \in DOMAIN uris'[f].m :
                    now - uris'[f].m[k].lastSeen <= uriIdleTTL + uriSweepInterval
<1> DEFINE Goal ==
        /\ LogInv'
        /\ \A f \in Families :
            Overflows(uris[f], uris'[f]) /\ PathOf(last') # overflowMarker =>
                /\ Cardinality(DOMAIN uris'[f].m) >= maxCardinalityURI
                /\ \A k \in DOMAIN uris'[f].m :
                    now - uris'[f].m[k].lastSeen <= uriIdleTTL + uriSweepInterval
<1> SUFFICES ASSUME LogInv, [LogNext]_logVars PROVE Goal
  OBVIOUS
<1>0. ASSUME uris' = uris, requests' = requests, now' \in Nat, now <= now',
             stage' = "start" => stage = "start",
             stage = "start" \/ collector' = collector
      PROVE  Goal
  <2>1. \A f \in Families : Sound(uris'[f], now')
    BY <1>0, LaterSound DEF LogInv
  <2>2. RequestSeries' = RequestSeries
    BY <1>0 DEF RequestSeries
  <2>3. Tagged' => Cardinality(RequestSeries) <= maxCardinalityTagged
    BY <1>0, FS_EmptySet, LogAssumption DEF LogInv, Tagged
  <2>4. \A f \in Families : ~Overflows(uris[f], uris'[f])
    BY <1>0 DEF Overflows
  <2> QED
    BY <1>0, <2>1, <2>2, <2>3, <2>4 DEF LogInv
<1> USE DEF observers, metrics, tails
<1>1. CASE LogRegister
  <2> USE DEF LogInv
  <2>1. CASE RegisterCollectors
    <3>1. /\ UNCHANGED <<metrics, now>> /\ stage = "start"
          /\ stage' = "collectors"
      BY <2>1 DEF RegisterCollectors
    <3> QED
      BY <1>0, <3>1
  <2>2. CASE RegisterBotLogs
    <3>1. /\ UNCHANGED <<metrics, now, collector>> /\ stage' = "bots"
      BY <2>2 DEF RegisterBotLogs
    <3> QED
      BY <1>0, <3>1
  <2>3. CASE RegisterWebLogs
    <3>1. /\ UNCHANGED <<metrics, now, collector>> /\ stage' = "webs"
      BY <2>3 DEF RegisterWebLogs
    <3> QED
      BY <1>0, <3>1
  <2>4. CASE StartTailing
    <3>1. UNCHANGED <<metrics, now, collector>> /\ stage' # "start"
      BY <2>4 DEF StartTailing
    <3> QED
      BY <1>0, <3>1
  <2> QED
    BY <1>1, <2>1, <2>2, <2>3, <2>4 DEF LogRegister
<1>2. ASSUME NEW path \in tailing,
             \/ \E request \in host.requests : TailRead(path, request)
             \/ TailSend(path)
             \/ TailStop(path)
      PROVE  Goal
  BY <1>0, <1>2 DEF TailRead, TailSend, TailStop, LogInv
<1>3. CASE Process
  <2> DEFINE path    == Head(lines).path
             request == Head(lines).request
             line    == fillLine(ParserFormat(path), request)
  <2>1. UNCHANGED <<stage, collector, now>> /\ stage = "tailing"
    BY <1>3 DEF Process
  <2>2. CASE UNCHANGED metrics
    BY <1>0, <2>1, <2>2 DEF LogInv
  <2>3. CASE ~UNCHANGED metrics
    <3>1. /\ recordLine(line)
          /\ last'.path = path /\ last'.request = request
      BY <1>3, <2>3 DEF Process
    <3>2. PathOf(last') = line.uri
      BY <3>1 DEF PathOf
    <3> HIDE DEF line
    <3> QED
      BY <2>1, <3>1, <3>2, RecordLine
  <2> QED
    BY <2>2, <2>3
<1>4. CASE CollectorReturns
  BY <1>0, <1>4 DEF CollectorReturns, LogInv
<1>5. CASE Tick
  BY <1>0, <1>5 DEF Tick, LogInv
<1>6. CASE Cancel
  BY <1>0, <1>6 DEF Cancel, LogInv
<1>7. CASE UNCHANGED logVars
  BY <1>0, <1>7 DEF logVars, LogInv
<1> QED
  BY <1>1, <1>2, <1>3, <1>4, <1>5, <1>6, <1>7 DEF LogNext, LogStep

\* Sound counters are bounded.
LEMMA LogBounded == LogInv => SeriesBounded
  BY DEF LogInv, SeriesBounded, Sound, Own, Series

\* What a scanner can make the agent export is bounded.
THEOREM SeriesSafety == LogSpec => []SeriesBounded
<1>1. LogSpec => []LogInv
  BY LogInvInit, LogInvStep, PTL DEF LogSpec
<1> QED
  BY <1>1, LogBounded, PTL

\* A line is counted under /:other only while maxCardinalityURI series are live.
THEOREM OverflowSafety == LogSpec => OverflowIsCrowded
<1>1. LogSpec => []LogInv
  BY LogInvInit, LogInvStep, PTL DEF LogSpec
<1>2. LogInv /\ [LogNext]_logVars =>
        [\A f \in Families :
            Overflows(uris[f], uris'[f]) /\ PathOf(last') # overflowMarker =>
                /\ Cardinality(DOMAIN uris'[f].m) >= maxCardinalityURI
                /\ \A k \in DOMAIN uris'[f].m :
                    now - uris'[f].m[k].lastSeen
                        <= uriIdleTTL + uriSweepInterval]_logVars
  BY LogInvStep
<1> QED
  BY <1>1, <1>2, PTL DEF LogSpec, OverflowIsCrowded

-----------------------------------------------------------------------------
(* Conservation *)

\* The table of a family as the sums see it.
LEMMA CountWeighs ==
    ASSUME NEW u, NEW t, Sound(u, t)
    PROVE  /\ DOMAIN Count(u) = DOMAIN u.m
           /\ IsFiniteSet(DOMAIN u.m) /\ Weighs(Count(u), DOMAIN u.m)
           /\ SumFunction(Count(u)) = SumFunctionOnSet(Count(u), DOMAIN u.m)
           /\ SumFunction(Count(u)) \in Nat
<1>1. /\ DOMAIN Count(u) = DOMAIN u.m
      /\ IsFiniteSet(DOMAIN u.m) /\ Weighs(Count(u), DOMAIN u.m)
  BY DEF Count, Sound, Weighs
<1>2. SumFunction(Count(u)) = SumFunctionOnSet(Count(u), DOMAIN u.m)
  BY <1>1 DEF SumFunction
<1> QED
  BY <1>1, <1>2, SumType

\* A bump counts one more.
LEMMA BumpCounts ==
    ASSUME NEW u, NEW t \in Nat, Sound(u, t), NEW key
    PROVE  SumFunction(Count(Bump(u, key, t))) = SumFunction(Count(u)) + 1
<1> DEFINE v == Bump(u, key, t)
<1>1. v.m = [k \in DOMAIN u.m \cup {key} |->
              IF k # key THEN u.m[k]
              ELSE [count |-> 1 + IF key \in DOMAIN u.m THEN u.m[key].count ELSE 0,
                    lastSeen |-> t]]
  BY DEF Bump, Sound
<1> HIDE DEF v
<1>2. DOMAIN Count(v) = DOMAIN u.m \cup {key}
  BY <1>1 DEF Count
<1>3. /\ Count(v)[key] = 1 + (IF key \in DOMAIN u.m THEN Count(u)[key] ELSE 0)
      /\ \A k \in DOMAIN u.m \ {key} : Count(v)[k] = Count(u)[k]
  BY <1>1 DEF Count
<1>4. /\ SumFunction(Count(u)) = SumFunctionOnSet(Count(u), DOMAIN u.m)
      /\ IsFiniteSet(DOMAIN u.m) /\ Weighs(Count(u), DOMAIN u.m)
  BY CountWeighs
<1>5. SumFunctionOnSet(Count(v), DOMAIN u.m \cup {key})
          = SumFunctionOnSet(Count(u), DOMAIN u.m) + 1
  BY <1>3, <1>4, SumIncrement
<1> QED
  BY <1>2, <1>4, <1>5 DEF SumFunction, v

\* What a sweep takes away is what its keys counted.
LEMMA SweepCounts ==
    ASSUME NEW u, NEW t \in Nat, Sound(u, t)
    PROVE  LET s == sweep(u, t) IN
           SumFunction(Count(u)) = SumFunction(Count(s))
               + SumFunctionOnSet(Count(u), DOMAIN u.m \ DOMAIN s.m)
<1> DEFINE s == sweep(u, t)
<1>1. /\ Sound(s, t) /\ DOMAIN s.m \subseteq DOMAIN u.m
      /\ \A k \in DOMAIN s.m : s.m[k] = u.m[k]
  BY SweepSound
<1> HIDE DEF s
<1>2. /\ IsFiniteSet(DOMAIN u.m) /\ Weighs(Count(u), DOMAIN u.m)
      /\ SumFunction(Count(u)) = SumFunctionOnSet(Count(u), DOMAIN u.m)
      /\ IsFiniteSet(DOMAIN s.m) /\ Weighs(Count(s), DOMAIN s.m)
      /\ SumFunction(Count(s)) = SumFunctionOnSet(Count(s), DOMAIN s.m)
  BY <1>1, CountWeighs
<1>3. \A k \in DOMAIN s.m : Count(u)[k] = Count(s)[k]
  BY <1>1 DEF Count
<1>4. SumFunctionOnSet(Count(u), DOMAIN s.m) = SumFunctionOnSet(Count(s), DOMAIN s.m)
  BY <1>2, <1>3, SumAgree
<1>5. SumFunctionOnSet(Count(u), DOMAIN u.m)
          = SumFunctionOnSet(Count(u), DOMAIN s.m)
            + SumFunctionOnSet(Count(u), DOMAIN u.m \ DOMAIN s.m)
  BY <1>1, <1>2, SumSplit
<1> QED
  BY <1>2, <1>4, <1>5 DEF s

\* add counts one line more, besides what it evicts.
LEMMA AddCounts ==
    ASSUME NEW u, NEW t \in Nat, Sound(u, t), NEW key, NEW overflow
    PROVE  LET gone == SumFunctionOnSet(Count(u), Evicted(u, key, t)) IN
           /\ gone \in Nat
           /\ SumFunction(Count(u)) + 1
                  = SumFunction(Count(add(u, key, overflow, t))) + gone
<1> DEFINE v == add(u, key, overflow, t)
           gone == SumFunctionOnSet(Count(u), Evicted(u, key, t))
<1>1. SumFunction(Count(u)) \in Nat
  BY CountWeighs
<1>2. CASE key \in DOMAIN u.m \/ ~Full(u)
  <2>1. PICK x : v = Bump(u, x, t)
    BY <1>2 DEF add
  <2>2. SumFunction(Count(v)) = SumFunction(Count(u)) + 1
    BY <2>1, BumpCounts
  <2>3. gone = 0
    BY <1>2, SumEmpty DEF Evicted
  <2> HIDE DEF v, gone
  <2>4. gone \in Nat /\ SumFunction(Count(u)) + 1 = SumFunction(Count(v)) + gone
    BY <1>1, <2>2, <2>3
  <2> QED
    BY <2>4 DEF v, gone
<1>3. CASE ~(key \in DOMAIN u.m \/ ~Full(u))
  <2> DEFINE s == sweep(u, t)
  <2>1. PICK x : v = Bump(s, x, t)
    BY <1>3 DEF add
  <2>2. Sound(s, t) /\ DOMAIN s.m \subseteq DOMAIN u.m
    BY SweepSound
  <2>3. gone = SumFunctionOnSet(Count(u), DOMAIN u.m \ DOMAIN s.m)
    BY <1>3 DEF Evicted
  <2>4. SumFunction(Count(u)) = SumFunction(Count(s)) + gone
    BY <2>3, SweepCounts
  <2>5. gone \in Nat
    <3>1. IsFiniteSet(DOMAIN u.m) /\ Weighs(Count(u), DOMAIN u.m)
      BY CountWeighs
    <3>2. /\ IsFiniteSet(DOMAIN u.m \ DOMAIN s.m)
          /\ Weighs(Count(u), DOMAIN u.m \ DOMAIN s.m)
      BY <3>1, FS_Difference DEF Weighs
    <3> QED
      BY <2>3, <3>2, SumType
  <2>6. SumFunction(Count(s)) \in Nat
    BY <2>2, CountWeighs
  <2> HIDE DEF s, gone
  <2>7. SumFunction(Count(v)) = SumFunction(Count(s)) + 1
    BY <2>1, <2>2, BumpCounts
  <2> HIDE DEF v
  <2>8. SumFunction(Count(u)) + 1 = SumFunction(Count(v)) + gone
    BY <2>4, <2>5, <2>6, <2>7
  <2> QED
    BY <2>5, <2>8 DEF v, gone
<1> QED
  BY <1>2, <1>3

\* The request series of a status of a set, and how many requests they count.
SeriesOf(r, statuses) == {k \in DOMAIN r : k[1] \in statuses}
Requested(r, statuses) == SumFunctionOnSet(r, SeriesOf(r, statuses))

StatusesOf(f) == IF f = "4xx" THEN Status4xx ELSE Status5xx

\* What is counted is conserved; before the collector is made, when it is not
\* known whether the request series have labels, nothing is counted yet.
CountInv ==
    /\ Weighs(requests, RequestSeries)
    /\ \A f \in Families :
        /\ hits[f] \in Nat /\ evicted[f] \in Nat
        /\ hits[f] = evicted[f] + SumFunction(Count(uris[f]))
        /\ stage = "start" => hits[f] = 0
        /\ ~Tagged /\ f # "bytes" => hits[f] <= Requested(requests, StatusesOf(f))

\* A request without labels is counted, always, under its status.
LEMMA RequestCounts ==
    ASSUME IsFiniteSet(RequestSeries), Weighs(requests, RequestSeries), NEW key,
           requests' = CountRequest(key)
    PROVE  /\ Weighs(requests', RequestSeries')
           /\ ~Tagged => \A statuses :
                 Requested(requests', statuses) =
                     Requested(requests, statuses) + IF key[1] \in statuses THEN 1 ELSE 0
<1> DEFINE Q == RequestSeries
           v == requests'
<1>1. \/ v = requests /\ Tagged
      \/ /\ DOMAIN v = Q \cup {key}
         /\ v[key] = 1 + (IF key \in Q THEN requests[key] ELSE 0)
         /\ \A k \in Q \ {key} : v[k] = requests[k]
  <2>1. CASE key \in Q
    <3>1. v = [requests EXCEPT ![key] = requests[key] + 1] /\ Q \cup {key} = Q
      BY <2>1 DEF CountRequest, RequestSeries
    <3>2. requests[key] \in Nat
      BY <2>1 DEF Weighs
    <3> QED
      BY <2>1, <3>1, <3>2 DEF RequestSeries
  <2>2. CASE key \notin Q
    <3>1. \/ v = requests /\ Tagged
          \/ v = [k \in Q \cup {key} |-> IF k = key THEN 1 ELSE requests[k]]
      BY <2>2 DEF CountRequest, RequestSeries
    <3> HIDE DEF Q, v
    <3> QED
      BY <2>2, <3>1
  <2> QED
    BY <2>1, <2>2
<1>2. RequestSeries' = DOMAIN v /\ RequestSeries = DOMAIN requests
  BY DEF RequestSeries
<1>3. CASE v = requests /\ Tagged
  BY <1>2, <1>3
<1>4. CASE /\ DOMAIN v = Q \cup {key}
           /\ v[key] = 1 + (IF key \in Q THEN requests[key] ELSE 0)
           /\ \A k \in Q \ {key} : v[k] = requests[k]
  <2>1. Weighs(v, RequestSeries')
    BY <1>2, <1>4 DEF Weighs
  <2>2. ASSUME NEW statuses
        PROVE  Requested(requests', statuses) =
                   Requested(requests, statuses) + IF key[1] \in statuses THEN 1 ELSE 0
    <3> DEFINE S == SeriesOf(requests, statuses)
               R == {k \in RequestSeries' : k[1] \in statuses}
    <3>1. /\ Requested(requests', statuses) = SumFunctionOnSet(v, R)
          /\ Requested(requests, statuses) = SumFunctionOnSet(requests, S)
      BY <1>2 DEF Requested, SeriesOf
    <3>2. S \subseteq Q /\ IsFiniteSet(S) /\ Weighs(requests, S)
      BY FS_Subset DEF SeriesOf, RequestSeries, Weighs
    <3>3. CASE key[1] \in statuses
      <4>1. R = S \cup {key}
        BY <1>2, <1>4, <3>3 DEF SeriesOf
      <4>2. key \in Q <=> key \in S
        BY <3>3 DEF SeriesOf, RequestSeries
      <4>3. /\ v[key] = 1 + (IF key \in S THEN requests[key] ELSE 0)
            /\ \A k \in S \ {key} : v[k] = requests[k]
        BY <1>4, <3>2, <4>2
      <4> HIDE DEF S, R, v
      <4>4. SumFunctionOnSet(v, S \cup {key}) = SumFunctionOnSet(requests, S) + 1
        BY <3>2, <4>3, SumIncrement
      <4> QED
        BY <3>1, <3>3, <4>1, <4>4
    <3>4. CASE key[1] \notin statuses
      <4>1. R = S /\ key \notin S
        BY <1>2, <1>4, <3>4 DEF SeriesOf
      <4>2. \A k \in S : v[k] = requests[k]
        BY <1>4, <3>2, <4>1
      <4> HIDE DEF S, R, v
      <4>3. /\ SumFunctionOnSet(v, S) = SumFunctionOnSet(requests, S)
            /\ SumFunctionOnSet(requests, S) \in Nat
        BY <3>2, <4>2, SumAgree, SumType
      <4> QED
        BY <3>1, <3>4, <4>1, <4>3
    <3> QED
      BY <3>3, <3>4
  <2> QED
    BY <2>1, <2>2
<1> HIDE DEF v, Q
<1> QED
  BY <1>1, <1>3, <1>4

\* recordLine, of any line: a hit of a family is one request of its statuses.
LEMMA RecordCounts ==
    ASSUME LogInv, CountInv, NEW line, recordLine(line),
           UNCHANGED <<collector, now, stage>>, stage # "start"
    PROVE  CountInv'
<1> DEFINE Of(statuses) == line.status # "" /\ line.status \in statuses
<1>1. Tagged' = Tagged
  BY DEF Tagged
<1>2. /\ Weighs(requests', RequestSeries')
      /\ ~Tagged => \A statuses :
            Requested(requests', statuses) =
                IF Of(statuses) THEN Requested(requests, statuses) + 1
                ELSE Requested(requests, statuses)
  <2>0. IsFiniteSet(RequestSeries) /\ Weighs(requests, RequestSeries)
    BY DEF LogInv, CountInv
  <2>1. CASE line.status = ""
    <3>1. requests' = requests
      BY <2>1 DEF recordLine
    <3>2. ASSUME NEW statuses
          PROVE  /\ ~Of(statuses)
                 /\ Requested(requests', statuses) = Requested(requests, statuses)
      BY <2>1, <3>1
    <3> QED
      BY <2>0, <3>1, <3>2 DEF RequestSeries
  <2>2. CASE line.status # ""
    <3> DEFINE key == <<line.status, LabelValues(line)>>
    <3>1. requests' = CountRequest(key) /\ key[1] = line.status
      BY <2>2 DEF recordLine
    <3> HIDE DEF key
    <3>2. ASSUME ~Tagged, NEW statuses
          PROVE  Requested(requests', statuses) =
                     IF Of(statuses) THEN Requested(requests, statuses) + 1
                     ELSE Requested(requests, statuses)
      <4>1. Requested(requests', statuses) = Requested(requests, statuses)
                + IF key[1] \in statuses THEN 1 ELSE 0
        BY <2>0, <3>1, <3>2, RequestCounts
      <4>2. /\ IsFiniteSet(SeriesOf(requests, statuses))
            /\ Weighs(requests, SeriesOf(requests, statuses))
        BY <2>0, FS_Subset DEF SeriesOf, RequestSeries, Weighs
      <4>3. Requested(requests, statuses) \in Nat
        BY <4>2, SumType DEF Requested
      <4>4. Of(statuses) <=> key[1] \in statuses
        BY <2>2, <3>1
      <4> HIDE DEF Of
      <4>5. CASE Of(statuses)
        BY <4>1, <4>4, <4>5
      <4>6. CASE ~Of(statuses)
        BY <4>1, <4>3, <4>4, <4>6
      <4> QED
        BY <4>5, <4>6
    <3>3. Weighs(requests', RequestSeries')
      BY <2>0, <3>1, RequestCounts
    <3> HIDE DEF Of
    <3> QED
      BY <3>2, <3>3
  <2> QED
    BY <2>1, <2>2
<1>3. ASSUME NEW f \in Families
      PROVE  /\ hits'[f] \in Nat /\ evicted'[f] \in Nat
             /\ hits'[f] = evicted'[f] + SumFunction(Count(uris'[f]))
             /\ hits'[f] = hits[f] + IF Counts(line, f) THEN 1 ELSE 0
  <2> DEFINE key  == Key(f, line, line.uri)
             gone == SumFunctionOnSet(Count(uris[f]), Evicted(uris[f], key, now))
             old  == SumFunction(Count(uris[f]))
             new  == SumFunction(Count(uris'[f]))
  <2>1. /\ uris'[f] = Recorded(line, f)
        /\ hits'[f] = hits[f] + IF Counts(line, f) THEN 1 ELSE 0
        /\ evicted'[f] = evicted[f] + IF Counts(line, f) THEN gone ELSE 0
    BY DEF recordLine
  <2>2. /\ hits[f] \in Nat /\ evicted[f] \in Nat /\ hits[f] = evicted[f] + old
        /\ Sound(uris[f], now) /\ now \in Nat
    BY DEF LogInv, CountInv
  <2>3. old \in Nat
    BY <2>2, CountWeighs
  <2>4. CASE Counts(line, f)
    <3>1. uris'[f] = add(uris[f], key, Key(f, line, overflowMarker), now)
      BY <2>1, <2>4 DEF Recorded
    <3>2. gone \in Nat /\ old + 1 = new + gone
      <4> HIDE DEF key
      <4> QED
        BY <2>2, <3>1, AddCounts
    <3>3. new \in Nat
      <4>1. Sound(uris'[f], now)
        <5>1. Key(f, line, overflowMarker)[2] = overflowMarker
          BY DEF Key
        <5> HIDE DEF key
        <5> QED
          BY <2>2, <3>1, <5>1, AddSound
      <4> QED
        BY <4>1, CountWeighs
    <3> HIDE DEF gone, old, new
    <3>4. hits'[f] = evicted'[f] + new
      BY <2>1, <2>2, <2>3, <2>4, <3>2, <3>3
    <3>5. hits'[f] \in Nat /\ evicted'[f] \in Nat
      BY <2>1, <2>2, <2>4, <3>2
    <3> QED
      BY <2>1, <3>4, <3>5 DEF new
  <2>5. CASE ~Counts(line, f)
    <3>1. uris'[f] = uris[f]
      BY <2>1, <2>5 DEF Recorded
    <3>2. hits'[f] = hits[f] /\ evicted'[f] = evicted[f] /\ new = old
      BY <2>1, <2>2, <2>5, <3>1
    <3> QED
      BY <2>1, <2>2, <3>2
  <2> QED
    BY <2>4, <2>5
<1>4. ASSUME NEW f \in Families, ~Tagged, f # "bytes"
      PROVE  hits'[f] <= Requested(requests', StatusesOf(f))
  <2>1. /\ hits[f] <= Requested(requests, StatusesOf(f)) /\ hits[f] \in Nat
        /\ Requested(requests, StatusesOf(f)) \in Nat
    <3>1. /\ IsFiniteSet(SeriesOf(requests, StatusesOf(f)))
          /\ Weighs(requests, SeriesOf(requests, StatusesOf(f)))
      BY FS_Subset DEF LogInv, CountInv, SeriesOf, RequestSeries, Weighs
    <3> QED
      BY <1>4, <3>1, SumType DEF CountInv, Requested
  <2>2. Counts(line, f) => Of(StatusesOf(f))
    BY <1>4 DEF Counts, StatusesOf, Families
  <2> HIDE DEF Of
  <2>3. Requested(requests', StatusesOf(f)) =
            IF Of(StatusesOf(f)) THEN Requested(requests, StatusesOf(f)) + 1
            ELSE Requested(requests, StatusesOf(f))
    BY <1>2, <1>4
  <2>4. CASE Counts(line, f)
    <3>1. hits'[f] = hits[f] + 1
      BY <1>3, <2>4
    <3>2. Requested(requests', StatusesOf(f)) = Requested(requests, StatusesOf(f)) + 1
      BY <2>2, <2>3, <2>4
    <3> QED
      BY <2>1, <3>1, <3>2
  <2>5. CASE ~Counts(line, f)
    <3>1. hits'[f] = hits[f]
      BY <1>3, <2>1, <2>5
    <3> QED
      BY <2>1, <2>3, <3>1
  <2> QED
    BY <2>4, <2>5
<1> QED
  BY <1>1, <1>2, <1>3, <1>4 DEF CountInv

\* Nothing is counted at first.
LEMMA CountInit == LogInit => CountInv
<1> SUFFICES ASSUME LogInit PROVE CountInv
  OBVIOUS
<1>1. /\ RequestSeries = {} /\ stage = "start"
      /\ \A f \in Families : uris[f] = NewCounters /\ hits[f] = 0 /\ evicted[f] = 0
  BY DEF LogInit, RequestSeries
<1>2. DOMAIN Count(NewCounters) = {}
  BY DEF Count, NewCounters
<1>3. SumFunction(Count(NewCounters)) = 0
  BY <1>2, SumEmpty DEF SumFunction
<1>4. \A f : SeriesOf(requests, StatusesOf(f)) = {}
  BY <1>1 DEF SeriesOf, RequestSeries
<1>5. \A f : Requested(requests, StatusesOf(f)) = 0
  BY <1>4, SumEmpty DEF Requested
<1>6. Weighs(requests, RequestSeries)
  BY <1>1 DEF Weighs
<1> QED
  BY <1>1, <1>3, <1>5, <1>6 DEF CountInv

\* Every step conserves what is counted.
LEMMA CountStep == LogInv /\ CountInv /\ [LogNext]_logVars => CountInv'
<1> SUFFICES ASSUME LogInv, CountInv, [LogNext]_logVars PROVE CountInv'
  OBVIOUS
<1>0. ASSUME UNCHANGED metrics, stage' = "start" => stage = "start",
             stage = "start" \/ collector' = collector
      PROVE  CountInv'
  <2>1. /\ requests' = requests /\ uris' = uris /\ hits' = hits /\ evicted' = evicted
        /\ RequestSeries' = RequestSeries
    BY <1>0 DEF metrics, RequestSeries
  <2>2. \A f : Requested(requests', StatusesOf(f)) = Requested(requests, StatusesOf(f))
    BY <2>1 DEF Requested, SeriesOf, StatusesOf
  <2>3. ASSUME NEW f \in Families, stage = "start"
        PROVE  hits[f] <= Requested(requests, StatusesOf(f))
    <3>1. SeriesOf(requests, StatusesOf(f)) = {} /\ hits[f] = 0
      BY <2>3 DEF LogInv, CountInv, SeriesOf, RequestSeries
    <3> QED
      BY <3>1, SumEmpty DEF Requested
  <2>4. stage # "start" => Tagged' = Tagged
    BY <1>0 DEF Tagged
  <2> QED
    BY <1>0, <2>1, <2>2, <2>3, <2>4 DEF CountInv
<1> USE DEF tails
<1>1. CASE LogRegister
  BY <1>0, <1>1 DEF LogRegister, RegisterCollectors, RegisterBotLogs, RegisterWebLogs,
     StartTailing
<1>2. ASSUME NEW path \in tailing,
             \/ \E request \in host.requests : TailRead(path, request)
             \/ TailSend(path)
             \/ TailStop(path)
      PROVE  CountInv'
  BY <1>0, <1>2 DEF TailRead, TailSend, TailStop
<1>3. CASE Process
  <2> DEFINE line == fillLine(ParserFormat(Head(lines).path), Head(lines).request)
  <2>1. UNCHANGED <<stage, collector, now>> /\ stage = "tailing"
    BY <1>3 DEF Process
  <2>2. UNCHANGED metrics \/ recordLine(line)
    BY <1>3 DEF Process
  <2> HIDE DEF line
  <2> QED
    BY <1>0, <2>1, <2>2, RecordCounts
<1>4. CASE CollectorReturns
  BY <1>0, <1>4 DEF CollectorReturns
<1>5. CASE Tick \/ Cancel
  BY <1>0, <1>5 DEF Tick, Cancel
<1>6. CASE UNCHANGED logVars
  BY <1>0, <1>6 DEF logVars
<1> QED
  BY <1>1, <1>2, <1>3, <1>4, <1>5, <1>6 DEF LogNext, LogStep

\* Every line is counted once, and the requests are never below the 4xx or 5xx.
THEOREM CountSafety == LogSpec => []CountsConserved
<1>1. LogSpec => []LogInv
  BY LogInvInit, LogInvStep, PTL DEF LogSpec
<1>2. LogSpec => []CountInv
  BY <1>1, CountInit, CountStep, PTL DEF LogSpec
<1>3. CountInv => CountsConserved
  BY DEF CountInv, CountsConserved, Requested, SeriesOf, RequestSeries, StatusesOf
<1> QED
  BY <1>2, <1>3, PTL

-----------------------------------------------------------------------------
(* Types *)

IsSequence(s) == \E S : s \in Seq(S)

\* LogTypeOK, besides what LogInv says, with lines a sequence and no log tailed
\* before the collector is there.
LogTypeInv ==
    /\ stage \in {"start", "collectors", "bots", "webs", "tailing", "none", "returned"}
    /\ collector.on \in BOOLEAN /\ ctxDone \in BOOLEAN /\ panicked \in BOOLEAN
    /\ written \in Nat
    /\ Len(lines) <= ChanCap /\ IsSequence(lines)
    /\ tailing \subseteq ToSet(collector.cfg.paths)
    /\ stage = "start" => tailing = {}

\* The first state is typed.
LEMMA LogTypeInit == LogInit => LogTypeInv
<1> SUFFICES ASSUME LogInit PROVE LogTypeInv
  OBVIOUS
<1>1. lines \in Seq({}) /\ Len(lines) = 0
  BY DEF LogInit
<1>2. collector.on \in BOOLEAN /\ ctxDone \in BOOLEAN /\ panicked \in BOOLEAN
  BY DEF LogInit, NoCollector
<1>3. stage = "start" /\ tailing = {}
  BY DEF LogInit
<1>4. written \in Nat /\ Len(lines) <= ChanCap /\ IsSequence(lines)
  BY <1>1, LogAssumption DEF LogInit, IsSequence
<1> QED
  BY <1>2, <1>3, <1>4 DEF LogTypeInv

\* Every step keeps the types.
LEMMA LogTypeStep == LogTypeInv /\ [LogNext]_logVars => LogTypeInv'
<1> SUFFICES ASSUME LogTypeInv, [LogNext]_logVars PROVE LogTypeInv'
  OBVIOUS
<1>0. ASSUME ctxDone' \in BOOLEAN, panicked' \in BOOLEAN,
             written' \in Nat, lines' = lines,
             collector' = collector, tailing' \subseteq ToSet(collector.cfg.paths),
             \/ stage' = stage /\ (stage = "start" => tailing' = {})
             \/ stage' \in {"bots", "webs", "tailing", "none", "returned"}
      PROVE  LogTypeInv'
  BY <1>0 DEF LogTypeInv
<1> USE DEF observers, metrics, tails
<1>1. CASE LogRegister
  <2>1. CASE RegisterCollectors
    <3>1. /\ UNCHANGED <<host, ctxDone, panicked, written, lines, tailing>>
          /\ collector'.on \in BOOLEAN /\ stage' = "collectors" /\ tailing = {}
      <4>1. collector' = collector \/ collector'.on = TRUE
        BY <2>1 DEF RegisterCollectors
      <4> QED
        BY <2>1, <4>1 DEF RegisterCollectors, LogTypeInv
    <3> QED
      BY <3>1 DEF LogTypeInv
  <2>2. CASE RegisterBotLogs
    BY <1>0, <2>2 DEF RegisterBotLogs, LogTypeInv
  <2>3. CASE RegisterWebLogs
    BY <1>0, <2>3 DEF RegisterWebLogs, LogTypeInv
  <2>4. CASE StartTailing
    BY <1>0, <2>4 DEF StartTailing, LogTypeInv
  <2> QED
    BY <1>1, <2>1, <2>2, <2>3, <2>4 DEF LogRegister
<1>2. ASSUME NEW path \in tailing, NEW request, TailRead(path, request)
      PROVE  LogTypeInv'
  BY <1>0, <1>2 DEF TailRead, LogTypeInv
<1>3. ASSUME NEW path \in tailing, TailSend(path) PROVE LogTypeInv'
  <2> DEFINE x == [path |-> path, request |-> Head(hand[path])]
  <2>1. /\ lines' = Append(lines, x) /\ Len(lines) < ChanCap
        /\ UNCHANGED <<host, stage, collector, ctxDone, tailing, panicked, written>>
    BY <1>3 DEF TailSend
  <2> HIDE DEF x
  <2>2. PICK S : lines \in Seq(S)
    BY DEF LogTypeInv, IsSequence
  <2>3. lines \in Seq(S \cup {x})
    BY <2>2
  <2>4. Append(lines, x) \in Seq(S \cup {x}) /\ Len(Append(lines, x)) = Len(lines) + 1
    BY <2>3
  <2>5. IsSequence(lines')
    BY <2>1, <2>4 DEF IsSequence
  <2>6. Len(lines') <= ChanCap
    BY <2>1, <2>2, <2>4, LogAssumption
  <2> QED
    BY <2>1, <2>5, <2>6 DEF LogTypeInv
<1>4. ASSUME NEW path \in tailing, TailStop(path) PROVE LogTypeInv'
  BY <1>0, <1>4 DEF TailStop, LogTypeInv
<1>5. CASE Process
  <2>1. /\ lines' = Tail(lines) /\ lines # <<>>
        /\ UNCHANGED <<host, stage, collector, ctxDone, tailing, written>>
        /\ panicked' \in BOOLEAN
    BY <1>5 DEF Process, LogTypeInv
  <2>2. PICK S : lines \in Seq(S)
    BY DEF LogTypeInv, IsSequence
  <2>3. Tail(lines) \in Seq(S) /\ Len(Tail(lines)) <= ChanCap
    BY <2>1, <2>2, LogAssumption DEF LogTypeInv
  <2>4. IsSequence(lines')
    BY <2>1, <2>3 DEF IsSequence
  <2> QED
    BY <2>1, <2>3, <2>4 DEF LogTypeInv
<1>6. CASE CollectorReturns
  BY <1>0, <1>6 DEF CollectorReturns, LogTypeInv
<1>7. CASE Tick \/ Cancel
  BY <1>0, <1>7 DEF Tick, Cancel, LogTypeInv
<1>8. CASE UNCHANGED logVars
  BY <1>0, <1>8 DEF logVars, LogTypeInv
<1> QED
  BY <1>1, <1>2, <1>3, <1>4, <1>5, <1>6, <1>7, <1>8 DEF LogNext, LogStep

\* Every variable of the access logs keeps its type.
THEOREM LogTypeCorrect == LogSpec => []LogTypeOK
<1>1. LogSpec => []LogInv
  BY LogInvInit, LogInvStep, PTL DEF LogSpec
<1>2. LogSpec => []LogTypeInv
  BY LogTypeInit, LogTypeStep, PTL DEF LogSpec
<1>3. LogInv /\ LogTypeInv => LogTypeOK
  BY DEF LogInv, LogTypeInv, LogTypeOK, Sound
<1> QED
  BY <1>1, <1>2, <1>3, PTL
-----------------------------------------------------------------------------
(* Folds over sequences *)

\* Some indices of a sequence have a greatest.
LEMMA GreatestOf ==
    ASSUME NEW n \in Nat, NEW T \in SUBSET (1..n), T # {}
    PROVE  Max(T) \in T /\ \A y \in T : y <= Max(T)
<1> DEFINE R == {n - x : x \in T}
<1>1. R \subseteq Nat /\ R # {}
  <2>1. \A x \in T : n - x \in Nat
    OBVIOUS
  <2> QED
    BY <2>1
<1>2. PICK m \in R : \A y \in R : m <= y
  BY <1>1, LeastNatural
<1>3. PICK x \in T : m = n - x
  BY <1>2
<1>4. ASSUME NEW y \in T PROVE y <= x
  <2>1. m <= n - y
    BY <1>2
  <2> QED
    BY <1>3, <2>1
<1> QED
  BY <1>4 DEF Max

\* g collects the elements of seq that are not to be skipped.
Collects(g, seq, Skip) ==
    /\ g[{}] = <<>>
    /\ \A s \in SUBSET DOMAIN seq : s # {} =>
        \/ /\ g[s] = g[s \ {Max(s)}]
           /\ seq[Max(s)] \in ToSet(g[s \ {Max(s)}]) \cup Skip
        \/ g[s] = Append(g[s \ {Max(s)}], seq[Max(s)])

\* It yields a sequence that has all of them.
LEMMA CollectsAll ==
    ASSUME NEW T, NEW seq \in Seq(T), NEW Skip, NEW g, Collects(g, seq, Skip)
    PROVE  /\ g[DOMAIN seq] \in Seq(T)
           /\ \A i \in DOMAIN seq : seq[i] \in ToSet(g[DOMAIN seq]) \cup Skip
<1> DEFINE S == DOMAIN seq
           c == [s \in SUBSET S |-> Max(s)]
           P == {s \in SUBSET S : /\ g[s] \in Seq(T)
                                  /\ \A i \in s : seq[i] \in ToSet(g[s]) \cup Skip}
<1>1. IsFiniteSet(S) /\ S = 1..Len(seq) /\ Len(seq) \in Nat
  BY FS_Interval
<1>2. Picks(c, S)
  BY <1>1, GreatestOf DEF Picks
<1>3. {} \in P
  <2>1. g[{}] = <<>> /\ <<>> \in Seq(T)
    BY DEF Collects
  <2> QED
    BY <2>1
<1>4. ASSUME NEW s \in SUBSET S, s # {}, s \ {c[s]} \in P
      PROVE  s \in P
  <2> DEFINE x == Max(s)
             old == g[s \ {x}]
  <2>1. x \in s /\ c[s] = x
    BY <1>2, <1>4 DEF Picks
  <2>2. old \in Seq(T) /\ \A i \in s \ {x} : seq[i] \in ToSet(old) \cup Skip
    BY <1>4, <2>1
  <2>3. \/ g[s] = old /\ seq[x] \in ToSet(old) \cup Skip
        \/ g[s] = Append(old, seq[x])
    BY <1>4 DEF Collects
  <2>4. seq[x] \in T
    BY <1>1, <2>1
  <2> HIDE DEF x, old
  <2>5. CASE g[s] = old /\ seq[x] \in ToSet(old) \cup Skip
    BY <2>2, <2>5
  <2>6. CASE g[s] = Append(old, seq[x])
    <3>1. g[s] \in Seq(T)
      BY <2>2, <2>4, <2>6
    <3>2. /\ Len(g[s]) = Len(old) + 1 /\ Len(old) \in Nat
          /\ DOMAIN g[s] = 1..Len(g[s]) /\ DOMAIN old = 1..Len(old)
          /\ \A i \in 1..Len(old) : g[s][i] = old[i]
          /\ g[s][Len(g[s])] = seq[x]
      BY <2>2, <2>4, <2>6
    <3>3. ToSet(old) \subseteq ToSet(g[s]) /\ seq[x] \in ToSet(g[s])
      BY <3>2 DEF ToSet
    <3>4. \A i \in s : seq[i] \in ToSet(g[s]) \cup Skip
      BY <2>2, <3>3
    <3> QED
      BY <3>1, <3>4
  <2> QED
    BY <2>3, <2>5, <2>6
<1>5. Climbs(P, S, c)
  <2> HIDE DEF P, c
  <2> QED
    BY <1>4 DEF Climbs
<1>6. SUBSET S \subseteq P
  <2> HIDE DEF P, c
  <2> QED
    BY <1>1, <1>2, <1>3, <1>5, SubsetsByChoice
<1> QED
  BY <1>6

\* How Unique and Names collect: a step of either.
UniqueStep(out, x) == IF x \in ToSet(out) THEN out ELSE Append(out, x)
NamesStep(out, x)  == IF x = "" THEN out ELSE Append(out, x)

UniqueFolds(g, seq) ==
    g = [s \in SUBSET DOMAIN seq |->
            IF s = {} THEN <<>>
            ELSE UniqueStep(g[s \ {Max(s)}], seq[Max(s)])]
NamesFolds(g, seq) ==
    g = [s \in SUBSET DOMAIN seq |->
            IF s = {} THEN <<>>
            ELSE NamesStep(g[s \ {Max(s)}], seq[Max(s)])]

\* Unique loses no element.
LEMMA UniqueHas ==
    ASSUME NEW T, NEW seq \in Seq(T)
    PROVE  /\ Unique(seq) \in Seq(T)
           /\ \A i \in DOMAIN seq : seq[i] \in ToSet(Unique(seq))
<1> DEFINE S == DOMAIN seq
           V == Seq(T)
           c == [s \in SUBSET S |-> Max(s)]
           step == [p \in S \X V |-> UniqueStep(p[2], seq[p[1]])]
<1>1. IsFiniteSet(S) /\ S = 1..Len(seq) /\ Len(seq) \in Nat
  BY FS_Interval
<1>2. Picks(c, S)
  BY <1>1, GreatestOf DEF Picks
<1>3. step \in [S \X V -> V]
  <2>1. ASSUME NEW i \in S, NEW v \in V PROVE UniqueStep(v, seq[i]) \in V
    <3>1. seq[i] \in T
      BY <1>1
    <3> QED
      BY <3>1 DEF UniqueStep
  <2> QED
    BY <2>1
<1>4. \E g : UniqueFolds(g, seq)
  <2>1. <<>> \in V
    OBVIOUS
  <2>2. PICK g \in [SUBSET S -> V] : Folds(g, S, c, <<>>, step)
    <3> HIDE DEF S, V, c, step
    <3> QED
      BY <1>1, <1>2, <1>3, <2>1, FoldExists
  <2>3. ASSUME NEW s \in SUBSET S, s # {}
        PROVE  step[<<c[s], g[s \ {c[s]}]>>] = UniqueStep(g[s \ {Max(s)}], seq[Max(s)])
    <3>1. c[s] \in S /\ g[s \ {c[s]}] \in V
      BY <1>2, <2>3 DEF Picks
    <3>2. c[s] = Max(s)
      OBVIOUS
    <3> QED
      BY <3>1, <3>2
  <2> HIDE DEF c, step, V
  <2>4. UniqueFolds(g, seq)
    BY <2>2, <2>3 DEF Folds, UniqueFolds
  <2> QED
    BY <2>4
<1>5. PICK g : UniqueFolds(g, seq) /\ Unique(seq) = g[S]
  BY <1>4 DEF Unique, FoldLeft, MapThenFoldSet, UniqueFolds, UniqueStep
<1>6. Collects(g, seq, {})
  <2>1. g[{}] = <<>>
    BY <1>5 DEF UniqueFolds
  <2>2. ASSUME NEW s \in SUBSET S, s # {}
        PROVE  \/ /\ g[s] = g[s \ {Max(s)}]
                  /\ seq[Max(s)] \in ToSet(g[s \ {Max(s)}]) \cup {}
               \/ g[s] = Append(g[s \ {Max(s)}], seq[Max(s)])
    BY <1>5, <2>2 DEF UniqueFolds, UniqueStep
  <2> QED
    BY <2>1, <2>2 DEF Collects
<1> QED
  BY <1>5, <1>6, CollectsAll

\* Names drops nothing but empty names.
LEMMA NamesHas ==
    ASSUME NEW a
    PROVE  /\ \E T : Names(a) \in Seq(T)
           /\ a.UserAgent # "" => a.UserAgent \in ToSet(Names(a))
<1> DEFINE seq == <<a.UserAgent, a.Host, a.ServerName, a.RemoteAddr, a.Referer>>
           T == {a.UserAgent, a.Host, a.ServerName, a.RemoteAddr, a.Referer}
           S == DOMAIN seq
           V == Seq(T)
           c == [s \in SUBSET S |-> Max(s)]
           step == [p \in S \X V |-> NamesStep(p[2], seq[p[1]])]
<1>0. seq \in Seq(T) /\ 1 \in S /\ seq[1] = a.UserAgent
  OBVIOUS
<1> HIDE DEF seq, T
<1>1. IsFiniteSet(S) /\ S = 1..Len(seq) /\ Len(seq) \in Nat
  BY <1>0, FS_Interval
<1>2. Picks(c, S)
  BY <1>1, GreatestOf DEF Picks
<1>3. step \in [S \X V -> V]
  <2>1. ASSUME NEW i \in S, NEW v \in V PROVE NamesStep(v, seq[i]) \in V
    <3>1. seq[i] \in T
      BY <1>0, <1>1
    <3>2. v \in V /\ Append(v, seq[i]) \in V
      BY <3>1
    <3> HIDE DEF V
    <3> QED
      BY <3>2 DEF NamesStep
  <2> QED
    BY <2>1
<1>4. \E g : NamesFolds(g, seq)
  <2>1. <<>> \in V
    OBVIOUS
  <2>2. PICK g \in [SUBSET S -> V] : Folds(g, S, c, <<>>, step)
    <3> HIDE DEF S, V, c, step
    <3> QED
      BY <1>1, <1>2, <1>3, <2>1, FoldExists
  <2>3. ASSUME NEW s \in SUBSET S, s # {}
        PROVE  step[<<c[s], g[s \ {c[s]}]>>] = NamesStep(g[s \ {Max(s)}], seq[Max(s)])
    <3>1. c[s] \in S /\ g[s \ {c[s]}] \in V
      BY <1>2, <2>3 DEF Picks
    <3>2. c[s] = Max(s)
      OBVIOUS
    <3> QED
      BY <3>1, <3>2
  <2> HIDE DEF c, step, V
  <2>4. NamesFolds(g, seq)
    BY <2>2, <2>3 DEF Folds, NamesFolds
  <2> QED
    BY <2>4
<1>5. PICK g : NamesFolds(g, seq) /\ Names(a) = g[S]
  BY <1>4 DEF Names, seq, FoldLeft, MapThenFoldSet, NamesFolds, NamesStep
<1>6. Collects(g, seq, {""})
  <2>1. g[{}] = <<>>
    BY <1>5 DEF NamesFolds
  <2>2. ASSUME NEW s \in SUBSET S, s # {}
        PROVE  \/ /\ g[s] = g[s \ {Max(s)}]
                  /\ seq[Max(s)] \in ToSet(g[s \ {Max(s)}]) \cup {""}
               \/ g[s] = Append(g[s \ {Max(s)}], seq[Max(s)])
    BY <1>5, <2>2 DEF NamesFolds, NamesStep
  <2> QED
    BY <2>1, <2>2 DEF Collects
<1> QED
  <2>1. /\ g[S] \in Seq(T)
        /\ \A i \in S : seq[i] \in ToSet(g[S]) \cup {""}
    BY <1>0, <1>6, CollectsAll
  <2>2. Names(a) \in Seq(T)
    BY <1>5, <2>1
  <2>3. a.UserAgent \in ToSet(Names(a)) \cup {""}
    BY <1>0, <1>5, <2>1
  <2> QED
    BY <2>2, <2>3

-----------------------------------------------------------------------------
(* The fields of a line *)

\* The first of some indices.
LEMMA LeastOf ==
    ASSUME NEW T, T \subseteq Nat, T # {}
    PROVE  Min(T) \in T
  BY LeastNatural DEF Min

\* The indices of a sequence.
LEMMA Indices ==
    ASSUME NEW T, NEW s \in Seq(T)
    PROVE  /\ DOMAIN s = 1..Len(s) /\ Len(s) \in Nat
           /\ 1..Len(s) \subseteq Nat \ {0}
  OBVIOUS

\* IndexOf finds a name that is there.
LEMMA IndexFinds ==
    ASSUME NEW T, NEW seq \in Seq(T), NEW name \in ToSet(seq), name # ""
    PROVE  /\ IndexOf(seq, name) \in 1..Len(seq)
           /\ seq[IndexOf(seq, name)] = name
<1> DEFINE I == {i \in 1..Len(seq) : seq[i] = name}
<1>1. I # {} /\ I \subseteq Nat
  <2>1. PICK i \in DOMAIN seq : name = seq[i]
    BY DEF ToSet
  <2>2. DOMAIN seq = 1..Len(seq) /\ 1..Len(seq) \subseteq Nat
    BY Indices
  <2>3. i \in I
    BY <2>1, <2>2
  <2>4. I \subseteq Nat
    BY <2>2
  <2> QED
    BY <2>3, <2>4
<1>2. Min(I) \in I
  <2> HIDE DEF I
  <2> QED
    BY <1>1, LeastOf
<1>3. IndexOf(seq, name) = Min(I)
  BY <1>1 DEF IndexOf, SelectInSeq
<1> QED
  BY <1>2, <1>3

\* FirstIn finds a member when there is one.
LEMMA FirstFinds ==
    ASSUME NEW T, NEW seq \in Seq(T), NEW S, NEW i \in DOMAIN seq, seq[i] \in S
    PROVE  FirstIn(seq, S) \in ToSet(seq) \cap S
<1> DEFINE I == {j \in 1..Len(seq) : seq[j] \in S}
<1>1. i \in I /\ I \subseteq Nat
  OBVIOUS
<1>2. Min(I) \in I
  <2> HIDE DEF I
  <2> QED
    BY <1>1, LeastOf
<1>3. FirstIn(seq, S) = seq[Min(I)]
  <2>1. SelectInSeq(seq, LAMBDA x : x \in S) = Min(I)
    BY <1>1 DEF SelectInSeq
  <2>2. Min(I) # 0
    BY <1>2
  <2> QED
    BY <2>1, <2>2 DEF FirstIn
<1>4. Min(I) \in DOMAIN seq /\ seq[Min(I)] \in S
  BY <1>2
<1> QED
  BY <1>3, <1>4 DEF ToSet

\* And when there is none it says so.
LEMMA FirstMisses ==
    ASSUME NEW seq, NEW S, \A i \in 1..Len(seq) : seq[i] \notin S
    PROVE  FirstIn(seq, S) = ""
<1>1. {i \in 1..Len(seq) : seq[i] \in S} = {}
  OBVIOUS
<1> QED
  BY <1>1 DEF FirstIn, SelectInSeq

\* The name is the variable's own for the parser too, unless it takes a text for
\* JSON.
LEMMA OwnName ==
    ASSUME NEW path, NEW v, HasOwn(path, v), ~Misread(path)
    PROVE  LET format == ParserFormat(path)
           IN  /\ v # "" => format.name[v] # ""
               /\ {w \in Vars(format) : format.name[w] = format.name[v]} = {v}
<1> DEFINE format == ParserFormat(path)
<1>1. CASE format.json
  BY <1>1 DEF HasOwn
<1>2. CASE ~format.json
  <2>1. \A w \in Vars(format) : format.name[w] = w
    <3>1. CASE FormatOf(collector.cfg, path) = NoFormat
      BY <3>1 DEF ParserFormat, DefaultLogFormat, Text, Vars
    <3>2. CASE FormatOf(collector.cfg, path) # NoFormat
      <4>1. format = FormatOf(collector.cfg, path)
        BY <3>2 DEF ParserFormat
      <4>2. path \notin collector.cfg.json
        BY <1>2, <4>1 DEF Misread
      <4> DEFINE raw == IF path \in DOMAIN collector.cfg.formats
                        THEN collector.cfg.formats[path] ELSE collector.cfg.format
      <4> HIDE DEF raw
      <4>3. FormatOf(collector.cfg, path) = AsRead(raw, path \in collector.cfg.json)
        BY DEF FormatOf, raw
      <4>4. format.name = [w \in Vars(raw) |-> w]
        BY <4>1, <4>2, <4>3 DEF AsRead
      <4> HIDE DEF format
      <4> QED
        BY <4>4 DEF Vars
    <3> QED
      BY <3>1, <3>2
  <2> QED
    BY <2>1 DEF HasOwn
<1> QED
  BY <1>1, <1>2

\* A variable that has a name of its own is what the parser finds under it.
LEMMA OwnField ==
    ASSUME NEW path, NEW v, HasOwn(path, v), ~Misread(path), NEW request
    PROVE  Field(ParserFormat(path), request, ParserFormat(path).name[v])
               = Value(request, v)
<1> DEFINE format == ParserFormat(path)
           vars == {w \in Vars(format) : format.name[w] = format.name[v]}
<1>1. vars = {v}
  BY OwnName
<1> QED
  BY <1>1 DEF Field

\* The extra that an observer looks up is the field under the name.
LEMMA ExtraField ==
    ASSUME NEW T, collector.extract \in Seq(T), NEW name \in ToSet(collector.extract),
           name # "", NEW format, NEW request
    PROVE  Extra(fillLine(format, request), IndexOf(collector.extract, name))
               = Field(format, request, name)
<1> DEFINE i == IndexOf(collector.extract, name)
<1>1. i \in 1..Len(collector.extract) /\ collector.extract[i] = name
  BY IndexFinds
<1>2. i \in Nat \ {0}
  <2>1. 1..Len(collector.extract) \subseteq Nat \ {0}
    BY Indices
  <2> HIDE DEF i
  <2> QED
    BY <1>1, <2>1
<1> HIDE DEF i
<1>3. fillLine(format, request).extras[i] = Field(format, request, name)
  BY <1>1 DEF fillLine
<1> QED
  BY <1>2, <1>3 DEF Extra, i

\* Two sequences in one.
LEMMA JoinHas ==
    ASSUME NEW T, NEW s \in Seq(T), NEW t \in Seq(T)
    PROVE  /\ s \o t \in Seq(T)
           /\ ToSet(s) \subseteq ToSet(s \o t)
           /\ ToSet(t) \subseteq ToSet(s \o t)
<1>1. /\ s \o t \in Seq(T) /\ Len(s \o t) = Len(s) + Len(t)
      /\ Len(s) \in Nat /\ Len(t) \in Nat
      /\ DOMAIN s = 1..Len(s) /\ DOMAIN t = 1..Len(t)
      /\ DOMAIN (s \o t) = 1..(Len(s) + Len(t))
      /\ \A i \in 1..Len(s) : (s \o t)[i] = s[i]
  OBVIOUS
<1>2. \A i \in 1..Len(t) : (s \o t)[Len(s) + i] = t[i]
  OBVIOUS
<1>3. ASSUME NEW i \in 1..Len(t) PROVE Len(s) + i \in DOMAIN (s \o t)
  BY <1>1
<1>4. ASSUME NEW i \in 1..Len(s) PROVE i \in DOMAIN (s \o t)
  BY <1>1
<1> QED
  BY <1>1, <1>2, <1>3, <1>4 DEF ToSet

\* What the collector reads has the names that the streams need.
LEMMA ExtractHas ==
    ASSUME host \in Setups, StreamsEnabled, NEW aliases
    PROVE  /\ \E T : ExtractFields(aliases) \in Seq(T)
           /\ aliases.UserAgent # "" =>
                 aliases.UserAgent \in ToSet(ExtractFields(aliases))
           /\ host.web.enabled => ProxyHost \in ToSet(ExtractFields(aliases))
<1> DEFINE names == Names(aliases)
           web_ == IF host.web.enabled THEN <<ProxyHost>> ELSE <<>>
           needed == names \o web_
           all == ExtraLabels \o needed
<1>1. PICK A : names \in Seq(A)
  BY NamesHas
<1>2. ExtraLabels \in Seq(ToSet(ExtraLabels))
  <2>1. WebServer \in {host.angie, host.nginx}
    BY DEF WebServer
  <2>2. WebServer.labels \in Seq(ToSet(WebServer.labels))
    BY <2>1, SetupAssumption
  <2>3. <<>> \in Seq(ToSet(<<>>))
    OBVIOUS
  <2> QED
    BY <2>2, <2>3 DEF ExtraLabels
<1>3. web_ \in Seq({ProxyHost})
  <2>1. <<>> \in Seq({ProxyHost}) /\ <<ProxyHost>> \in Seq({ProxyHost})
    OBVIOUS
  <2> QED
    BY <2>1
<1> DEFINE T == A \cup {ProxyHost} \cup ToSet(ExtraLabels)
<1>4. names \in Seq(T) /\ web_ \in Seq(T) /\ ExtraLabels \in Seq(T)
  <2> HIDE DEF names, web_
  <2> QED
    BY <1>1, <1>2, <1>3
<1>5. aliases.UserAgent # "" => aliases.UserAgent \in ToSet(names)
  BY NamesHas
<1>6. host.web.enabled => ProxyHost \in ToSet(web_)
  BY DEF ToSet
<1> HIDE DEF names, web_, T
<1>7. needed \in Seq(T) /\ ToSet(names) \subseteq ToSet(needed)
      /\ ToSet(web_) \subseteq ToSet(needed)
  BY <1>4, JoinHas
<1> HIDE DEF needed
<1>8. all \in Seq(T) /\ ToSet(needed) \subseteq ToSet(all)
  BY <1>4, <1>7, JoinHas
<1>9. ExtractFields(aliases) = Unique(all)
  BY DEF ExtractFields, mergeUnique, RequiredFields, needed, names, web_
<1> HIDE DEF all
<1>10. Unique(all) \in Seq(T) /\ ToSet(all) \subseteq ToSet(Unique(all))
  BY <1>8, UniqueHas DEF ToSet
<1> QED
  BY <1>5, <1>6, <1>7, <1>8, <1>9, <1>10

-----------------------------------------------------------------------------
(* The wiring of the observers *)

\* The collector and the observers were made from the host, and their warnings
\* told.
CollectorWired ==
    /\ collector.aliases = Aliases(collector.cfg)
    /\ collector.extract = Capped(ExtractFields(collector.aliases))
    /\ CollectorWarnings(collector.cfg, collector.aliases,
                         ExtractFields(collector.aliases)) \subseteq warned

BotWired ==
    /\ collector.on /\ host.bot.enabled
    /\ bot.idxUA = IndexOf(collector.extract, collector.aliases.UserAgent)

WebWired ==
    /\ collector.on /\ host.web.enabled
    /\ web.paths = Accepted
    /\ web.requireUpstream <=> /\ host.web.requireUpstream
                               /\ EveryCarries("upstream_response_time")
    /\ web.upstreams <=> host.web.upstreams /= {} /\ EveryCarries(ProxyHost)
    /\ web.idxProxyHost = IndexOf(collector.extract, ProxyHost)
    /\ FormatWarnings \subseteq warned

\* The line handled last is one of a log of the collector, and became what the
\* observers make of it, if it was parsed.
LastWired ==
    LET line == fillLine(ParserFormat(last.path), last.request)
    IN  /\ last.path \in ToSet(collector.cfg.paths)
        /\ IF Unparsed(last.path, last.request)
           THEN last.bot = FALSE /\ last.web = "unparsed"
           ELSE last.bot = BotShips(line) /\ last.web = WebOutcome(line, last.path)

Wired ==
    /\ host \in Setups
    /\ collector.on => CollectorWired
    /\ bot.on => BotWired
    /\ web.on => WebWired
    /\ \A i \in DOMAIN lines : lines[i].path \in ToSet(collector.cfg.paths)
    /\ last # Nothing => LastWired
    /\ stage \in {"start", "collectors", "bots", "webs"} =>
        tailing = {} /\ lines = <<>> /\ last = Nothing
    /\ stage \in {"start", "collectors", "bots"} => ~web.on
    /\ stage \in {"start", "collectors"} => ~bot.on
    /\ stage = "start" => ~collector.on

\* Nothing is wired at first.
LEMMA WiredInit == LogInit => Wired
  BY DEF LogInit, Wired, NoCollector, NoBot, NoWeb

\* What depends on the host and the collector, which are made once, stays as other
\* warnings are told.
LEMMA WiredFrame ==
    ASSUME UNCHANGED <<host, collector>>, warned \subseteq warned'
    PROVE  /\ CollectorWired => CollectorWired'
           /\ BotWired /\ bot' = bot => BotWired'
           /\ WebWired /\ web' = web => WebWired'
<1>1. CollectorWired => CollectorWired'
  <2>1. Aliases(collector.cfg)' = Aliases(collector.cfg)
    BY DEF Aliases, StreamsEnabled, Resolved
  <2>2. ExtractFields(collector.aliases)' = ExtractFields(collector.aliases)
    BY DEF ExtractFields, ExtraLabels, WebServer, RequiredFields, StreamsEnabled
  <2>3. Mismatched(collector.cfg)' = Mismatched(collector.cfg)
    BY <2>1 DEF Mismatched, Resolved
  <2>4. CollectorWarnings(collector.cfg, collector.aliases,
                          ExtractFields(collector.aliases))'
            = CollectorWarnings(collector.cfg, collector.aliases,
                                ExtractFields(collector.aliases))
    BY <2>2, <2>3 DEF CollectorWarnings, ExtraLabels, WebServer, StreamsEnabled
  <2> QED
    BY <2>1, <2>2, <2>4 DEF CollectorWired
<1>2. BotWired /\ bot' = bot => BotWired'
  BY DEF BotWired
<1>3. WebWired /\ web' = web => WebWired'
  <2>1. /\ Accepted' = Accepted /\ FormatWarnings' = FormatWarnings
        /\ EveryCarries("upstream_response_time")' = EveryCarries("upstream_response_time")
        /\ EveryCarries(ProxyHost)' = EveryCarries(ProxyHost)
    BY DEF Accepted, Known, Fatal, NoClientIP, VarsOf, EveryCarries, FormatWarnings, Advice
  <2> QED
    BY <2>1 DEF WebWired
<1> QED
  BY <1>1, <1>2, <1>3

\* And what became of the line handled last.
LEMMA LastFrame ==
    ASSUME UNCHANGED <<host, collector, bot, web, last>>
    PROVE  LastWired' <=> LastWired
<1> DEFINE line == fillLine(ParserFormat(last.path), last.request)
<1>1. ParserFormat(last.path)' = ParserFormat(last.path)
  BY DEF ParserFormat
<1>2. line' = line
  BY <1>1 DEF fillLine, SelectInSeq
<1> HIDE DEF line
<1>3. BotShips(line)' = BotShips(line)
  BY <1>2 DEF BotShips
<1>4. WebOutcome(line, last.path)' = WebOutcome(line, last.path)
  BY <1>2 DEF WebOutcome
<1>5. Unparsed(last.path, last.request)' = Unparsed(last.path, last.request)
  BY DEF Unparsed, Misread
<1> QED
  BY <1>2, <1>3, <1>4, <1>5 DEF LastWired, line

\* what is appended to a sequence is its last member
LEMMA Appended ==
    ASSUME NEW S, NEW seq \in Seq(S), NEW x, NEW i \in DOMAIN Append(seq, x)
    PROVE  \/ Append(seq, x)[i] = x
           \/ /\ i \in DOMAIN seq
              /\ Append(seq, x)[i] = seq[i]
<1>1. seq \in Seq(S \cup {x})
  OBVIOUS
<1>2. i \in 1..(Len(seq) + 1) /\ Len(seq) \in Nat /\ DOMAIN seq = 1..Len(seq)
  BY <1>1
<1>3. Append(seq, x)[Len(seq) + 1] = x
  BY <1>1
<1>4. ASSUME i \in 1..Len(seq) PROVE Append(seq, x)[i] = seq[i]
  BY <1>1, <1>4
<1>5. i = Len(seq) + 1 \/ i \in 1..Len(seq)
  BY <1>2
<1>6. CASE i = Len(seq) + 1
  BY <1>3, <1>6
<1> QED
  BY <1>2, <1>4, <1>5, <1>6

\* Every step keeps the wiring.
LEMMA WiredStep == LogTypeInv /\ Wired /\ [LogNext]_logVars => Wired'
<1> SUFFICES ASSUME LogTypeInv, Wired, [LogNext]_logVars PROVE Wired'
  OBVIOUS
<1>0. ASSUME UNCHANGED <<host, collector, bot, web, warned, last>>,
             \A i \in DOMAIN lines' : lines'[i].path \in ToSet(collector.cfg.paths),
             \/ stage' = stage /\ lines' = lines /\ tailing' \subseteq tailing
             \/ stage' \in {"tailing", "none", "returned"}
      PROVE  Wired'
  <2>1. /\ CollectorWired => CollectorWired'
        /\ BotWired => BotWired'
        /\ WebWired => WebWired'
        /\ LastWired => LastWired'
    BY <1>0, WiredFrame, LastFrame
  <2> QED
    BY <1>0, <2>1 DEF Wired
<1>1. CASE RegisterCollectors
  <2>1. /\ stage = "start" /\ stage' = "collectors" /\ host' = host
        /\ UNCHANGED <<bot, web, tailing, lines, last>>
    BY <1>1 DEF RegisterCollectors, tails
  <2>2. /\ ~bot.on /\ ~web.on /\ ~collector.on
        /\ tailing = {} /\ lines = <<>> /\ last = Nothing
    BY <2>1 DEF Wired
  <2>3. collector'.on => CollectorWired'
    <3>1. CASE collector' = collector
      BY <2>2, <3>1
    <3>2. CASE collector' # collector
      <4>1. /\ collector'.cfg = LogConfig /\ collector'.aliases = Aliases(LogConfig)
            /\ collector'.extract = Capped(ExtractFields(Aliases(LogConfig)))
            /\ warned' = CollectorWarnings(LogConfig, Aliases(LogConfig),
                                          ExtractFields(Aliases(LogConfig)))
        BY <1>1, <3>2 DEF RegisterCollectors
      <4>2. PICK c, a, e : c = LogConfig /\ a = Aliases(c) /\ e = ExtractFields(a)
        OBVIOUS
      <4>3. Aliases(collector.cfg)' = a
        BY <2>1, <4>1, <4>2 DEF Aliases, StreamsEnabled, Resolved
      <4>4. ExtractFields(collector.aliases)' = e
        BY <2>1, <4>1, <4>2 DEF ExtractFields, ExtraLabels, WebServer, RequiredFields,
           StreamsEnabled
      <4>5. CollectorWarnings(collector.cfg, collector.aliases,
                              ExtractFields(collector.aliases))' = warned'
        <5>1. warned' = CollectorWarnings(c, a, e)
          BY <4>1, <4>2
        <5>2. collector'.cfg = c /\ collector'.aliases = a
          BY <4>1, <4>2
        <5>3. Mismatched(collector.cfg)' = Mismatched(c)
          BY <2>1, <4>2, <4>3, <5>2 DEF Mismatched, Resolved
        <5> QED
          BY <2>1, <4>4, <5>1, <5>2, <5>3 DEF CollectorWarnings, ExtraLabels, WebServer,
             StreamsEnabled
      <4> QED
        BY <4>1, <4>2, <4>3, <4>4, <4>5 DEF CollectorWired
    <3> QED
      BY <3>1, <3>2
  <2> QED
    BY <2>1, <2>2, <2>3 DEF Wired
<1>2. CASE RegisterBotLogs
  <2>1. /\ stage = "collectors" /\ stage' = "bots"
        /\ UNCHANGED <<host, collector, web, warned, tailing, lines, last>>
    BY <1>2 DEF RegisterBotLogs, tails
  <2>2. bot'.on => BotWired'
    BY <1>2 DEF RegisterBotLogs, NoBot, BotWired
  <2>3. CollectorWired => CollectorWired'
    BY <2>1, WiredFrame
  <2> QED
    BY <2>1, <2>2, <2>3 DEF Wired
<1>3. CASE RegisterWebLogs
  <2>1. /\ stage = "bots" /\ stage' = "webs" /\ warned \subseteq warned'
        /\ UNCHANGED <<host, collector, bot, tailing, lines, last>>
    BY <1>3 DEF RegisterWebLogs, tails
  <2>2. web'.on => WebWired'
    <3>1. SUFFICES ASSUME web'.on PROVE WebWired'
      OBVIOUS
    <3>2. /\ host.web.enabled /\ collector.on /\ FormatWarnings \subseteq warned'
          /\ web'.paths = Accepted
          /\ web'.requireUpstream <=> /\ host.web.requireUpstream
                                      /\ EveryCarries("upstream_response_time")
          /\ web'.upstreams <=> host.web.upstreams /= {} /\ EveryCarries(ProxyHost)
          /\ web'.idxProxyHost = IndexOf(collector.extract, ProxyHost)
      BY <1>3, <2>1, <3>1 DEF RegisterWebLogs, NoWeb, Wired
    <3>3. /\ Accepted' = Accepted /\ FormatWarnings' = FormatWarnings
          /\ EveryCarries("upstream_response_time")' = EveryCarries("upstream_response_time")
          /\ EveryCarries(ProxyHost)' = EveryCarries(ProxyHost)
      BY <2>1 DEF Accepted, Known, Fatal, NoClientIP, VarsOf, EveryCarries,
         FormatWarnings, Advice
    <3> QED
      BY <2>1, <3>2, <3>3 DEF WebWired
  <2>3. /\ CollectorWired => CollectorWired'
        /\ BotWired => BotWired'
    BY <2>1, WiredFrame
  <2> QED
    BY <2>1, <2>2, <2>3 DEF Wired
<1>4. CASE StartTailing
  BY <1>0, <1>4 DEF StartTailing, Wired, observers, tails
<1>5. ASSUME NEW path \in tailing, NEW request, TailRead(path, request)
      PROVE  Wired'
  BY <1>0, <1>5 DEF TailRead, Wired, observers, tails
<1>6. ASSUME NEW path \in tailing, TailSend(path) PROVE Wired'
  <2> DEFINE x == [path |-> path, request |-> Head(hand[path])]
  <2>1. /\ lines' = Append(lines, x)
        /\ UNCHANGED <<host, stage, collector, bot, web, warned, last>>
    BY <1>6 DEF TailSend, observers
  <2>2. x.path \in ToSet(collector.cfg.paths)
    BY DEF LogTypeInv
  <2> HIDE DEF x
  <2>3. PICK S : lines \in Seq(S)
    BY DEF LogTypeInv, IsSequence
  <2>4. ASSUME NEW i \in DOMAIN lines'
        PROVE  \/ lines'[i] = x
               \/ /\ i \in DOMAIN lines
                  /\ lines'[i] = lines[i]
    BY <2>1, <2>3, Appended
  <2>5. \A i \in DOMAIN lines' : lines'[i].path \in ToSet(collector.cfg.paths)
    BY <2>2, <2>4 DEF Wired
  <2>6. stage \notin {"start", "collectors", "bots", "webs"}
    BY <1>6 DEF Wired
  <2> QED
    BY <1>0, <2>1, <2>5, <2>6 DEF LogTypeInv
<1>7. ASSUME NEW path \in tailing, TailStop(path) PROVE Wired'
  BY <1>0, <1>7 DEF TailStop, Wired, observers, tails
<1>8. CASE Process
  <2>1. /\ stage = "tailing" /\ lines # <<>> /\ lines' = Tail(lines)
        /\ UNCHANGED <<host, stage, collector, bot, web, warned>>
    BY <1>8 DEF Process, observers
  <2>2. PICK S : lines \in Seq(S)
    BY DEF LogTypeInv, IsSequence
  <2>3. /\ \A i \in DOMAIN lines' : lines'[i] = lines[i + 1] /\ i + 1 \in DOMAIN lines
        /\ 1 \in DOMAIN lines /\ Head(lines) = lines[1]
    BY <2>1, <2>2
  <2>4. /\ \A i \in DOMAIN lines' : lines'[i].path \in ToSet(collector.cfg.paths)
        /\ Head(lines).path \in ToSet(collector.cfg.paths)
    BY <2>3 DEF Wired
  <2>5. CASE last' = last
    BY <1>0, <2>1, <2>4, <2>5
  <2>6. CASE last' # last
    <3> DEFINE p == Head(lines).path
               q == Head(lines).request
               l == fillLine(ParserFormat(p), q)
               line == fillLine(ParserFormat(last.path), last.request)
    <3>1. /\ last'.path = p /\ last'.request = q
          /\ IF Unparsed(p, q) THEN last'.bot = FALSE /\ last'.web = "unparsed"
             ELSE last'.bot = BotShips(l) /\ last'.web = WebOutcome(l, p)
      BY <1>8, <2>6 DEF Process
    <3> HIDE DEF p, q
    <3>2. ParserFormat(last.path)' = ParserFormat(p)
      BY <2>1, <3>1 DEF ParserFormat
    <3>3. line' = l
      <4> DEFINE get(name)  == Field(ParserFormat(last.path), last.request, name)
                 have(name) == Field(ParserFormat(p), q, name)
                 at  == SelectInSeq(URICandidates, LAMBDA v : ~Absent(get(v)))
                 at_ == SelectInSeq(URICandidates, LAMBDA v : ~Absent(have(v)))
                 uri  == IF at = 0 THEN "" ELSE get(URICandidates[at])
                 uri_ == IF at_ = 0 THEN "" ELSE have(URICandidates[at_])
      <4>1. at' = at_
        BY <3>1, <3>2 DEF SelectInSeq
      <4>2. uri' = uri_
        BY <3>1, <3>2, <4>1
      <4>3. l = [status   |-> have("status"),
                 raw      |-> IF uri_ = Blob THEN "" ELSE uri_,
                 uri      |-> IF uri_ = "" THEN "" ELSE NormalPath[uri_],
                 body     |-> ~Absent(have("body_bytes_sent")),
                 upstream |-> have("upstream_response_time"),
                 extras   |-> [i \in 1..Len(collector.extract) |->
                                have(collector.extract[i])]]
        BY DEF fillLine
      <4>4. line' = [status   |-> get("status"),
                     raw      |-> IF uri = Blob THEN "" ELSE uri,
                     uri      |-> IF uri = "" THEN "" ELSE NormalPath[uri],
                     body     |-> ~Absent(get("body_bytes_sent")),
                     upstream |-> get("upstream_response_time"),
                     extras   |-> [i \in 1..Len(collector.extract) |->
                                    get(collector.extract[i])]]'
        BY DEF fillLine
      <4> HIDE DEF uri, uri_, at, at_, l, line
      <4> QED
        BY <2>1, <3>1, <3>2, <4>2, <4>3, <4>4
    <3> HIDE DEF l, line
    <3>4. BotShips(line)' = BotShips(l)
      BY <2>1, <3>3 DEF BotShips
    <3>5. WebOutcome(line, last.path)' = WebOutcome(l, p)
      BY <2>1, <3>1, <3>3 DEF WebOutcome
    <3>8. Unparsed(last.path, last.request)' = Unparsed(p, q)
      BY <2>1, <3>1 DEF Unparsed, Misread
    <3>6. LastWired'
      BY <2>1, <2>4, <3>1, <3>4, <3>5, <3>8 DEF LastWired, line, p
    <3>7. /\ CollectorWired => CollectorWired'
          /\ BotWired => BotWired'
          /\ WebWired => WebWired'
      BY <2>1, WiredFrame
    <3> QED
      BY <2>1, <2>4, <3>6, <3>7 DEF Wired
  <2> QED
    BY <2>5, <2>6
<1>9. CASE CollectorReturns
  BY <1>0, <1>9 DEF CollectorReturns, Wired, observers, tails
<1>10. CASE Tick \/ Cancel
  BY <1>0, <1>10 DEF Tick, Cancel, Wired, observers, tails
<1>11. CASE UNCHANGED logVars
  BY <1>0, <1>11 DEF logVars, Wired, observers, tails
<1> QED
  BY <1>1, <1>2, <1>3, <1>4, <1>5, <1>6, <1>7, <1>8, <1>9, <1>10, <1>11
  DEF LogNext, LogRegister, LogStep

-----------------------------------------------------------------------------
(* No request of a known bot is lost without a warning *)

\* The name under which the bot observer looks for the user agent of a log that
\* carries $http_user_agent, when no format disagrees and no name is configured.
LEMMA AgentName ==
    ASSUME NEW path, CollectorWired, host.bot.enabled,
           path \in ToSet(collector.cfg.paths),
           "botlog_alias_mismatch" \notin warned,
           host.bot.override = NoAliases,
           HasOwn(path, "http_user_agent"), ~Misread(path)
    PROVE  collector.aliases.UserAgent = ParserFormat(path).name["http_user_agent"]
<1> DEFINE F == FormatOf(collector.cfg, path)
           first == FirstIn(<<"http_user_agent">>, Vars(F))
           found == DetectAliases(F).UserAgent
<1>1. collector.aliases = Resolved(collector.cfg, path)
  <2>1. Mismatched(collector.cfg) = {}
    BY DEF CollectorWired, CollectorWarnings, WarnIf, StreamsEnabled
  <2> QED
    BY <2>1 DEF CollectorWired, Mismatched
<1>2. collector.aliases.UserAgent = IF found = "" THEN "http_user_agent" ELSE found
  <2> DEFINE D == DetectAliases(F)
             A == WithFallback(NoAliases, D)
  <2>1. /\ "UserAgent" \in DOMAIN Candidates
        /\ Candidates["UserAgent"] = <<"http_user_agent">>
    BY DEF Candidates
  <2>2. "UserAgent" \in DOMAIN NoAliases /\ NoAliases.UserAgent = ""
    BY <2>1 DEF NoAliases
  <2>3. DefaultAliases.UserAgent = "http_user_agent"
    BY <2>1 DEF DefaultAliases
  <2>4. "UserAgent" \in DOMAIN A /\ A.UserAgent = D.UserAgent
    BY <2>2 DEF WithFallback
  <2>5. collector.aliases = WithFallback(A, DefaultAliases)
    BY <1>1 DEF Resolved
  <2> HIDE DEF D, A
  <2>6. WithFallback(A, DefaultAliases).UserAgent
          = IF A.UserAgent = "" THEN DefaultAliases.UserAgent ELSE A.UserAgent
    BY <2>4 DEF WithFallback
  <2> QED
    BY <2>3, <2>4, <2>5, <2>6 DEF D
<1>3. found = IF first = "" THEN "" ELSE F.name[first]
  BY DEF DetectAliases, Candidates
<1>4. CASE F = NoFormat
  <2>1. Vars(F) = {}
    BY <1>4 DEF NoFormat, Vars
  <2>2. first = ""
    <3>1. \A i \in 1..Len(<<"http_user_agent">>) : <<"http_user_agent">>[i] \notin Vars(F)
      BY <2>1
    <3> QED
      BY <3>1, FirstMisses
  <2>3. ParserFormat(path).name["http_user_agent"] = "http_user_agent"
    BY <1>4 DEF ParserFormat, DefaultLogFormat, Text
  <2> QED
    BY <1>2, <1>3, <2>2, <2>3
<1>5. CASE F # NoFormat
  <2>1. ParserFormat(path) = F
    BY <1>5 DEF ParserFormat
  <2>2. first = "http_user_agent"
    <3> DEFINE seq == <<"http_user_agent">>
    <3>1. seq \in Seq({"http_user_agent"}) /\ 1 \in DOMAIN seq /\ seq[1] = "http_user_agent"
      OBVIOUS
    <3>2. "http_user_agent" \in Vars(F)
      BY <2>1 DEF HasOwn
    <3>3. ToSet(seq) \subseteq {"http_user_agent"}
      BY DEF ToSet
    <3> HIDE DEF seq
    <3>4. FirstIn(seq, Vars(F)) \in ToSet(seq)
      BY <3>1, <3>2, FirstFinds
    <3> QED
      BY <3>3, <3>4 DEF seq
  <2>3. F.name["http_user_agent"] # ""
    BY <2>1, OwnName
  <2>4. found = F.name["http_user_agent"] /\ found # ""
    <3> HIDE DEF first, found
    <3> QED
      BY <1>3, <2>2, <2>3
  <2> QED
    BY <1>2, <2>1, <2>4
<1> QED
  BY <1>4, <1>5

\* What is not truncated away.
LEMMA Untruncated ==
    ASSUME host \in Setups, CollectorWired, StreamsEnabled,
           "truncated_extract" \notin warned
    PROVE  /\ \E T : collector.extract \in Seq(T)
           /\ collector.aliases.UserAgent # "" =>
                 collector.aliases.UserAgent \in ToSet(collector.extract)
           /\ host.web.enabled => ProxyHost \in ToSet(collector.extract)
<1> DEFINE extract == ExtractFields(collector.aliases)
<1>1. PICK T : extract \in Seq(T)
  BY ExtractHas
<1>2. Len(extract) <= MaxExtras
  <2>1. ~(Len(extract) > MaxExtras)
    BY DEF CollectorWired, CollectorWarnings, WarnIf
  <2>2. Len(extract) \in Nat
    <3> HIDE DEF extract
    <3> QED
      BY <1>1
  <2> QED
    BY <2>1, <2>2, LogAssumption
<1>3. collector.extract = extract
  BY <1>2 DEF CollectorWired, Capped
<1> QED
  BY <1>1, <1>3, ExtractHas

\* Wired observers lose no bot silently.
LEMMA BotsKept == Wired => BotLossIsWarned
<1> DEFINE path == last.path
           name == ParserFormat(path).name["http_user_agent"]
           line == fillLine(ParserFormat(path), last.request)
<1>1. SUFFICES ASSUME Wired, bot.on, last # Nothing, host.bot.override = NoAliases,
                      HasOwn(path, "http_user_agent"),
                      ~Malformed(last.request), ~Misread(path),
                      Value(last.request, "http_user_agent") \in Bots,
                      "botlog_alias_mismatch" \notin warned,
                      "truncated_extract" \notin warned
               PROVE  last.bot
  BY DEF BotLossIsWarned
<1>2. CollectorWired /\ BotWired /\ LastWired /\ host \in Setups
  BY <1>1 DEF Wired, BotWired
<1>3. host.bot.enabled /\ StreamsEnabled
  BY <1>2 DEF BotWired, StreamsEnabled
<1>4. collector.aliases.UserAgent = name
  BY <1>1, <1>2, <1>3, AgentName DEF LastWired
<1>5. name # ""
  BY <1>1, OwnName
<1>6. PICK T : collector.extract \in Seq(T)
  BY <1>1, <1>2, <1>3, Untruncated
<1>7. name \in ToSet(collector.extract)
  BY <1>1, <1>2, <1>3, <1>4, <1>5, Untruncated
<1>8. Field(ParserFormat(path), last.request, name) = Value(last.request, "http_user_agent")
  BY <1>1, OwnField
<1>9. Extra(line, bot.idxUA) = Field(ParserFormat(path), last.request, name)
  <2>1. bot.idxUA = IndexOf(collector.extract, name)
    BY <1>2, <1>4 DEF BotWired
  <2> HIDE DEF name
  <2> QED
    BY <1>5, <1>6, <1>7, <2>1, ExtraField
<1> QED
  BY <1>1, <1>2, <1>8, <1>9 DEF LastWired, BotShips, Unparsed

\* A request of a known bot whose log carries $http_user_agent becomes an event of
\* the bot stream, unless a warning told at startup that the field is lost, or the
\* log is Misread: in a text format that is taken for JSON, since one of its name
\* was.
THEOREM BotSafety == LogSpec => []BotLossIsWarned
<1>1. LogSpec => []LogTypeInv
  BY LogTypeInit, LogTypeStep, PTL DEF LogSpec
<1>2. LogInit => Wired
  BY WiredInit
<1>3. LogTypeInv /\ Wired /\ [LogNext]_logVars => Wired'
  BY WiredStep
<1>4. Wired => BotLossIsWarned
  BY BotsKept
<1> QED
  BY <1>1, <1>2, <1>3, <1>4, PTL DEF LogSpec

-----------------------------------------------------------------------------
(* The web stream filters for a true cause *)

\* Three values in a sequence.
LEMMA Triple ==
    ASSUME NEW a, NEW b, NEW c
    PROVE  /\ <<a, b, c>> \in Seq({a, b, c}) /\ ToSet(<<a, b, c>>) = {a, b, c}
           /\ 1 \in DOMAIN <<a, b, c>> /\ 3 \in DOMAIN <<a, b, c>>
           /\ <<a, b, c>>[1] = a /\ <<a, b, c>>[3] = c
<1>1. /\ <<a, b, c>> \in Seq({a, b, c}) /\ DOMAIN <<a, b, c>> = 1..3
      /\ <<a, b, c>>[1] = a /\ <<a, b, c>>[2] = b /\ <<a, b, c>>[3] = c
  OBVIOUS
<1>2. 1..3 = {1, 2, 3}
  OBVIOUS
<1>3. \A i \in {1, 2, 3} : <<a, b, c>>[i] \in {a, b, c}
  BY <1>1
<1> QED
  BY <1>1, <1>2, <1>3 DEF ToSet

\* What an accepted path carries.
LEMMA AcceptedVars ==
    ASSUME NEW vars, Fatal(vars) = ""
    PROVE  /\ unsafeVars \cap vars = {} /\ "status" \in vars
           /\ AnyOf(vars, URICandidates)
<1> DEFINE seq == <<"weblog_unsafe_format", "weblog_no_client_ip",
                    "weblog_incomplete_format">>
           S == WarnIf(unsafeVars \cap vars /= {}, "weblog_unsafe_format")
                \cup WarnIf(NoClientIP(vars), "weblog_no_client_ip")
                \cup WarnIf("status" \notin vars \/ ~AnyOf(vars, URICandidates),
                            "weblog_incomplete_format")
           names == {"weblog_unsafe_format", "weblog_no_client_ip",
                     "weblog_incomplete_format"}
<1>1. /\ seq \in Seq(names) /\ ToSet(seq) = names
      /\ 1 \in DOMAIN seq /\ 3 \in DOMAIN seq
      /\ seq[1] = "weblog_unsafe_format" /\ seq[3] = "weblog_incomplete_format"
  BY Triple
<1>2. "" \notin names
  OBVIOUS
<1>3. FirstIn(seq, S) = ""
  BY DEF Fatal
<1> HIDE DEF seq, names, S
<1>4. seq[1] \notin S /\ seq[3] \notin S
  <2>1. FirstIn(seq, S) \notin ToSet(seq)
    BY <1>1, <1>2, <1>3
  <2> QED
    BY <1>1, <2>1, FirstFinds
<1> QED
  BY <1>1, <1>4 DEF S, WarnIf

\* Its format is that of the configuration.
LEMMA AcceptedFormat ==
    ASSUME NEW path \in Accepted
    PROVE  /\ path \in host.web.paths /\ Vars(ParserFormat(path)) = VarsOf(path)
           /\ unsafeVars \cap VarsOf(path) = {}
           /\ AnyOf(VarsOf(path), URICandidates)
<1>1. path \in host.web.paths /\ Fatal(VarsOf(path)) = ""
  BY DEF Accepted
<1>2. /\ unsafeVars \cap VarsOf(path) = {} /\ "status" \in VarsOf(path)
      /\ AnyOf(VarsOf(path), URICandidates)
  BY <1>1, AcceptedVars
<1>3. FormatOf(collector.cfg, path) # NoFormat
  <2>1. Vars(NoFormat) = {}
    BY DEF Vars, NoFormat
  <2> QED
    BY <1>2, <2>1 DEF VarsOf
<1> QED
  BY <1>1, <1>2, <1>3 DEF ParserFormat, VarsOf

\* The parser reads the URI, whichever of its variables the format names.
LEMMA RawLine ==
    ASSUME NEW path, Canonical(path), NEW request,
           AnyOf(Vars(ParserFormat(path)), URICandidates)
    PROVE  fillLine(ParserFormat(path), request).raw = RawURI(request)
<1> DEFINE F == ParserFormat(path)
           uris_ == ToSet(URICandidates)
           val == Value(request, "uri")
           get(name) == Field(F, request, name)
           I == {i \in 1..Len(URICandidates) : ~Absent(get(URICandidates[i]))}
<1>0. /\ DOMAIN URICandidates = 1..Len(URICandidates)
      /\ 1..Len(URICandidates) \subseteq Nat \ {0} /\ "uri" \in uris_
  BY DEF URICandidates, ToSet
<1>1. \A w \in Vars(F) : F.name[w] \in uris_ <=> w \in uris_
  BY DEF Canonical
<1>2. ASSUME NEW v \in uris_
      PROVE  Value(request, v) = val \/ (Value(request, v) = Blob /\ val = "-")
  <2>1. "uri" # "request" /\ "uri" \in ToSet(URICandidates)
    BY <1>0
  <2> QED
    BY <1>0, <1>2, <2>1 DEF Value
<1>9. val # Blob
  <2> DEFINE value == IF "uri" \in DOMAIN request THEN request["uri"] ELSE "-"
  <2>1. val = IF value = Blob THEN "-" ELSE value
    BY <1>0 DEF Value
  <2> HIDE DEF value, val
  <2>2. CASE value = Blob
    BY <2>1, <2>2 DEF Blob
  <2>3. CASE value # Blob
    BY <2>1, <2>3
  <2> QED
    BY <2>2, <2>3
<1>3. ASSUME NEW c \in uris_ PROVE get(c) \in {"", val} \/ (get(c) = Blob /\ val = "-")
  <2> DEFINE vars == {v \in Vars(F) : F.name[v] = c}
  <2>1. CASE vars = {}
    <3>1. get(c) = ""
      BY <2>1 DEF Field
    <3> QED
      BY <3>1
  <2>2. CASE vars # {}
    <3>1. (CHOOSE v \in vars : TRUE) \in vars
      BY <2>2
    <3>2. (CHOOSE v \in vars : TRUE) \in uris_
      BY <1>1, <3>1
    <3>3. get(c) = Value(request, CHOOSE v \in vars : TRUE)
      BY <2>2 DEF Field
    <3> QED
      BY <1>2, <3>2, <3>3
  <2> QED
    BY <2>1, <2>2
<1>4. PICK w \in Vars(F) : w \in uris_
  BY DEF AnyOf
<1>5. F.name[w] \in uris_ /\ (val # "-" => get(F.name[w]) = val)
  <2> DEFINE vars == {v \in Vars(F) : F.name[v] = F.name[w]}
  <2>1. F.name[w] \in uris_
    BY <1>1, <1>4
  <2>2. (CHOOSE v \in vars : TRUE) \in vars
    BY <1>4
  <2>3. (CHOOSE v \in vars : TRUE) \in uris_
    BY <1>1, <2>1, <2>2
  <2>4. get(F.name[w]) = Value(request, CHOOSE v \in vars : TRUE)
    BY <2>2 DEF Field
  <2> QED
    BY <1>2, <2>1, <2>3, <2>4
<1> DEFINE at  == SelectInSeq(URICandidates, LAMBDA v : ~Absent(get(v)))
           uri == IF at = 0 THEN "" ELSE get(URICandidates[at])
<1>6. fillLine(F, request).raw = IF uri = Blob THEN "" ELSE uri
  BY DEF fillLine
<1>10. ASSUME I # {}
       PROVE  at = Min(I) /\ Min(I) \in I
  <2>1. I \subseteq Nat
    BY <1>0
  <2>2. at = Min(I)
    BY <1>10 DEF SelectInSeq
  <2> HIDE DEF I
  <2> QED
    BY <1>10, <2>1, <2>2, LeastOf
<1>7. CASE Absent(val)
  <2>1. \A c \in uris_ : Absent(get(c)) \/ get(c) = Blob
    BY <1>3, <1>7 DEF Absent
  <2>2. uri \in {"", Blob}
    <3>1. CASE I = {}
      BY <3>1 DEF SelectInSeq
    <3>2. CASE I # {}
      <4>1. at = Min(I) /\ at \in I
        BY <1>10, <3>2
      <4>2. URICandidates[at] \in uris_ /\ ~Absent(get(URICandidates[at]))
        BY <1>0, <4>1 DEF ToSet
      <4>3. at # 0
        BY <1>0, <4>1
      <4> QED
        BY <2>1, <4>2, <4>3
    <3> QED
      BY <3>1, <3>2
  <2> QED
    BY <1>6, <1>7, <2>2 DEF RawURI
<1>8. CASE ~Absent(val)
  <2>1. PICK j \in DOMAIN URICandidates : URICandidates[j] = F.name[w]
    BY <1>5 DEF ToSet
  <2>2. j \in I
    BY <1>0, <1>5, <1>8, <2>1 DEF Absent
  <2>3. at = Min(I) /\ Min(I) \in I
    BY <1>10, <2>2
  <2>5. Min(I) # 0 /\ ~Absent(get(URICandidates[Min(I)]))
    BY <1>0, <2>3
  <2>6. URICandidates[Min(I)] \in uris_
    BY <1>0, <2>3 DEF ToSet
  <2>7. get(URICandidates[Min(I)]) = val
    <3>1. get(URICandidates[Min(I)]) \in {"", val}
      BY <1>3, <1>8, <2>6 DEF Absent
    <3> QED
      BY <2>5, <3>1 DEF Absent
  <2> QED
    BY <1>6, <1>8, <1>9, <2>3, <2>5, <2>7 DEF RawURI
<1> QED
  BY <1>7, <1>8

\* A filter that is off although it is configured was told of.
LEMMA OffIsWarned ==
    ASSUME WebWired
    PROVE  /\ host.web.requireUpstream /\ ~web.requireUpstream =>
                "weblog_no_upstream" \in warned
           /\ host.web.upstreams # {} /\ ~web.upstreams =>
                "weblog_upstream_filter_disabled" \in warned
<1>1. ASSUME NEW p \in Accepted PROVE Advice(VarsOf(p)) \subseteq warned
  <2>1. p \in host.web.paths /\ Known(p)
    BY DEF Accepted
  <2> QED
    BY <2>1 DEF WebWired, FormatWarnings
<1>2. ASSUME host.web.requireUpstream, ~web.requireUpstream
      PROVE  "weblog_no_upstream" \in warned
  <2>1. PICK p \in Accepted : "upstream_response_time" \notin VarsOf(p)
    BY <1>2 DEF WebWired, EveryCarries
  <2> QED
    BY <1>1, <2>1 DEF Advice, WarnIf
<1>3. ASSUME host.web.upstreams # {}, ~web.upstreams
      PROVE  "weblog_upstream_filter_disabled" \in warned
  <2>1. PICK p \in Accepted : ProxyHost \notin VarsOf(p)
    BY <1>3 DEF WebWired, EveryCarries
  <2> QED
    BY <1>1, <1>3, <2>1 DEF Advice, WarnIf
<1> QED
  BY <1>2, <1>3

\* A wired web observer filters for the request's own sake.
LEMMA FiltersTrue == Wired => FilteredForCause
<1> DEFINE path == last.path
           request == last.request
           line == fillLine(ParserFormat(path), request)
<1>1. SUFFICES ASSUME Wired, web.on, last # Nothing, "truncated_extract" \notin warned,
                      Canonical(path)
               PROVE  FilteredForCause
  BY DEF FilteredForCause
<1>2. CollectorWired /\ WebWired /\ LastWired /\ host \in Setups
  BY <1>1 DEF Wired, WebWired
<1>6. CASE Unparsed(path, request)
  <2>1. last.web = "unparsed"
    BY <1>2, <1>6 DEF LastWired
  <2> QED
    BY <1>6, <2>1 DEF FilteredForCause
<1> SUFFICES ASSUME ~Unparsed(path, request) PROVE FilteredForCause
  BY <1>6
<1>7. ~Misread(path)
  BY DEF Unparsed
<1>3. last.web = WebOutcome(line, path) /\ Known(path) /\ web.paths = Accepted
  BY <1>2 DEF LastWired, WebWired, Known
<1>4. CASE path \notin Accepted
  <2>1. last.web = "path"
    BY <1>1, <1>3, <1>4 DEF WebOutcome
  <2>2. path \in host.web.paths => Fatal(VarsOf(path)) \in warned
    BY <1>2, <1>3, <1>4 DEF WebWired, FormatWarnings
  <2> QED
    BY <2>1, <2>2 DEF FilteredForCause
<1>5. CASE path \in Accepted
  <2>1. /\ path \in host.web.paths /\ Vars(ParserFormat(path)) = VarsOf(path)
        /\ unsafeVars \cap VarsOf(path) = {}
        /\ AnyOf(VarsOf(path), URICandidates)
    BY <1>5, AcceptedFormat
  <2>2. web.requireUpstream => (Absent(line.upstream) <=> ~Reached(request))
    <3>1. SUFFICES ASSUME web.requireUpstream
                   PROVE  line.upstream = Value(request, "upstream_response_time")
      BY DEF Reached
    <3>2. "upstream_response_time" \in Vars(ParserFormat(path))
      BY <1>2, <1>5, <2>1, <3>1 DEF WebWired, EveryCarries
    <3>3. /\ HasOwn(path, "upstream_response_time")
          /\ ParserFormat(path).name["upstream_response_time"] = "upstream_response_time"
      BY <1>1, <3>2 DEF Canonical
    <3>4. line.upstream = Field(ParserFormat(path), request, "upstream_response_time")
      BY DEF fillLine
    <3> QED
      BY <1>7, <3>3, <3>4, OwnField
  <2>3. web.upstreams =>
          (Extra(line, web.idxProxyHost) \in host.web.upstreams <=> Listed(request))
    <3>1. SUFFICES ASSUME web.upstreams
                   PROVE  Extra(line, web.idxProxyHost) = Value(request, ProxyHost)
      BY DEF Listed
    <3>2. ProxyHost \in Vars(ParserFormat(path))
      BY <1>2, <1>5, <2>1, <3>1 DEF WebWired, EveryCarries
    <3>3. HasOwn(path, ProxyHost) /\ ParserFormat(path).name[ProxyHost] = ProxyHost
      BY <1>1, <3>2 DEF Canonical
    <3>4. Field(ParserFormat(path), request, ProxyHost) = Value(request, ProxyHost)
      BY <1>7, <3>3, OwnField
    <3>5. host.web.enabled /\ StreamsEnabled
      BY <1>2 DEF WebWired, StreamsEnabled
    <3>6. PICK T : collector.extract \in Seq(T)
      BY <1>1, <1>2, <3>5, Untruncated
    <3>7. ProxyHost \in ToSet(collector.extract)
      BY <1>1, <1>2, <3>5, Untruncated
    <3>8. ProxyHost # ""
      BY DEF ProxyHost
    <3>9. Extra(line, IndexOf(collector.extract, ProxyHost))
            = Field(ParserFormat(path), request, ProxyHost)
      BY <3>6, <3>7, <3>8, ExtraField
    <3> QED
      BY <1>2, <3>4, <3>9 DEF WebWired
  <2>4. line.raw = RawURI(request)
    BY <1>1, <2>1, RawLine
  <2>5. /\ web.requireUpstream => host.web.requireUpstream
        /\ web.upstreams => host.web.upstreams # {}
        /\ host.web.requireUpstream /\ ~web.requireUpstream =>
             "weblog_no_upstream" \in warned
        /\ host.web.upstreams # {} /\ ~web.upstreams =>
             "weblog_upstream_filter_disabled" \in warned
    BY <1>2, OffIsWarned DEF WebWired
  <2> HIDE DEF path, request, line
  <2>6. CASE web.requireUpstream /\ Absent(line.upstream)
    <3>1. last.web = "upstream"
      BY <1>1, <1>3, <1>5, <2>6 DEF WebOutcome
    <3>2. host.web.requireUpstream /\ ~Reached(request)
      BY <2>2, <2>5, <2>6
    <3> QED
      BY <3>1, <3>2 DEF FilteredForCause, request
  <2>7. CASE /\ ~(web.requireUpstream /\ Absent(line.upstream))
             /\ web.upstreams /\ Extra(line, web.idxProxyHost) \notin host.web.upstreams
    <3>1. last.web = "proxy_host"
      BY <1>1, <1>3, <1>5, <2>7 DEF WebOutcome
    <3>2. host.web.upstreams # {} /\ ~Listed(request)
      BY <2>3, <2>5, <2>7
    <3> QED
      BY <3>1, <3>2 DEF FilteredForCause, request
  <2>8. CASE /\ ~(web.requireUpstream /\ Absent(line.upstream))
             /\ ~(web.upstreams /\ Extra(line, web.idxProxyHost) \notin host.web.upstreams)
    <3>1. CASE line.raw \in host.web.excluded
      <4>1. last.web = "prefix"
        BY <1>1, <1>3, <1>5, <2>8, <3>1 DEF WebOutcome
      <4>2. RawURI(request) \in host.web.excluded
        BY <2>4, <3>1
      <4> QED
        BY <4>1, <4>2 DEF FilteredForCause, request
    <3>2. CASE line.raw \notin host.web.excluded
      <4>1. last.web = "shipped"
        BY <1>1, <1>3, <1>5, <2>8, <3>2 DEF WebOutcome
      <4>2. /\ path \in host.web.paths /\ unsafeVars \cap Vars(ParserFormat(path)) = {}
            /\ host.web.requireUpstream => \/ Reached(request)
                                           \/ "weblog_no_upstream" \in warned
            /\ host.web.upstreams # {} => \/ Listed(request)
                                          \/ "weblog_upstream_filter_disabled" \in warned
        BY <2>1, <2>2, <2>3, <2>5, <2>8
      <4> QED
        BY <4>1, <4>2 DEF FilteredForCause, request, path
    <3> QED
      BY <3>1, <3>2
  <2> QED
    BY <2>6, <2>7, <2>8
<1> QED
  BY <1>4, <1>5

\* The web stream drops a line that can be parsed only for a cause that is true of
\* the request itself, and ships one that a filter should have dropped only after a
\* warning; of logs whose names are Canonical, which a JSON log with keys of its own
\* for what a filter reads is not.
THEOREM FilterSafety == LogSpec => []FilteredForCause
<1>1. LogSpec => []LogTypeInv
  BY LogTypeInit, LogTypeStep, PTL DEF LogSpec
<1>2. LogInit => Wired
  BY WiredInit
<1>3. LogTypeInv /\ Wired /\ [LogNext]_logVars => Wired'
  BY WiredStep
<1>4. Wired => FilteredForCause
  BY FiltersTrue
<1> QED
  BY <1>1, <1>2, <1>3, <1>4, PTL DEF LogSpec

=============================================================================
