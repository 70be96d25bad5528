---------------------------- MODULE LeasingProofs ----------------------------
(***************************************************************************)
(* Proofs about Leasing: types, taints and grace periods in every          *)
(* interleaving of users, clock, cache and reconcile; time windows and     *)
(* limits of a policy for every policy.                                    *)
(***************************************************************************)
EXTENDS Leasing, TLAPS

\* A policy in the cache that exists has a spec, and so has a reconcile that is to
\* write the node; what it offers is within what the node can allocate.
SpecsKnown ==
  /\ \A p \in Policy : Exists(pc[p]) => pc[p].spec \in Specs
  /\ fl.pc \in {"write", "patch", "window"} => fl.spec \in Specs
  /\ fl.offer <= Alloc
  /\ fl.t.since <= now /\ fl.t.offer <= Alloc /\ vc.since <= now /\ fl.c.since <= now

TypeInv == TypeOK /\ SpecsKnown

\* Two copies of a node agree on the out-of-time-windows taint.
SameOotw(n, c) == n.ootw = c.ootw /\ n.since = c.since

\* t is made of c by mergeTaints.
Merged(c, t) == /\ t.user = c.user
                /\ c.ootw # "none" /\ t.ootw # "none" => t.since = c.since

\* Between the status update and the patch, the node and its cached copy have the
\* taint of the copy that was read.
PatchFits ==
  fl.pc = "patch" => /\ vn.exists /\ Merged(fl.c, fl.t)
                     /\ SameOotw(vn, fl.c)
                     /\ vc.exists /\ SameOotw(vc, fl.c)

\* After it, the cached copy has the taint of the node, or still the one from before
\* the patch.
WindowFits ==
  fl.pc = "window" => \/ ~vc.exists
                      \/ SameOotw(vc, vn)
                      \/ SameOotw(vc, fl.c) /\ SameOotw(vn, fl.t) /\ Merged(fl.c, fl.t)

IInv == TypeInv /\ PatchFits /\ WindowFits
----------------------------------------------------------------------------
(* Nodes and their taints.                                                 *)

LEMMA NodeTypes == NoNode \in VNode /\ (Idle \in Flight)
<1>1. NoNode \in VNode
  BY DEF NoNode, VNode, Effect
<1>2. QED
  BY <1>1 DEF Idle, Flight

\* transformTaints makes a node from scratch: its taint is not older than now.
LEMMA TransformFacts ==
  ASSUME TypeInv, NEW s
  PROVE  LET d == TransformTaints(s) IN
         /\ d \in VNode /\ d.exists /\ ~d.user /\ d.since <= now /\ d.offer = fl.offer
<1> DEFINE d == TransformTaints(s)
           within == IsWithinTimeWindows(s)
           effect == IF within THEN "none" ELSE IF s.force THEN "NoExecute" ELSE "NoSchedule"
           time == IF within THEN 0 ELSE now
           expect == (IF binding.dis THEN {} ELSE {"deflt"}) \union
                     (IF within THEN {} ELSE {"ootw"})
           free == ~binding.dis
<1>0. d = [NoNode EXCEPT !.exists = TRUE, !.deflt = free, !.ootw = effect, !.since = time,
                         !.expected = expect, !.offer = fl.offer]
  BY Zenon DEF TransformTaints
<1>2. now \in Nat /\ time \in Nat /\ time <= now
  BY LeasingAssumption DEF TypeInv, TypeOK
<1>3. effect \in Effect /\ free \in BOOLEAN /\ expect \in SUBSET {"deflt", "ootw"}
  BY DEF Effect
<1>4. fl.offer \in Nat
  BY DEF TypeInv, TypeOK, Flight
<1> HIDE DEF d, within, effect, time, expect, free
<1>1. d = [exists |-> TRUE, deflt |-> free, user |-> FALSE, ootw |-> effect, since |-> time,
           expected |-> expect, offer |-> fl.offer]
  BY <1>0 DEF NoNode
<1>5. d \in VNode /\ d.exists /\ ~d.user /\ d.since = time /\ d.offer = fl.offer
  BY <1>1, <1>2, <1>3, <1>4 DEF VNode
<1>6. QED
  BY <1>2, <1>5 DEF d

\* mergeTaints keeps the user's taint and, for as long as there is one, the time of
\* the out-of-time-windows taint.
LEMMA MergeFacts ==
  ASSUME NEW c \in VNode, NEW d \in VNode
  PROVE  LET t == MergeTaints(c, d) IN
         /\ t \in VNode /\ Merged(c, t)
         /\ t.since \in {c.since, d.since} /\ t.offer = d.offer /\ t.exists = d.exists
<1> DEFINE t == MergeTaints(c, d)
           keep == c.ootw # "none" /\ "ootw" \notin c.expected
           deflt == d.deflt \/ (c.deflt /\ "deflt" \notin c.expected)
           effect == IF d.ootw = "none" /\ keep THEN c.ootw ELSE d.ootw
           time == IF c.ootw # "none" /\ (d.ootw # "none" \/ keep) THEN c.since ELSE d.since
<1>0. t = [d EXCEPT !.deflt = deflt, !.user = c.user, !.ootw = effect, !.since = time]
  BY Zenon DEF MergeTaints
<1>2. /\ deflt \in BOOLEAN /\ effect \in Effect /\ time \in Nat
      /\ time \in {c.since, d.since}
      /\ c.ootw # "none" /\ effect # "none" => time = c.since
  BY DEF VNode, Effect
<1>3. /\ c.user \in BOOLEAN /\ d.exists \in BOOLEAN /\ d.offer \in Nat
      /\ d.expected \in SUBSET {"deflt", "ootw"}
  BY DEF VNode
<1> HIDE DEF t, keep, deflt, effect, time
<1>1. t = [exists |-> d.exists, deflt |-> deflt, user |-> c.user, ootw |-> effect,
           since |-> time, expected |-> d.expected, offer |-> d.offer]
  BY <1>0 DEF VNode
<1>4. /\ t \in VNode /\ t.user = c.user /\ t.ootw = effect /\ t.since = time
      /\ t.offer = d.offer /\ t.exists = d.exists
  BY <1>1, <1>2, <1>3 DEF VNode
<1>5. QED
  BY <1>2, <1>4 DEF t, Merged

\* A status update leaves the taints of the node alone; the patch writes only them.
LEMMA WithTaintsFacts ==
  ASSUME NEW t \in VNode, NEW c \in VNode
  PROVE  LET n == WithTaintsOf(t, c) IN
         /\ n \in VNode /\ n.exists = t.exists /\ n.offer = t.offer
         /\ n.user = c.user /\ n.ootw = c.ootw /\ n.since = c.since
BY DEF WithTaintsOf, VNode

----------------------------------------------------------------------------
(* What a policy offers and when.                                          *)

LEMMA AvailableType == Available \in Nat /\ Available <= Alloc /\ Usage \in Nat
BY LeasingAssumption DEF Available, Usage

\* CalculatePercentageLimit rounds down.
LEMMA PercentRoundsDown ==
  ASSUME NEW have \in Nat, NEW percent \in Nat
  PROVE  LET l == CalculatePercentageLimit(have, percent) IN
         /\ l \in Nat
         /\ percent <= 100 => 100 * l <= percent * have /\ percent * have < 100 * (l + 1)
         /\ percent > 100 => l = 0
<1>1. PICK x \in Nat : x = have * percent
  OBVIOUS
<1>2. percent * have = x
  BY <1>1
<1>3. x \div 100 \in Nat /\ 100 * (x \div 100) <= x /\ x < 100 * ((x \div 100) + 1)
  OBVIOUS
<1>4. QED
  BY <1>1, <1>2, <1>3 DEF CalculatePercentageLimit
\* The effective limit is the smaller of the limits given, if any is.
LEMMA EffectiveLimitFacts ==
  ASSUME NEW s \in PolicySpec, NEW have \in Nat
  PROVE  LET limit == CalculateEffectiveLimit(s, have)
             pct == CalculatePercentageLimit(have, s.percent)
         IN
         /\ limit = {} <=> s.quantity = 0 /\ s.percent = 0
         /\ \A l \in limit : /\ l \in Nat
                             /\ s.quantity # 0 => l <= s.quantity
                             /\ s.percent # 0 => l <= pct
                             /\ \/ s.quantity # 0 /\ l = s.quantity
                                \/ s.percent # 0 /\ l = pct
<1> DEFINE pct == CalculatePercentageLimit(have, s.percent)
           limit == CalculateEffectiveLimit(s, have)
<1>1. s.quantity \in Nat /\ s.percent \in Nat
  BY DEF PolicySpec
<1>2. pct \in Nat
  BY <1>1, PercentRoundsDown
<1> DEFINE limits == (IF s.quantity = 0 THEN {} ELSE {s.quantity}) \union
                     (IF s.percent = 0 THEN {} ELSE {pct})
<1>3. limit = {l \in limits : \A m \in limits : l <= m}
  BY DEF CalculateEffectiveLimit
<1> HIDE DEF pct, limit
<1>4. CASE s.quantity = 0 /\ s.percent = 0
  <2>1. limits = {}
    BY <1>4
  <2>2. limit = {}
    BY <1>3, <2>1
  <2>3. QED
    BY <1>4, <2>2 DEF limit
<1>5. CASE s.quantity # 0 /\ s.percent = 0
  <2>1. limits = {s.quantity}
    BY <1>5
  <2>2. limit = {s.quantity}
    BY <1>1, <1>3, <2>1
  <2>3. QED
    BY <1>1, <1>5, <2>2 DEF limit, pct
<1>6. CASE s.quantity = 0 /\ s.percent # 0
  <2>1. limits = {pct}
    BY <1>6
  <2>2. limit = {pct}
    BY <1>2, <1>3, <2>1
  <2>3. QED
    BY <1>2, <1>6, <2>2 DEF limit, pct
<1>7. CASE s.quantity # 0 /\ s.percent # 0
  <2>1. limits = {s.quantity, pct}
    BY <1>7
  <2> HIDE DEF limits
  <2>2. \A l \in limit : l \in {s.quantity, pct} /\ l <= s.quantity /\ l <= pct
    BY <1>3, <2>1
  <2>3. s.quantity \in limit \/ pct \in limit
    BY <1>1, <1>2, <1>3, <2>1
  <2>4. QED
    BY <1>1, <1>2, <1>7, <2>2, <2>3 DEF limit, pct
<1>8. QED
  BY <1>4, <1>5, <1>6, <1>7

\* The stricter of quantity and percentage, rounded down, capped by what the node's
\* own pods leave: no policy makes a virtual node offer more than that, or less.
\* (calculateAvailableResources, applyResourceLimits, calculateEffectiveLimit; Share
\* is the definition that NodeSettled compares with.)
THEOREM OfferIsShare ==
  \A s \in PolicySpec : /\ CalculateAvailableResources(s) \in 0..Alloc
                        /\ Share(s, CalculateAvailableResources(s))
<1> SUFFICES ASSUME NEW s \in PolicySpec
             PROVE  /\ CalculateAvailableResources(s) \in 0..Alloc
                    /\ Share(s, CalculateAvailableResources(s))
  OBVIOUS
<1> DEFINE have == Available
           limit == CalculateEffectiveLimit(s, have)
           lim == CHOOSE l \in limit : TRUE
           pct == CalculatePercentageLimit(have, s.percent)
           n == CalculateAvailableResources(s)
<1>1. s.quantity \in Nat /\ s.percent \in Nat /\ Alloc \in Nat
  BY LeasingAssumption DEF PolicySpec
<1>2. have \in Nat /\ have <= Alloc /\ Usage \in Nat
  BY AvailableType
<1>3. IF Usage <= Alloc THEN have = Alloc - Usage ELSE have = 0
  BY DEF Available
<1>4. n = IF limit = {} THEN have ELSE IF have <= lim THEN have ELSE lim
  BY DEF CalculateAvailableResources, ApplyResourceLimits, Least
<1> HIDE DEF have
<1>5. /\ pct \in Nat
      /\ s.percent <= 100 => 100 * pct <= s.percent * have /\ s.percent * have < 100 * (pct + 1)
      /\ s.percent > 100 => pct = 0
  BY <1>1, <1>2, PercentRoundsDown
<1>6. limit = {} <=> s.quantity = 0 /\ s.percent = 0
  BY <1>2, EffectiveLimitFacts
<1>7. limit # {} => /\ lim \in Nat
                    /\ s.quantity # 0 => lim <= s.quantity
                    /\ s.percent # 0 => lim <= pct
                    /\ \/ s.quantity # 0 /\ lim = s.quantity
                       \/ s.percent # 0 /\ lim = pct
  BY <1>2, EffectiveLimitFacts
<1> HIDE DEF limit, lim, pct, n
<1>8. /\ n \in 0..have
      /\ s.quantity # 0 => n <= s.quantity
      /\ s.percent # 0 => n <= pct
      /\ \/ n = have
         \/ s.quantity # 0 /\ n = s.quantity
         \/ s.percent # 0 /\ n = pct
  BY <1>1, <1>2, <1>4, <1>5, <1>6, <1>7
<1>9. PICK share \in Nat : share = s.percent * have
  BY <1>1, <1>2
<1>10. /\ s.percent \in 1..100 => 100 * n <= share
       /\ n = pct /\ s.percent \in 1..100 => share < 100 * (n + 1)
       /\ s.percent > 100 => n = 0
  BY <1>1, <1>2, <1>5, <1>8, <1>9
<1>11. WithinLimits(s, n)
  BY <1>1, <1>2, <1>3, <1>8, <1>9, <1>10 DEF WithinLimits, have
<1>12. ~WithinLimits(s, n + 1)
  <2>1. CASE n = have
    BY <1>1, <1>2, <1>3, <2>1 DEF WithinLimits
  <2>2. CASE s.quantity # 0 /\ n = s.quantity
    BY <1>1, <2>2 DEF WithinLimits
  <2>3. CASE s.percent # 0 /\ n = pct
    <3>1. CASE s.percent > 100
      BY <1>1, <1>10, <3>1 DEF WithinLimits
    <3>2. CASE s.percent \in 1..100
      BY <1>8, <1>9, <1>10, <2>3, <3>2 DEF WithinLimits, have
    <3>3. QED
      BY <1>1, <2>3, <3>1, <3>2
  <2>4. QED
    BY <1>8, <2>1, <2>2, <2>3
<1>13. QED
  BY <1>1, <1>2, <1>8, <1>11, <1>12 DEF Share, n
\* Reduction of a minute of today or tomorrow to a minute of the day.
LEMMA MinuteOfDay ==
  ASSUME NEW x \in Nat, x < 2 * DayLen
  PROVE  x % DayLen = IF x < DayLen THEN x ELSE x - DayLen
<1>1. DayLen \in Nat /\ DayLen > 0
  BY LeasingAssumption
<1>2. x % DayLen \in 0..(DayLen - 1) /\ x = DayLen * (x \div DayLen) + (x % DayLen)
  BY <1>1
<1>3. x \div DayLen \in Int
  BY <1>1
<1>4. PICK k \in Int, r \in 0..(DayLen - 1) : k = x \div DayLen /\ r = x % DayLen /\ x = DayLen * k + r
  BY <1>1, <1>2, <1>3
<1>5. k \in {0, 1}
  <2>1. ASSUME k >= 2 PROVE FALSE
    <3>1. DayLen * k >= DayLen * 2
      BY <1>1, <2>1
    <3>2. QED
      BY <1>1, <1>4, <3>1
  <2>2. ASSUME k <= -1 PROVE FALSE
    <3>1. DayLen * k <= DayLen * (-1)
      BY <1>1, <2>2
    <3>2. QED
      BY <1>1, <1>4, <3>1
  <2>3. QED
    BY <2>1, <2>2
<1>6. CASE k = 0
  BY <1>1, <1>4, <1>6
<1>7. CASE k = 1
  BY <1>1, <1>4, <1>7
<1>8. QED
  BY <1>5, <1>6, <1>7

\* A window covers the minutes from its start to its end, also over midnight.
LEMMA RangeIsCovered ==
  ASSUME NEW t \in Minute, NEW w \in Window
  PROVE  IsTimeInRange(t, w) <=> w.start # None /\ w.end # None /\ t \in Covered(w)
<1>0. DayLen \in Nat /\ DayLen > 0 /\ None \notin Minute
  BY LeasingAssumption
<1>1. CASE w.start = None \/ w.end = None
  BY <1>1 DEF IsTimeInRange
<1>2. CASE w.start # None /\ w.end # None
  <2> DEFINE a == w.start
             b == w.end
             len == (b - a + DayLen) % DayLen
  <2>1. a \in Minute /\ b \in Minute
    BY <1>2 DEF Window
  <2>2. a \in Nat /\ b \in Nat /\ t \in Nat /\ a < DayLen /\ b < DayLen /\ t < DayLen
    BY <1>0, <2>1 DEF Minute
  <2> HIDE DEF a, b
  <2>3. len = IF b < a THEN b - a + DayLen ELSE b - a
    <3> DEFINE x == b - a + DayLen
    <3>1. x \in Nat /\ x < 2 * DayLen
      BY <1>0, <2>2
    <3> HIDE DEF x
    <3>2. x % DayLen = IF x < DayLen THEN x ELSE x - DayLen
      BY Zenon, <3>1, MinuteOfDay
    <3>3. len = x % DayLen
      BY DEF x
    <3> HIDE DEF len
    <3>4. QED
      BY <1>0, <2>2, <3>2, <3>3 DEF x
  <2>4. Covered(w) = {(a + k) % DayLen : k \in 0..len}
    BY DEF Covered, a, b
  <2> HIDE DEF len
  <2>5. \A k \in 0..len : (a + k) % DayLen = IF a + k < DayLen THEN a + k ELSE (a + k) - DayLen
    <3> SUFFICES ASSUME NEW k \in 0..len
                 PROVE  (a + k) % DayLen = IF a + k < DayLen THEN a + k ELSE (a + k) - DayLen
      OBVIOUS
    <3>1. PICK x \in Nat : x = a + k /\ x < 2 * DayLen
      BY <1>0, <2>2, <2>3
    <3>2. x % DayLen = IF x < DayLen THEN x ELSE x - DayLen
      BY Zenon, <3>1, MinuteOfDay
    <3>3. x = a + k
      BY <3>1
    <3>4. QED
      BY Zenon, <3>2, <3>3
  <2>6. t \in Covered(w) <=> \E k \in 0..len : t = IF a + k < DayLen THEN a + k ELSE (a + k) - DayLen
    BY <2>4, <2>5
  <2>7. IsTimeInRange(t, w) <=> IF b < a THEN t >= a \/ t <= b ELSE t >= a /\ t <= b
    BY <1>2 DEF IsTimeInRange, a, b
  <2>8. CASE t >= a
    <3>1. t - a \in 0..(DayLen - 1) /\ t = IF a + (t - a) < DayLen THEN a + (t - a) ELSE (a + (t - a)) - DayLen
      BY <1>0, <2>2, <2>8
    <3>2. t \in Covered(w) <=> t - a <= len
      BY <1>0, <2>2, <2>3, <2>6, <2>8, <3>1
    <3>3. QED
      BY <1>0, <1>2, <2>2, <2>3, <2>7, <2>8, <3>2
  <2>9. CASE t < a
    <3>1. t + DayLen - a \in 0..(DayLen - 1)
      BY <1>0, <2>2, <2>9
    <3>2. t \in Covered(w) <=> t + DayLen - a <= len
      BY <1>0, <2>2, <2>3, <2>6, <2>9, <3>1
    <3>3. QED
      BY <1>0, <1>2, <2>2, <2>3, <2>7, <2>9, <3>2
  <2>10. QED
    BY <2>2, <2>8, <2>9
<1>3. QED
  BY <1>1, <1>2

\* A policy is within its windows exactly in the minutes that one of them covers on
\* its days, whatever the length of the day and also over midnight.
\* (IsWithinTimeWindows and isTimeInRange of the policy's type, which both controllers
\* call; Open is the definition that Settles and Reclaimed compare with.)
THEOREM WindowsAgree ==
  ASSUME now \in Nat
  PROVE  \A s \in PolicySpec : IsWithinTimeWindows(s) <=> Open(s)
<1> SUFFICES ASSUME NEW s \in PolicySpec
             PROVE  IsWithinTimeWindows(s) <=> Open(s)
  OBVIOUS
<1>1. Clock \in Minute
  BY LeasingAssumption DEF Clock, Minute
<1>2. \A w \in s.windows : IsTimeInRange(Clock, w) <=> w.start # None /\ w.end # None /\ Clock \in Covered(w)
  BY <1>1, RangeIsCovered DEF PolicySpec
<1> HIDE DEF Clock
<1>3. QED
  BY <1>2 DEF IsWithinTimeWindows, Open
----------------------------------------------------------------------------
(* Types.                                                                  *)

LEMMA PolicyTypes ==
  /\ NoPolicy \in PolicyObject /\ GonePolicy \in PolicyObject /\ ~Exists(GonePolicy)
  /\ \A s \in Specs : NewPolicy(s) \in PolicyObject /\ NewPolicy(s).spec = s
<1>1. NoPolicy \in PolicyObject
  BY DEF NoPolicy, PolicyObject, Phase
<1>2. GonePolicy \in PolicyObject /\ GonePolicy.st = "gone"
  BY <1>1 DEF GonePolicy, PolicyObject
<1>3. \A s \in Specs : NewPolicy(s) \in PolicyObject /\ NewPolicy(s).spec = s
  BY <1>1 DEF NewPolicy, PolicyObject
<1>4. QED
  BY <1>1, <1>2, <1>3 DEF Exists

\* updatePolicyStatus changes nothing but the status.
LEMMA StatusFacts ==
  ASSUME NEW c \in PolicyObject
  PROVE  /\ UpdatePolicyStatus(c) \in PolicyObject
         /\ UpdatePolicyStatus(c).spec = c.spec
<1> DEFINE within == IsWithinTimeWindows(c.spec)
           phase == IF within THEN "Active" ELSE "Inactive"
<1>1. within \in BOOLEAN /\ phase \in Phase /\ "Failed" \in Phase
  BY DEF IsWithinTimeWindows, Phase
<1>2. UpdatePolicyStatus(c) \in {c, [c EXCEPT !.phase = "Failed", !.active = FALSE],
                                 [c EXCEPT !.phase = phase, !.active = within]}
  BY Zenon DEF UpdatePolicyStatus
<1> HIDE DEF within, phase
<1>3. [c EXCEPT !.phase = phase, !.active = within] \in PolicyObject
  BY <1>1 DEF PolicyObject
<1>4. [c EXCEPT !.phase = "Failed", !.active = FALSE] \in PolicyObject
  BY <1>1 DEF PolicyObject
<1>5. /\ [c EXCEPT !.phase = phase, !.active = within].spec = c.spec
      /\ [c EXCEPT !.phase = "Failed", !.active = FALSE].spec = c.spec
  BY DEF PolicyObject
<1>6. QED
  BY <1>2, <1>3, <1>4, <1>5

\* The policies in the API server and in the cache.
PoliciesTyped ==
  /\ policy \in [Policy -> PolicyObject] /\ pc \in [Policy -> PolicyObject]
  /\ \A p \in Policy : Exists(policy[p]) => policy[p].spec \in Specs
  /\ \A p \in Policy : Exists(pc[p]) => pc[p].spec \in Specs

\* The rest of the types: clock, binding, node, pods, queues and reconcile.
NodeTyped ==
  /\ now \in 0..Horizon
  /\ binding \in [sel : {"all", "in", "out"}, dis : BOOLEAN]
  /\ known \in [sel : {"all", "in", "out"}, dis : BOOLEAN]
  /\ load \in {"none", "running", "finished"}
  /\ vn \in VNode /\ vc \in VNode
  /\ vn.offer <= Alloc /\ vn.since <= now
  /\ fl \in Flight /\ torn \in BOOLEAN
  /\ fl.pc \in {"write", "patch", "window"} => fl.spec \in Specs
  /\ fl.offer <= Alloc
  /\ fl.t.since <= now /\ fl.t.offer <= Alloc /\ vc.since <= now /\ fl.c.since <= now

RestTyped ==
  /\ pod \in [Pods -> {"unborn", "active", "deleting", "gone"}]
  /\ podc \in [Pods -> {"unborn", "active", "deleting", "gone"}]
  /\ pq \in SUBSET Policy /\ bq \in BOOLEAN /\ q \in BOOLEAN
  /\ edits \in Nat /\ taints \in Nat /\ errors \in Nat

LEMMA TypeParts ==
  /\ TypeInv <=> PoliciesTyped /\ NodeTyped /\ RestTyped
  /\ TypeInv' <=> PoliciesTyped' /\ NodeTyped' /\ RestTyped'
BY DEF TypeInv, TypeOK, SpecsKnown, PoliciesTyped, NodeTyped, RestTyped

LEMMA TypeInit == Init => TypeInv
<1> SUFFICES ASSUME Init PROVE TypeInv
  OBVIOUS
<1>1. \A p \in Policy : Start[p] \in Specs \/ Start[p] = None
  BY LeasingAssumption
<1>2. \A p \in Policy : policy[p] \in {NoPolicy, NewPolicy(Start[p])}
  BY DEF Init
<1>3. \A p \in Policy : /\ policy[p] \in PolicyObject
                        /\ Exists(policy[p]) => policy[p].spec \in Specs
  <2> TAKE p \in Policy
  <2>1. CASE Start[p] = None
    <3>1. policy[p] = NoPolicy
      BY <2>1 DEF Init
    <3>2. ~Exists(NoPolicy)
      BY DEF NoPolicy, Exists
    <3>3. QED
      BY <3>1, <3>2, PolicyTypes
  <2>2. CASE Start[p] # None
    BY <1>1, <2>2, PolicyTypes DEF Init
  <2>3. QED
    BY <2>1, <2>2
<1>4. PoliciesTyped
  BY <1>3 DEF Init, PoliciesTyped
<1>5. NodeTyped
  <2>1. /\ NoNode.since = 0 /\ NoNode.offer = 0
        /\ Idle.pc = "idle" /\ Idle.offer = 0 /\ Idle.t = NoNode /\ Idle.c = NoNode
    BY DEF NoNode, Idle
  <2>2. Dawn \in 0..Horizon /\ 0 <= Alloc
    BY LeasingAssumption
  <2>3. binding \in [sel : {"all", "in", "out"}, dis : BOOLEAN] /\ known = binding
    BY DEF Init
  <2>4. /\ now = Dawn /\ load = "none" /\ vn = NoNode /\ vc = NoNode /\ fl = Idle
        /\ torn \in BOOLEAN
    BY DEF Init
  <2>5. QED
    BY <2>1, <2>2, <2>3, <2>4, NodeTypes DEF NodeTyped
<1>6. RestTyped
  BY DEF Init, RestTyped
<1>7. QED
  BY <1>4, <1>5, <1>6, TypeParts

LEMMA UpdateTyped ==
  ASSUME TypeInv, NEW p \in Policy, NEW d \in PolicyObject, NEW again \in BOOLEAN,
         Exists(d) => d.spec \in Specs, UpdatePolicy(p, d, again), UNCHANGED pc
  PROVE  PoliciesTyped' /\ pq' \in SUBSET Policy
<1>0. PoliciesTyped /\ RestTyped
  BY TypeParts
<1>1. CASE policy[p] = pc[p]
  <2>1. policy' = [policy EXCEPT ![p] = d] /\ pq' \in {pq, pq \ {p}}
    BY <1>1 DEF UpdatePolicy
  <2>2. QED
    BY <1>0, <2>1 DEF PoliciesTyped, RestTyped, Exists
<1>2. CASE policy[p] # pc[p]
  BY <1>0, <1>2 DEF UpdatePolicy, PoliciesTyped, RestTyped
<1>3. QED
  BY <1>1, <1>2

LEMMA PolicyStepTyped ==
  ASSUME TypeInv, NEW p \in Policy, ReconcilePolicy(p) \/ DeliverPolicy(p)
  PROVE  TypeInv'
<1>0. PoliciesTyped /\ NodeTyped /\ RestTyped
  BY TypeParts
<1>1. CASE ReconcilePolicy(p)
  <2>0. pc[p] \in PolicyObject /\ (Exists(pc[p]) => pc[p].spec \in Specs) /\ UNCHANGED pc
    BY <1>0, <1>1 DEF PoliciesTyped, ReconcilePolicy
  <2>1. NodeTyped'
    BY <1>0, <1>1 DEF ReconcilePolicy, NodeTyped
  <2>a. ASSUME Ours(pc[p]), TriggerNodeReEvaluation(pc[p].spec) PROVE q' \in BOOLEAN
    <3>1. pc[p].spec.sel \in BOOLEAN
      BY <2>0, <2>a, LeasingAssumption DEF Ours, PolicySpec
    <3>2. QED
      BY <1>0, <2>a, <3>1 DEF TriggerNodeReEvaluation, RestTyped
  <2>2. PoliciesTyped' /\ pq' \in SUBSET Policy /\ q' \in BOOLEAN
    <3>1. CASE SkipPolicy(p)
      BY <1>0, <2>0, <3>1 DEF SkipPolicy, PoliciesTyped, RestTyped
    <3>2. CASE HandlePolicyDeletion(p)
      BY <2>0, <2>a, <3>2, UpdateTyped, PolicyTypes DEF HandlePolicyDeletion
    <3>3. CASE AddFinalizer(p)
      <4> DEFINE d == [pc[p] EXCEPT !.fin = TRUE]
      <4>1. d \in PolicyObject /\ d.spec = pc[p].spec /\ d.st = pc[p].st
        BY <2>0 DEF PolicyObject
      <4> HIDE DEF d
      <4>2. UpdatePolicy(p, d, FALSE) /\ UNCHANGED q
        BY <3>3 DEF AddFinalizer, d
      <4>3. PoliciesTyped' /\ pq' \in SUBSET Policy
        BY <2>0, <4>1, <4>2, UpdateTyped DEF Exists
      <4>4. QED
        BY <1>0, <4>2, <4>3 DEF RestTyped
    <3>4. CASE SyncPolicy(p)
      <4> DEFINE d == UpdatePolicyStatus(pc[p])
      <4>1. d \in PolicyObject /\ d.spec = pc[p].spec /\ pc[p].spec \in Specs
        BY <2>0, <3>4, StatusFacts DEF SyncPolicy, Ours
      <4> HIDE DEF d
      <4>2. CASE d # pc[p]
        <5>1. UpdatePolicy(p, d, TRUE) /\ UNCHANGED q
          BY <3>4, <4>2 DEF SyncPolicy, d
        <5>2. PoliciesTyped' /\ pq' \in SUBSET Policy
          BY <2>0, <4>1, <5>1, UpdateTyped
        <5>3. QED
          BY <1>0, <5>1, <5>2 DEF RestTyped
      <4>3. CASE d = pc[p]
        <5>1. TriggerNodeReEvaluation(pc[p].spec) /\ UNCHANGED <<policy, pq>> /\ Ours(pc[p])
          BY <3>4, <4>3 DEF SyncPolicy, d
        <5>2. QED
          BY <1>0, <2>0, <2>a, <5>1 DEF RestTyped, PoliciesTyped
      <4>4. QED
        BY <4>2, <4>3
    <3>5. QED
      BY <1>1, <3>1, <3>2, <3>3, <3>4 DEF ReconcilePolicy
  <2>3. RestTyped'
    BY <1>0, <1>1, <2>2 DEF ReconcilePolicy, RestTyped, bounds
  <2>4. QED
    BY <2>1, <2>2, <2>3, TypeParts
<1>2. CASE DeliverPolicy(p)
  <2>1. NodeTyped'
    BY <1>0, <1>2 DEF DeliverPolicy, NodeTyped
  <2>2. PoliciesTyped'
    BY <1>0, <1>2 DEF DeliverPolicy, PoliciesTyped, Exists
  <2>3. RestTyped'
    BY <1>0, <1>2 DEF DeliverPolicy, RestTyped, bounds
  <2>4. QED
    BY <2>1, <2>2, <2>3, TypeParts
<1>3. QED
  BY <1>1, <1>2
\* A reconcile that ends leaves nothing in flight.
LEMMA IdleTyped ==
  ASSUME NodeTyped, fl' = Idle, vn' = vn, vc' = vc, UNCHANGED <<now, binding, known, load>>,
         torn' \in BOOLEAN
  PROVE  NodeTyped'
<1>1. /\ Idle \in Flight /\ Idle.pc = "idle" /\ Idle.offer = 0
      /\ Idle.t.since = 0 /\ Idle.t.offer = 0 /\ Idle.c.since = 0
  BY NodeTypes DEF Idle, NoNode
<1>2. now \in Nat /\ Alloc \in Nat
  BY LeasingAssumption DEF NodeTyped
<1>3. QED
  BY <1>1, <1>2 DEF NodeTyped

LEMMA BeginTyped == TypeInv /\ Begin => TypeInv'
<1> SUFFICES ASSUME TypeInv, Begin PROVE TypeInv'
  OBVIOUS
<1>0. PoliciesTyped /\ NodeTyped /\ RestTyped
  BY TypeParts
<1>a. Idle \in Flight /\ Idle.t = NoNode /\ Idle.c = NoNode /\ NoNode.since = 0 /\ NoNode.offer = 0
  BY NodeTypes DEF Idle, NoNode
<1>b. now \in Nat /\ Alloc \in Nat
  BY <1>0, LeasingAssumption DEF NodeTyped
<1>c. /\ UNCHANGED <<now, binding, known, load, vn, vc, torn, policy, pc, pod, podc, pq, bq>>
      /\ UNCHANGED <<edits, taints, errors>> /\ q' = FALSE
  BY DEF Begin, bounds
<1>1. CASE fl' = [Idle EXCEPT !.pc = "remove"]
  <2>1. fl' \in Flight /\ fl'.pc = "remove" /\ fl'.offer = 0 /\ fl'.t = NoNode /\ fl'.c = NoNode
    BY <1>1, <1>a DEF Flight, Idle
  <2>2. NodeTyped'
    BY <1>0, <1>a, <1>b, <1>c, <2>1 DEF NodeTyped
  <2>3. QED
    BY <1>0, <2>2, <1>c, TypeParts DEF PoliciesTyped, RestTyped
<1>2. ASSUME NEW p \in Policy, Chosen(p),
             fl' = [Idle EXCEPT !.pc = "write", !.spec = pc[p].spec,
                                !.offer = CalculateAvailableResources(pc[p].spec)]
      PROVE  TypeInv'
  <2> DEFINE offer == CalculateAvailableResources(pc[p].spec)
  <2>1. pc[p].spec \in Specs
    BY <1>0, <1>2 DEF Chosen, GetApplicablePolicies, Ours, PoliciesTyped
  <2>2. offer \in Nat /\ offer <= Alloc
    BY <1>b, <2>1, OfferIsShare, LeasingAssumption
  <2> HIDE DEF offer
  <2>3. fl' = [Idle EXCEPT !.pc = "write", !.spec = pc[p].spec, !.offer = offer]
    BY <1>2 DEF offer
  <2>4. /\ fl' \in Flight /\ fl'.pc = "write" /\ fl'.offer = offer /\ fl'.spec \in Specs
        /\ fl'.t = NoNode /\ fl'.c = NoNode
    BY <1>a, <2>1, <2>2, <2>3 DEF Flight, Idle
  <2>5. NodeTyped'
    BY <1>0, <1>a, <1>b, <1>c, <2>2, <2>4 DEF NodeTyped
  <2>6. QED
    BY <1>0, <2>5, <1>c, TypeParts DEF PoliciesTyped, RestTyped
<1>3. QED
  BY <1>1, <1>2 DEF Begin

\* createOrUpdateVirtualNode, its three outcomes: the node made, its status updated
\* from the cached copy, or nothing.
LEMMA WriteFacts ==
  ASSUME TypeInv, CreateOrUpdateVirtualNode
  PROVE  /\ TypeInv'
         /\ \/ /\ ~vc.exists /\ ~vn.exists /\ vn'.exists /\ fl'.pc = "window" /\ fl'.c = fl.c
            \/ /\ vc.exists /\ vn = vc /\ fl'.pc \in {"patch", "window"} /\ fl'.c = vc
               /\ Merged(vc, fl'.t)
               /\ vn'.exists /\ SameOotw(vn', vc) /\ vn'.user = vc.user
            \/ UNCHANGED vn /\ fl' = Idle
<1> DEFINE d == TransformTaints(fl.spec)
           t == MergeTaints(vc, d)
<1>0. PoliciesTyped /\ NodeTyped /\ RestTyped
  BY TypeParts
<1>a. /\ fl \in Flight /\ fl.offer \in Nat /\ fl.offer <= Alloc /\ vc \in VNode /\ vn \in VNode
      /\ now \in Nat /\ Alloc \in Nat /\ vc.since <= now /\ fl.spec \in Specs /\ vc.since \in Nat
  BY <1>0, LeasingAssumption DEF NodeTyped, Flight, CreateOrUpdateVirtualNode, VNode
<1>1. d \in VNode /\ d.exists /\ d.since <= now /\ d.offer = fl.offer
  BY TransformFacts
<1> HIDE DEF d
<1>2. /\ t \in VNode /\ Merged(vc, t) /\ t.since <= now /\ t.offer = fl.offer /\ t.exists
  <2>1. t \in VNode /\ Merged(vc, t) /\ t.since \in {vc.since, d.since}
        /\ t.offer = d.offer /\ t.exists = d.exists
    BY <1>a, <1>1, MergeFacts
  <2>2. QED
    BY <1>a, <1>1, <2>1
<1> HIDE DEF t
<1>3. /\ UNCHANGED <<now, binding, known, load, vc, torn, policy, pc, pod, podc, pq, bq>>
      /\ UNCHANGED <<edits, taints, errors>>
  BY DEF CreateOrUpdateVirtualNode, bounds
<1>4. CASE /\ ~vc.exists /\ ~vn.exists /\ vn' = d
           /\ fl' = [fl EXCEPT !.pc = "window"] /\ UNCHANGED q
  <2>1. /\ fl' \in Flight /\ fl'.pc = "window" /\ fl'.spec = fl.spec /\ fl'.offer = fl.offer
        /\ fl'.t = fl.t /\ fl'.c = fl.c
    BY <1>a, <1>4 DEF Flight
  <2>2. NodeTyped'
    BY <1>0, <1>1, <1>3, <1>4, <1>a, <2>1 DEF NodeTyped
  <2>3. TypeInv'
    BY <1>0, <1>3, <1>4, <2>2, TypeParts DEF PoliciesTyped, RestTyped
  <2>4. QED
    BY <1>1, <1>4, <2>1, <2>3
<1>5. CASE /\ vc.exists /\ vn = vc /\ vn' = WithTaintsOf(t, vc)
           /\ fl' = [fl EXCEPT !.pc = IF SameTaints(vc, t) THEN "window" ELSE "patch",
                               !.c = vc, !.t = t]
           /\ UNCHANGED q
  <2> DEFINE step == IF SameTaints(vc, t) THEN "window" ELSE "patch"
  <2>0. step \in {"patch", "window"}
    OBVIOUS
  <2>b. fl' = [fl EXCEPT !.pc = step, !.c = vc, !.t = t]
    BY <1>5
  <2> HIDE DEF step
  <2>1. /\ fl' \in Flight /\ fl'.pc \in {"patch", "window"} /\ fl'.spec = fl.spec
        /\ fl'.offer = fl.offer /\ fl'.t = t /\ fl'.c = vc
    BY <1>a, <1>2, <2>0, <2>b DEF Flight
  <2>2. /\ vn' \in VNode /\ vn'.exists /\ vn'.offer = fl.offer
        /\ vn'.user = vc.user /\ vn'.ootw = vc.ootw /\ vn'.since = vc.since
    BY <1>a, <1>2, <1>5, WithTaintsFacts
  <2>3. NodeTyped'
    BY <1>0, <1>2, <1>3, <1>a, <2>1, <2>2 DEF NodeTyped
  <2>4. TypeInv'
    BY <1>0, <1>3, <1>5, <2>3, TypeParts DEF PoliciesTyped, RestTyped
  <2>5. QED
    BY <1>2, <1>5, <2>1, <2>2, <2>4 DEF SameOotw
<1>6. CASE Again /\ UNCHANGED vn
  <2>1. NodeTyped'
    BY <1>0, <1>3, <1>6, IdleTyped DEF Again, NodeTyped
  <2>2. RestTyped'
    BY <1>0, <1>3, <1>6 DEF Again, RestTyped
  <2>3. QED
    BY <1>0, <1>3, <1>6, <2>1, <2>2, TypeParts DEF Again, PoliciesTyped
<1>7. QED
  BY <1>4, <1>5, <1>6 DEF CreateOrUpdateVirtualNode, d, t
\* The patch writes the taints of fl.t, and nothing else.
LEMMA PatchFacts ==
  ASSUME TypeInv, PatchTaints
  PROVE  /\ TypeInv'
         /\ \/ /\ vn.exists /\ vn'.exists /\ SameOotw(vn', fl.t) /\ vn'.user = fl.t.user
               /\ fl'.pc = "window" /\ fl'.c = fl.c /\ fl'.t = fl.t
            \/ UNCHANGED vn /\ fl' = Idle
<1>0. PoliciesTyped /\ NodeTyped /\ RestTyped
  BY TypeParts
<1>1. /\ UNCHANGED <<now, binding, known, load, vc, torn, policy, pc, pod, podc, pq, bq>>
      /\ UNCHANGED <<edits, taints, errors>> /\ fl.pc = "patch"
  BY DEF PatchTaints, bounds
<1>2. CASE vn.exists
  <2>a. /\ fl \in Flight /\ fl.t \in VNode /\ vn \in VNode /\ fl.spec \in Specs
    BY <1>0, <1>1 DEF NodeTyped, Flight
  <2>1. /\ vn' = WithTaintsOf(vn, fl.t) /\ fl' = [fl EXCEPT !.pc = "window"] /\ UNCHANGED q
    BY <1>2 DEF PatchTaints
  <2>2. /\ fl' \in Flight /\ fl'.pc = "window" /\ fl'.spec = fl.spec
        /\ fl'.offer = fl.offer /\ fl'.t = fl.t /\ fl'.c = fl.c
    BY <2>a, <2>1 DEF Flight
  <2>3. /\ vn' \in VNode /\ vn'.exists = vn.exists /\ vn'.offer = vn.offer
        /\ vn'.user = fl.t.user /\ vn'.ootw = fl.t.ootw /\ vn'.since = fl.t.since
    BY <2>a, <2>1, WithTaintsFacts
  <2>4. NodeTyped'
    BY <1>0, <1>1, <2>a, <2>2, <2>3 DEF NodeTyped
  <2>5. TypeInv'
    BY <1>0, <1>1, <2>1, <2>4, TypeParts DEF PoliciesTyped, RestTyped
  <2>6. QED
    BY <1>2, <2>2, <2>3, <2>5 DEF SameOotw
<1>3. CASE ~vn.exists
  <2>1. Again /\ UNCHANGED vn
    BY <1>3 DEF PatchTaints
  <2>2. NodeTyped'
    BY <1>0, <1>1, <2>1, IdleTyped DEF Again, NodeTyped
  <2>3. RestTyped'
    BY <1>0, <1>1, <2>1 DEF Again, RestTyped
  <2>4. QED
    BY <1>0, <1>1, <2>1, <2>2, <2>3, TypeParts DEF Again, PoliciesTyped
<1>4. QED
  BY <1>2, <1>3

LEMMA EvictTyped ==
  ASSUME RestTyped, NEW victims, ForceEvict(victims)
  PROVE  pod' \in [Pods -> {"unborn", "active", "deleting", "gone"}]
BY DEF RestTyped, ForceEvict

LEMMA EndTyped ==
  ASSUME TypeInv, HandleOutOfTimeWindows \/ HandleNodeDeletion \/ Fail
  PROVE  TypeInv'
<1>0. PoliciesTyped /\ NodeTyped /\ RestTyped
  BY TypeParts
<1>1. CASE HandleOutOfTimeWindows
  <2>1. /\ UNCHANGED <<now, binding, known, load, vn, vc, torn, policy, pc, podc, pq, bq>>
        /\ UNCHANGED <<edits, taints, errors>> /\ fl' = Idle /\ q' = TRUE
    BY <1>1 DEF HandleOutOfTimeWindows, bounds, Again
  <2>2. NodeTyped'
    BY <1>0, <2>1, IdleTyped DEF NodeTyped
  <2>3. pod' \in [Pods -> {"unborn", "active", "deleting", "gone"}]
    BY <1>0, <1>1, EvictTyped DEF HandleOutOfTimeWindows, RestTyped
  <2>4. QED
    BY <1>0, <2>1, <2>2, <2>3, TypeParts DEF RestTyped, PoliciesTyped
<1>2. CASE HandleNodeDeletion
  <2>1. /\ UNCHANGED <<now, binding, known, load, vc, torn, policy, pc, podc, pq, bq>>
        /\ UNCHANGED <<edits, taints, errors>> /\ fl' = Idle /\ q' \in BOOLEAN
    BY <1>0, <1>2 DEF HandleNodeDeletion, bounds, Again, Return, RestTyped
  <2>2. vn' = vn \/ vn' = NoNode
    BY <1>2 DEF HandleNodeDeletion
  <2>3. NodeTyped'
    <3>1. CASE vn' = vn
      BY <1>0, <2>1, <3>1, IdleTyped DEF NodeTyped
    <3>2. CASE vn' = NoNode
      <4>1. /\ Idle \in Flight /\ Idle.pc = "idle" /\ Idle.offer = 0 /\ NoNode \in VNode
            /\ Idle.t.since = 0 /\ Idle.t.offer = 0 /\ Idle.c.since = 0
            /\ NoNode.since = 0 /\ NoNode.offer = 0
        BY NodeTypes DEF Idle, NoNode
      <4>2. now \in Nat /\ Alloc \in Nat
        BY <1>0, LeasingAssumption DEF NodeTyped
      <4>3. QED
        BY <1>0, <2>1, <3>2, <4>1, <4>2 DEF NodeTyped
    <3>3. QED
      BY <2>2, <3>1, <3>2
  <2>4. pod' \in [Pods -> {"unborn", "active", "deleting", "gone"}]
    BY <1>0, <1>2, EvictTyped DEF HandleNodeDeletion, RestTyped
  <2>5. QED
    BY <1>0, <2>1, <2>3, <2>4, TypeParts DEF RestTyped, PoliciesTyped
<1>3. CASE Fail
  <2>1. /\ UNCHANGED <<now, binding, known, load, vn, vc, policy, pc, pod, podc, pq, bq>>
        /\ UNCHANGED <<edits, taints>> /\ fl' = Idle /\ q' = TRUE /\ errors' = errors + 1
        /\ torn' = (torn \/ fl.pc = "patch")
    BY <1>3 DEF Fail, Again
  <2>2. torn' \in BOOLEAN
    BY <1>0, <2>1 DEF NodeTyped
  <2>3. NodeTyped'
    BY <1>0, <2>1, <2>2, IdleTyped
  <2>4. QED
    BY <1>0, <2>1, <2>3, TypeParts DEF RestTyped, PoliciesTyped
<1>4. QED
  BY <1>1, <1>2, <1>3

LEMMA DeliveryTyped ==
  ASSUME TypeInv, ReconcileBinding \/ DeliverVirtualNode \/ \E x \in Pods : DeliverPod(x)
  PROVE  TypeInv'
<1>0. PoliciesTyped /\ NodeTyped /\ RestTyped
  BY TypeParts
<1>1. CASE ReconcileBinding
  <2>1. NodeTyped'
    BY <1>0, <1>1 DEF ReconcileBinding, NodeTyped
  <2>2. q' \in BOOLEAN
    BY <1>0, <1>1 DEF ReconcileBinding, RestTyped
  <2>3. QED
    BY <1>0, <1>1, <2>1, <2>2, TypeParts DEF ReconcileBinding, RestTyped, PoliciesTyped, bounds
<1>2. CASE DeliverVirtualNode
  <2>1. NodeTyped'
    BY <1>0, <1>2 DEF DeliverVirtualNode, NodeTyped
  <2>2. q' \in BOOLEAN
    BY <1>0, <1>2 DEF DeliverVirtualNode, RestTyped, NodeTyped
  <2>3. QED
    BY <1>0, <1>2, <2>1, <2>2, TypeParts DEF DeliverVirtualNode, RestTyped, PoliciesTyped, bounds
<1>3. ASSUME NEW x \in Pods, DeliverPod(x) PROVE TypeInv'
  <2>1. NodeTyped'
    BY <1>0, <1>3 DEF DeliverPod, NodeTyped
  <2>2. QED
    BY <1>0, <1>3, <2>1, TypeParts DEF DeliverPod, RestTyped, PoliciesTyped, bounds
<1>4. QED
  BY <1>1, <1>2, <1>3
LEMMA EnvironmentTyped == TypeInv /\ Environment => TypeInv'
<1> SUFFICES ASSUME TypeInv, Environment PROVE TypeInv'
  OBVIOUS
<1>0. PoliciesTyped /\ NodeTyped /\ RestTyped
  BY TypeParts
<1>1. CASE Tick
  <2>1. /\ UNCHANGED <<binding, known, load, vn, vc, fl, torn, policy, pc, pod, podc, pq, bq, q>>
        /\ UNCHANGED <<edits, taints, errors>> /\ now' = now + 1 /\ now < Horizon
    BY <1>1 DEF Tick, bounds
  <2>2. /\ now \in Nat /\ now' \in 0..Horizon /\ now' >= now
        /\ vn.since \in Nat /\ vc.since \in Nat /\ fl.t.since \in Nat /\ fl.c.since \in Nat
    BY <1>0, <2>1, LeasingAssumption DEF NodeTyped, VNode, Flight
  <2>3. /\ vn.since <= now' /\ vc.since <= now' /\ fl.t.since <= now' /\ fl.c.since <= now'
    BY <1>0, <2>1, <2>2 DEF NodeTyped
  <2>4. NodeTyped'
    BY <1>0, <2>1, <2>2, <2>3 DEF NodeTyped
  <2>5. QED
    BY <1>0, <2>1, <2>4, TypeParts DEF RestTyped, PoliciesTyped
<1>2. CASE EditBinding
  <2>1. binding' \in [sel : {"all", "in", "out"}, dis : BOOLEAN]
    BY <1>2 DEF EditBinding
  <2>2. NodeTyped'
    BY <1>0, <1>2, <2>1 DEF EditBinding, NodeTyped
  <2>3. QED
    BY <1>0, <1>2, <2>2, TypeParts DEF EditBinding, Edit, RestTyped, PoliciesTyped
<1>3. CASE OwnPod
  <2>1. load' \in {"none", "running", "finished"} /\ q' \in BOOLEAN
    BY <1>0, <1>3 DEF OwnPod, PodEvent, RestTyped
  <2>2. NodeTyped'
    BY <1>0, <1>3, <2>1 DEF OwnPod, NodeTyped
  <2>3. QED
    BY <1>0, <1>3, <2>1, <2>2, TypeParts DEF OwnPod, Edit, RestTyped, PoliciesTyped
<1>4. CASE UserTaint
  <2>1. vn' \in VNode /\ vn'.since = vn.since /\ vn'.offer = vn.offer
    BY <1>0, <1>4 DEF UserTaint, NodeTyped, VNode
  <2>2. NodeTyped'
    BY <1>0, <1>4, <2>1 DEF UserTaint, NodeTyped
  <2>3. QED
    BY <1>0, <1>4, <2>2, TypeParts DEF UserTaint, RestTyped, PoliciesTyped
<1>5. ASSUME NEW p \in Policy, EditPolicy(p) PROVE TypeInv'
  <2>0. policy[p] \in PolicyObject
    BY <1>0 DEF PoliciesTyped
  <2>1. NodeTyped'
    BY <1>0, <1>5 DEF EditPolicy, NodeTyped
  <2>2. ASSUME NEW d \in PolicyObject, Exists(d) => d.spec \in Specs,
               policy' = [policy EXCEPT ![p] = d]
        PROVE  PoliciesTyped'
    BY <1>0, <1>5, <2>2 DEF EditPolicy, PoliciesTyped, Exists
  <2>3. PoliciesTyped'
    <3>1. ASSUME NEW s \in Specs,
                 policy' = [policy EXCEPT ![p] = IF @.st = "absent" THEN NewPolicy(s)
                                                 ELSE [@ EXCEPT !.spec = s]]
          PROVE  PoliciesTyped'
      <4> DEFINE d == IF policy[p].st = "absent" THEN NewPolicy(s)
                      ELSE [policy[p] EXCEPT !.spec = s]
      <4>1. [policy[p] EXCEPT !.spec = s] \in PolicyObject /\ [policy[p] EXCEPT !.spec = s].spec = s
        BY <2>0 DEF PolicyObject
      <4>2. d \in PolicyObject /\ d.spec = s
        BY <4>1, PolicyTypes
      <4>3. policy' = [policy EXCEPT ![p] = d]
        BY <3>1
      <4> HIDE DEF d
      <4>4. QED
        BY <2>2, <4>2, <4>3
    <3>2. ASSUME policy[p].st = "live",
                 policy' = [policy EXCEPT ![p] = IF @.fin THEN [@ EXCEPT !.st = "deleting"]
                                                 ELSE GonePolicy]
          PROVE  PoliciesTyped'
      <4> DEFINE d == IF policy[p].fin THEN [policy[p] EXCEPT !.st = "deleting"] ELSE GonePolicy
      <4>1. /\ [policy[p] EXCEPT !.st = "deleting"] \in PolicyObject
            /\ [policy[p] EXCEPT !.st = "deleting"].spec = policy[p].spec
        BY <2>0 DEF PolicyObject
      <4>2. policy[p].spec \in Specs
        BY <1>0, <3>2 DEF PoliciesTyped, Exists
      <4>3. d \in PolicyObject /\ (Exists(d) => d.spec \in Specs)
        BY <4>1, <4>2, PolicyTypes
      <4>4. policy' = [policy EXCEPT ![p] = d]
        BY <3>2
      <4> HIDE DEF d
      <4>5. QED
        BY <2>2, <4>3, <4>4
    <3>3. QED
      BY <1>5, <3>1, <3>2 DEF EditPolicy
  <2>4. RestTyped'
    BY <1>0, <1>5 DEF EditPolicy, Edit, RestTyped
  <2>5. QED
    BY <2>1, <2>3, <2>4, TypeParts
<1>6. ASSUME NEW x \in Pods, VirtualSchedulerBind(x) \/ PodGone(x) PROVE TypeInv'
  <2>1. NodeTyped' /\ PoliciesTyped'
    BY <1>0, <1>6 DEF VirtualSchedulerBind, PodGone, NodeTyped, PoliciesTyped
  <2>2. RestTyped'
    BY <1>0, <1>6 DEF VirtualSchedulerBind, PodGone, RestTyped, bounds
  <2>3. QED
    BY <2>1, <2>2, TypeParts
<1>7. QED
  BY <1>1, <1>2, <1>3, <1>4, <1>5, <1>6 DEF Environment

LEMMA TypeStep == TypeInv /\ [Next]_vars => TypeInv'
<1> SUFFICES ASSUME TypeInv, [Next]_vars PROVE TypeInv'
  OBVIOUS
<1>1. CASE UNCHANGED vars
  <2>1. PoliciesTyped' /\ NodeTyped' /\ RestTyped'
    BY <1>1, TypeParts DEF vars, bounds, PoliciesTyped, NodeTyped, RestTyped
  <2>2. QED
    BY <2>1, TypeParts
<1>2. CASE Next
  BY <1>2, PolicyStepTyped, BeginTyped, WriteFacts, PatchFacts, EndTyped, DeliveryTyped,
     EnvironmentTyped DEF Next, Reconcile
<1>3. QED
  BY <1>1, <1>2

\* Clock, policies, virtual node, caches, queues and the reconcile in flight keep
\* their types; what the virtual node offers is at most what the node can allocate
\* and its taint is not from the future, for any policies, days and windows.
THEOREM LeasingTypeCorrect == Spec => []TypeOK
<1>1. TypeInv => TypeOK
  BY DEF TypeInv
<1>2. QED
  BY <1>1, TypeInit, TypeStep, PTL DEF Spec

----------------------------------------------------------------------------
(* Taints and grace periods.                                               *)

\* What a step does to the node, its cached copy and the reconcile, as far as the
\* out-of-time-windows taint and the user's are concerned.
Made == /\ fl.pc = "write" /\ ~vc.exists /\ ~vn.exists /\ vn'.exists
        /\ UNCHANGED <<vc, pod, now>> /\ fl'.pc = "window"
Updated == /\ fl.pc = "write" /\ vc.exists /\ vn = vc /\ vn'.exists /\ SameOotw(vn', vc)
           /\ vn'.user = vn.user
           /\ fl'.pc \in {"patch", "window"} /\ fl'.c = vc /\ Merged(vc, fl'.t)
           /\ UNCHANGED <<vc, pod, now>>
Patched == /\ fl.pc = "patch" /\ vn.exists /\ vn'.exists
           /\ SameOotw(vn', fl.t) /\ vn'.user = fl.t.user
           /\ fl'.pc = "window" /\ fl'.c = fl.c /\ fl'.t = fl.t
           /\ UNCHANGED <<vc, pod, now>>
Evicted == /\ fl.pc = "window" /\ fl'.pc = "idle" /\ UNCHANGED <<vn, vc, now>>
           /\ UNCHANGED pod \/ (vc.exists /\ Reclaim(fl.spec) /\ ForceEvict(Pods \ Tolerant))
Removed == /\ fl.pc = "remove" /\ fl'.pc = "idle" /\ UNCHANGED <<vc, now>>
           /\ vn' = vn \/ vn' = NoNode
Ended == fl'.pc \in {"idle", "write", "remove"} /\ UNCHANGED <<vn, vc, pod>>
Seen == vc' = vn /\ UNCHANGED <<vn, fl, pod>>
Marked == /\ UNCHANGED <<vc, fl, pod>> /\ taints' # taints
          /\ vn'.exists = vn.exists /\ SameOotw(vn', vn)
Aside == /\ UNCHANGED <<vn, vc, fl>>
         /\ \A x \in Pods : pod'[x] = "deleting" => pod[x] = "deleting"
TaintStep == \/ Made \/ Updated \/ Patched \/ Evicted \/ Removed
             \/ Ended \/ Seen \/ Marked \/ Aside

LEMMA NextTaintStep == TypeInv /\ [Next]_vars => TaintStep
<1> SUFFICES ASSUME TypeInv, [Next]_vars PROVE TaintStep
  OBVIOUS
<1>0. PoliciesTyped /\ NodeTyped /\ RestTyped /\ Idle.pc = "idle"
  BY TypeParts DEF Idle
<1>1. CASE UNCHANGED vars
  BY <1>1 DEF vars, TaintStep, Aside
<1>2. CASE \E p \in Policy : ReconcilePolicy(p) \/ DeliverPolicy(p)
  BY <1>2 DEF ReconcilePolicy, DeliverPolicy, TaintStep, Aside
<1>3. CASE ReconcileBinding
  BY <1>3 DEF ReconcileBinding, TaintStep, Aside
<1>4. CASE Begin
  <2>1. UNCHANGED <<vn, vc, pod>>
    BY <1>4 DEF Begin
  <2>2. fl'.pc \in {"write", "remove"}
    BY <1>4, NodeTypes DEF Begin, Idle
  <2>3. QED
    BY <2>1, <2>2 DEF TaintStep, Ended
<1>5. CASE CreateOrUpdateVirtualNode
  <2>1. UNCHANGED <<vc, pod, now>> /\ fl.pc = "write"
    BY <1>5 DEF CreateOrUpdateVirtualNode
  <2>2. QED
    BY <1>0, <1>5, <2>1, WriteFacts DEF TaintStep, Made, Updated, Ended
<1>6. CASE PatchTaints
  <2>1. UNCHANGED <<vc, pod, now>> /\ fl.pc = "patch"
    BY <1>6 DEF PatchTaints
  <2>2. QED
    BY <1>0, <1>6, <2>1, PatchFacts DEF TaintStep, Patched, Ended
<1>7. CASE HandleOutOfTimeWindows
  BY <1>0, <1>7 DEF HandleOutOfTimeWindows, Again, TaintStep, Evicted
<1>8. CASE HandleNodeDeletion
  BY <1>0, <1>8 DEF HandleNodeDeletion, Again, Return, TaintStep, Removed
<1>9. CASE Fail
  BY <1>0, <1>9 DEF Fail, Again, TaintStep, Ended
<1>10. CASE DeliverVirtualNode
  BY <1>10 DEF DeliverVirtualNode, TaintStep, Seen
<1>11. CASE \E x \in Pods : DeliverPod(x)
  BY <1>11 DEF DeliverPod, TaintStep, Aside
<1>12. CASE Environment
  <2>1. CASE Tick \/ EditBinding \/ OwnPod
    BY <2>1 DEF Tick, EditBinding, OwnPod, TaintStep, Aside
  <2>2. CASE UserTaint
    <3>1. vn'.exists = vn.exists /\ SameOotw(vn', vn)
      BY <1>0, <2>2 DEF UserTaint, NodeTyped, VNode, SameOotw
    <3>2. taints' # taints
      BY <1>0, <2>2 DEF UserTaint, RestTyped
    <3>3. QED
      BY <2>2, <3>1, <3>2 DEF UserTaint, TaintStep, Marked
  <2>3. CASE \E p \in Policy : EditPolicy(p)
    BY <2>3 DEF EditPolicy, TaintStep, Aside
  <2>4. CASE \E x \in Pods : VirtualSchedulerBind(x) \/ PodGone(x)
    <3>1. \A x \in Pods : pod'[x] = "deleting" => pod[x] = "deleting"
      BY <1>0, <2>4 DEF VirtualSchedulerBind, PodGone, RestTyped
    <3>2. QED
      BY <2>4, <3>1 DEF VirtualSchedulerBind, PodGone, TaintStep, Aside
  <2>5. QED
    BY <1>12, <2>1, <2>2, <2>3, <2>4 DEF Environment
<1>13. QED
  BY <1>1, <1>2, <1>3, <1>4, <1>5, <1>6, <1>7, <1>8, <1>9, <1>10, <1>11, <1>12 DEF Next, Reconcile

LEMMA FitsInit == Init => PatchFits /\ WindowFits
<1>1. Idle.pc = "idle"
  BY DEF Idle
<1>2. QED
  BY <1>1 DEF Init, PatchFits, WindowFits

LEMMA FitsStep == PatchFits /\ WindowFits /\ TaintStep => PatchFits' /\ WindowFits'
<1> SUFFICES ASSUME PatchFits, WindowFits, TaintStep PROVE PatchFits' /\ WindowFits'
  OBVIOUS
<1>1. CASE Made
  BY <1>1 DEF Made, PatchFits, WindowFits
<1>2. CASE Updated
  BY <1>2 DEF Updated, PatchFits, WindowFits, SameOotw
<1>3. CASE Patched
  BY <1>3 DEF Patched, PatchFits, WindowFits, SameOotw
<1>4. CASE Evicted \/ Removed \/ Ended
  BY <1>4 DEF Evicted, Removed, Ended, PatchFits, WindowFits
<1>5. CASE Seen
  BY <1>5 DEF Seen, PatchFits, WindowFits, SameOotw
<1>6. CASE Marked
  BY <1>6 DEF Marked, PatchFits, WindowFits, SameOotw
<1>7. CASE Aside
  BY <1>7 DEF Aside, PatchFits, WindowFits, SameOotw
<1>8. QED
  BY <1>1, <1>2, <1>3, <1>4, <1>5, <1>6, <1>7 DEF TaintStep

LEMMA Invariance == Spec => []IInv
<1>1. Init => IInv
  BY TypeInit, FitsInit DEF IInv
<1>2. IInv /\ [Next]_vars => IInv'
  BY TypeStep, NextTaintStep, FitsStep DEF IInv
<1>3. QED
  BY <1>1, <1>2, PTL DEF Spec
\* The grace period is not started again: for as long as the virtual node carries the
\* out-of-time-windows taint its time stays, whatever cached copy a reconcile merges
\* with, whichever effect the policies ask for, and whatever fails between the status
\* update and the patch (mergeTaints, createOrUpdateVirtualNode).
THEOREM GraceKept == Spec => GraceNotReset
<1>1. ASSUME IInv, [Next]_vars, vn.exists, vn'.exists, vn.ootw # "none", vn'.ootw # "none"
      PROVE  vn'.since = vn.since
  <2>1. TaintStep /\ PatchFits
    BY <1>1, NextTaintStep DEF IInv
  <2>2. CASE Made \/ Removed
    BY <1>1, <2>2 DEF Made, Removed, NoNode
  <2>3. CASE Updated
    BY <2>3 DEF Updated, SameOotw
  <2>4. CASE Patched
    BY <1>1, <2>1, <2>4 DEF Patched, PatchFits, SameOotw, Merged
  <2>5. CASE Evicted \/ Ended \/ Seen \/ Marked \/ Aside
    BY <2>5 DEF Evicted, Ended, Seen, Marked, Aside, SameOotw
  <2>6. QED
    BY <2>1, <2>2, <2>3, <2>4, <2>5 DEF TaintStep
<1>2. IInv /\ [Next]_vars =>
        [vn.exists /\ vn'.exists /\ vn.ootw # "none" /\ vn'.ootw # "none"
           => vn'.since = vn.since]_vars
  BY <1>1
<1>3. QED
  BY <1>2, Invariance, PTL DEF Spec, GraceNotReset

\* No pod of a lent node is evicted before the grace period of the virtual node itself
\* is over, although the reconcile measures it by a cached copy (handleOutOfTimeWindows,
\* forceEvictPodsOnVirtualNode); the exception is the one of the property.
THEOREM EvictionWaits == Spec => EvictedAfterGrace
<1> DEFINE Allowed(x) ==
      /\ fl.spec.force /\ x \notin Tolerant
      /\ \/ fl.spec.grace = 0
         \/ vn.ootw # "none" /\ now - vn.since >= fl.spec.grace
         \/ vn.ootw = "none" /\ fl.c.ootw # "none" /\ fl.t.ootw = "none"
<1>1. ASSUME IInv, [Next]_vars, NEW x \in Pods,
             pod[x] = "active", pod'[x] = "deleting", fl.pc # "remove"
      PROVE  Allowed(x)
  <2>1. TaintStep /\ WindowFits
    BY <1>1, NextTaintStep DEF IInv
  <2>2. Evicted /\ ~UNCHANGED pod
    BY <1>1, <2>1 DEF TaintStep, Made, Updated, Patched, Evicted, Removed, Ended, Seen, Marked, Aside
  <2>3. /\ fl.pc = "window" /\ vc.exists /\ Reclaim(fl.spec) /\ ForceEvict(Pods \ Tolerant)
    BY <2>2 DEF Evicted
  <2>4. x \notin Tolerant
    BY <1>1, <2>3 DEF ForceEvict
  <2>5. fl.spec.force /\ (fl.spec.grace = 0 \/ (vc.ootw # "none" /\ now - vc.since >= fl.spec.grace))
    BY <2>3 DEF Reclaim
  <2>6. \/ SameOotw(vc, vn)
        \/ SameOotw(vc, fl.c) /\ SameOotw(vn, fl.t) /\ Merged(fl.c, fl.t)
    BY <2>1, <2>3 DEF WindowFits
  <2>7. QED
    BY <2>4, <2>5, <2>6 DEF SameOotw, Merged
<1>2. IInv /\ [Next]_vars =>
        [\A x \in Pods : pod[x] = "active" /\ pod'[x] = "deleting" /\ fl.pc # "remove"
                           => Allowed(x)]_vars
  BY <1>1
<1>3. QED
  BY <1>2, Invariance, PTL DEF Spec, EvictedAfterGrace

\* The taint of a user goes only by the user, or by a patch of a reconcile that had
\* read the node before the user added it (mergeTaints, createOrUpdateVirtualNode).
THEOREM UserTaintSafe == Spec => UserTaintKept
<1>1. ASSUME IInv, [Next]_vars, vn.exists, vn'.exists, vn.user, ~vn'.user
      PROVE  taints' # taints \/ ~fl.c.user
  <2>1. TaintStep /\ PatchFits
    BY <1>1, NextTaintStep DEF IInv
  <2>2. CASE Made \/ Removed
    BY <1>1, <2>2 DEF Made, Removed, NoNode
  <2>3. CASE Updated
    BY <1>1, <2>3 DEF Updated
  <2>4. CASE Patched
    BY <1>1, <2>1, <2>4 DEF Patched, PatchFits, Merged
  <2>5. CASE Evicted \/ Ended \/ Seen \/ Marked \/ Aside
    BY <1>1, <2>5 DEF Evicted, Ended, Seen, Marked, Aside
  <2>6. QED
    BY <2>1, <2>2, <2>3, <2>4, <2>5 DEF TaintStep
<1>2. IInv /\ [Next]_vars =>
        [vn.exists /\ vn'.exists /\ vn.user /\ ~vn'.user => taints' # taints \/ ~fl.c.user]_vars
  BY <1>1
<1>3. QED
  BY <1>2, Invariance, PTL DEF Spec, UserTaintKept
==============================================================================
