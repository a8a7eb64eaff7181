---- MODULE Cron_proofs ----
(***************************************************************************)
(* What cron.py decides is what its documentation says, for every          *)
(* expression, and what the schema validated never raises later; what the  *)
(* CronBuilder composes of its inputs fires at the times they show, and    *)
(* what it says of an expression is when that one fires.                   *)
(***************************************************************************)
EXTENDS Cron, SequenceTheorems, TLAPS

(* range(s, e + 1, n), as listed and as arithmetic.                        *)
LEMMA Stepping ==
    ASSUME NEW s \in Int, NEW e \in Int, s <= e, NEW n \in Nat, n >= 1, NEW v \in Int
    PROVE  v \in {s + k * n : k \in 0..((e - s) \div n)}
           <=> s <= v /\ v <= e /\ (v - s) % n = 0
<1> DEFINE m == e - s
           d == v - s
<1>1. /\ m \in Nat /\ d \in Int /\ m \div n \in Nat
      /\ m = n * (m \div n) + (m % n) /\ (m % n) >= 0 /\ (m % n) < n
  OBVIOUS
<1>2. ASSUME NEW k \in 0..(m \div n), d = k * n
      PROVE  d >= 0 /\ d <= m /\ d % n = 0
  <2> HIDE DEF m, d
  <2>1. k * n >= 0 /\ k * n <= n * (m \div n)
    BY <1>1
  <2>2. (k * n) % n = 0
    OBVIOUS
  <2> QED
    BY <1>1, <1>2, <2>1, <2>2
<1>3. ASSUME d >= 0, d <= m, d % n = 0
      PROVE  \E k \in 0..(m \div n) : d = k * n
  <2> HIDE DEF m, d
  <2>1. d = (d \div n) * n /\ d \div n \in Nat
    BY <1>1, <1>3
  <2>2. d \div n <= m \div n
    BY <1>1, <1>3, <2>1
  <2> QED
    BY <1>1, <2>1, <2>2
<1>4. v \in {s + k * n : k \in 0..((e - s) \div n)}
      <=> \E k \in 0..(m \div n) : d = k * n
  BY <1>1
<1>5. d >= 0 /\ d <= m <=> s <= v /\ v <= e
  OBVIOUS
<1> HIDE DEF m
<1>6. (\E k \in 0..(m \div n) : d = k * n) <=> d >= 0 /\ d <= m /\ d % n = 0
  BY <1>2, <1>3
<1> QED
  BY <1>4, <1>5, <1>6

(* A term lists the values that its rule describes.                        *)
LEMMA TermMeaning ==
    ASSUME NEW t \in Terms, NEW lo \in Int, NEW hi \in Int,
           TermParses(t, lo, hi), NEW v \in lo..hi
    PROVE  v \in TermValues(t, lo, hi) <=> SaysTerm(t, v, lo)
<1> DEFINE n == StepOf(t)
<1>1. n \in Nat /\ n >= 1
  BY DEF Terms, TermParses, StepOf
<1>2. CASE t.base = "any"
  <2>1. TermValues(t, lo, hi) = {lo + k * n : k \in 0..((hi - lo) \div n)}
    BY <1>2 DEF TermValues
  <2>2. SaysTerm(t, v, lo) <=> (v - lo) % n = 0
    BY <1>2 DEF SaysTerm
  <2>3. lo <= hi /\ v \in Int
    OBVIOUS
  <2> HIDE DEF n
  <2>4. v \in {lo + k * n : k \in 0..((hi - lo) \div n)}
        <=> lo <= v /\ v <= hi /\ (v - lo) % n = 0
    BY <1>1, <2>3, Stepping
  <2> QED
    BY <2>1, <2>2, <2>4
<1>3. CASE t.base = "range"
  <2>1. TermValues(t, lo, hi) = {t.from + k * n : k \in 0..((t.to - t.from) \div n)}
    BY <1>3 DEF TermValues
  <2>2. SaysTerm(t, v, lo) <=> t.from <= v /\ v <= t.to /\ (v - t.from) % n = 0
    BY <1>3 DEF SaysTerm
  <2>3. t.from \in Int /\ t.to \in Int /\ t.from <= t.to /\ v \in Int
    BY <1>3 DEF TermParses
  <2> HIDE DEF n
  <2>4. v \in {t.from + k * n : k \in 0..((t.to - t.from) \div n)}
        <=> t.from <= v /\ v <= t.to /\ (v - t.from) % n = 0
    BY <1>1, <2>3, Stepping
  <2> QED
    BY <2>1, <2>2, <2>4
<1>4. CASE t.base = "one"
  <2>1. TermValues(t, lo, hi) = {t.from + k * n : k \in 0..((t.from - t.from) \div n)}
    BY <1>4 DEF TermValues
  <2>2. SaysTerm(t, v, lo) <=> v = t.from
    BY <1>4 DEF SaysTerm
  <2>3. t.from \in Int /\ t.from <= t.from /\ v \in Int
    BY <1>4 DEF TermParses
  <2> HIDE DEF n
  <2>4. v \in {t.from + k * n : k \in 0..((t.from - t.from) \div n)}
        <=> t.from <= v /\ v <= t.from /\ (v - t.from) % n = 0
    BY <1>1, <2>3, Stepping
  <2>5. v = t.from => (v - t.from) % n = 0
    BY <1>1, <2>3
  <2> QED
    BY <2>1, <2>2, <2>3, <2>4, <2>5
<1> QED
  BY <1>2, <1>3, <1>4 DEF TermParses, Terms

(* Nothing outside the field's bounds is listed.                           *)
LEMMA TermRange ==
    ASSUME NEW t \in Terms, NEW lo \in Int, NEW hi \in Int, lo <= hi,
           TermParses(t, lo, hi)
    PROVE  TermValues(t, lo, hi) \subseteq lo..hi
<1> DEFINE start == IF t.base = "any" THEN lo ELSE t.from
           end == IF t.base = "any" THEN hi ELSE IF t.base = "range" THEN t.to ELSE t.from
           n == StepOf(t)
<1>1. n \in Nat /\ n >= 1
  BY DEF Terms, TermParses, StepOf
<1>2. start \in Int /\ end \in Int /\ lo <= start /\ start <= end /\ end <= hi
  BY DEF Terms, TermParses
<1>3. TermValues(t, lo, hi) = {start + k * n : k \in 0..((end - start) \div n)}
  BY DEF TermValues
<1> HIDE DEF start, end, n
<1>4. (end - start) \div n \in Nat
  BY <1>1, <1>2
<1>5. ASSUME NEW v \in {start + k * n : k \in 0..((end - start) \div n)}
      PROVE  v \in lo..hi
  <2>1. v \in Int
    BY <1>1, <1>2, <1>4
  <2>2. start <= v /\ v <= end
    BY <1>1, <1>2, <1>5, <2>1, Stepping
  <2> QED
    BY <1>2, <2>1, <2>2
<1> QED
  BY <1>3, <1>5

Bounded(i) == FieldLow[i] \in Int /\ FieldHigh[i] \in Int /\ FieldLow[i] <= FieldHigh[i]

LEMMA FieldsBounded == \A i \in 1..5 : Bounded(i)
BY DEF Bounded, FieldLow, FieldHigh

(* A field lists the values that one of its terms describes.               *)
LEMMA FieldMeaning ==
    ASSUME NEW expr \in Seq(Seq(Terms)), Len(expr) = 5, NEW i \in 1..5,
           FieldParses(expr, i)
    PROVE  /\ FieldValues(expr, i) \subseteq FieldLow[i]..FieldHigh[i]
           /\ \A v \in FieldLow[i]..FieldHigh[i] :
                 v \in FieldValues(expr, i) <=> Says(expr[i], v, FieldLow[i])
<1> DEFINE lo == FieldLow[i]
           hi == FieldHigh[i]
           f == expr[i]
<1>1. lo \in Int /\ hi \in Int /\ lo <= hi
  BY FieldsBounded DEF Bounded
<1>2. f \in Seq(Terms)
  <2> DEFINE S == Seq(Terms)
  <2>1. expr \in Seq(S)
    OBVIOUS
  <2> HIDE DEF S
  <2>2. expr[i] \in S
    BY <2>1, ElementOfSeq
  <2> QED
    BY <2>2 DEF S
<1>3. \A j \in DOMAIN f : f[j] \in Terms
  BY <1>2
<1>4. \A j \in DOMAIN f : TermParses(f[j], lo, hi)
  BY DEF FieldParses
<1>5. FieldValues(expr, i) = UNION {TermValues(f[j], lo, hi) : j \in DOMAIN f}
  BY DEF FieldValues
<1>6. \A v : Says(f, v, lo) <=> \E j \in DOMAIN f : SaysTerm(f[j], v, lo)
  BY DEF Says
<1> HIDE DEF lo, hi, f
<1>7. \A j \in DOMAIN f : TermValues(f[j], lo, hi) \subseteq lo..hi
  BY <1>1, <1>3, <1>4, TermRange
<1>8. \A j \in DOMAIN f : \A v \in lo..hi :
         v \in TermValues(f[j], lo, hi) <=> SaysTerm(f[j], v, lo)
  BY <1>1, <1>3, <1>4, TermMeaning
<1>9. /\ FieldValues(expr, i) \subseteq lo..hi
      /\ \A v \in lo..hi : v \in FieldValues(expr, i) <=> Says(f, v, lo)
  BY <1>5, <1>6, <1>7, <1>8
<1> QED
  BY <1>9 DEF lo, hi, f

(* The weekday of the clock, in the two ways of counting.                  *)
LEMMA WeekdayMeaning ==
    ASSUME NEW when \in Instants
    PROVE  /\ CronWeekday(when) \in 0..6
           /\ CronWeekday(when) = IF when.weekday = 6 THEN 0 ELSE when.weekday + 1
<1>1. when.weekday \in 0..6
  BY InstantsAreInstants
<1> QED
  BY <1>1 DEF CronWeekday

(* An unrestricted field says every value.                                 *)
LEMMA StarSaysAll == \A v \in Int, lo \in Int : Says(Star, v, lo)
<1> SUFFICES ASSUME NEW v \in Int, NEW lo \in Int
             PROVE  Says(Star, v, lo)
  OBVIOUS
<1>1. 1 \in DOMAIN Star /\ Star[1] = Any
  BY DEF Star
<1>2. Any.base = "any" /\ Any.step = <<>>
  BY DEF Any, Term
<1>3. StepOf(Any) = 1
  BY <1>2 DEF StepOf
<1>4. (v - lo) % 1 = 0
  OBVIOUS
<1>5. SaysTerm(Any, v, lo)
  BY <1>2, <1>3, <1>4 DEF SaysTerm
<1> QED
  BY <1>1, <1>5 DEF Says

(* The day fields, unrestricted or not, decide as documented.              *)
LEMMA DayMeaning ==
    ASSUME NEW expr \in Seq(Seq(Terms)), NEW when \in Instants, Parses(expr, when)
    PROVE  DayMatches(expr, when) <=>
              LET wd == CronWeekday(when) IN
              CASE expr[3] = Star /\ expr[5] = Star -> TRUE
                [] expr[3] = Star /\ expr[5] # Star -> SaysDay(expr[5], wd)
                [] expr[3] # Star /\ expr[5] = Star -> Says(expr[3], when.day, 1)
                [] expr[3] # Star /\ expr[5] # Star ->
                       Says(expr[3], when.day, 1) \/ SaysDay(expr[5], wd)
<1> DEFINE wd == CronWeekday(when)
           dom == when.day \in FieldValues(expr, 3)
           dow == \E v \in FieldValues(expr, 5) : wd = IF v = 7 THEN 0 ELSE v
<1>1. Len(expr) = 5 /\ FieldParses(expr, 3) /\ FieldParses(expr, 5)
  BY DEF Parses
<1>2. dom <=> Says(expr[3], when.day, 1)
  <2>1. when.day \in 1..31
    BY InstantsAreInstants
  <2>2. \A v \in 1..31 : v \in FieldValues(expr, 3) <=> Says(expr[3], v, 1)
    BY <1>1, FieldMeaning DEF FieldLow, FieldHigh
  <2> QED
    BY <2>1, <2>2
<1>3. dow <=> SaysDay(expr[5], wd)
  <2>1. /\ FieldValues(expr, 5) \subseteq 0..7
        /\ \A v \in 0..7 : v \in FieldValues(expr, 5) <=> Says(expr[5], v, 0)
    BY <1>1, FieldMeaning DEF FieldLow, FieldHigh
  <2>2. wd \in 0..6
    BY WeekdayMeaning
  <2> HIDE DEF wd
  <2>3. dow <=> wd \in FieldValues(expr, 5) \/ (wd = 0 /\ 7 \in FieldValues(expr, 5))
    BY <2>1, <2>2
  <2> QED
    BY <2>1, <2>2, <2>3 DEF SaysDay
<1>4. expr[3] = Star => Says(expr[3], when.day, 1)
  <2>1. when.day \in 1..31
    BY InstantsAreInstants
  <2>2. \A v \in 1..31 : Says(Star, v, 1)
    BY StarSaysAll
  <2> QED
    BY <2>1, <2>2
<1>5. expr[5] = Star => SaysDay(expr[5], wd)
  <2>1. wd \in Int
    BY WeekdayMeaning
  <2> HIDE DEF wd
  <2>2. Says(Star, wd, 0)
    BY <2>1, StarSaysAll
  <2> QED
    BY <2>2 DEF SaysDay
<1>6. DayMatches(expr, when)
      <=> IF expr[3] # Star /\ expr[5] # Star THEN dom \/ dow ELSE dom /\ dow
  BY DEF DayMatches
<1> HIDE DEF wd, dom, dow
<1>7. DayMatches(expr, when)
      <=> CASE expr[3] = Star /\ expr[5] = Star -> TRUE
            [] expr[3] = Star /\ expr[5] # Star -> SaysDay(expr[5], wd)
            [] expr[3] # Star /\ expr[5] = Star -> Says(expr[3], when.day, 1)
            [] expr[3] # Star /\ expr[5] # Star ->
                   Says(expr[3], when.day, 1) \/ SaysDay(expr[5], wd)
  BY <1>2, <1>3, <1>4, <1>5, <1>6
<1> QED
  BY <1>7 DEF wd

(* matches() decides as documented.                                        *)
LEMMA MatchMeaning ==
    ASSUME NEW expr \in Seq(Seq(Terms)), NEW when \in Instants, Parses(expr, when)
    PROVE  Matches(expr, when) = "due" <=> IsDue(expr, when)
<1>1. Len(expr) = 5 /\ \A i \in 1..5 : FieldParses(expr, i)
  BY DEF Parses
<1>2. when.minute \in 0..59 /\ when.hour \in 0..23 /\ when.month \in 1..12
  BY InstantsAreInstants
<1>3. \A v \in 0..59 : v \in FieldValues(expr, 1) <=> Says(expr[1], v, 0)
  BY <1>1, FieldMeaning DEF FieldLow, FieldHigh
<1>4. \A v \in 0..23 : v \in FieldValues(expr, 2) <=> Says(expr[2], v, 0)
  BY <1>1, FieldMeaning DEF FieldLow, FieldHigh
<1>5. \A v \in 1..12 : v \in FieldValues(expr, 4) <=> Says(expr[4], v, 1)
  BY <1>1, FieldMeaning DEF FieldLow, FieldHigh
<1>6. Matches(expr, when) = "due"
      <=> /\ Says(expr[1], when.minute, 0)
          /\ Says(expr[2], when.hour, 0)
          /\ Says(expr[4], when.month, 1)
          /\ DayMatches(expr, when)
  BY <1>2, <1>3, <1>4, <1>5 DEF Matches
<1>7. IsDue(expr, when)
      <=> /\ Says(expr[1], when.minute, 0)
          /\ Says(expr[2], when.hour, 0)
          /\ Says(expr[4], when.month, 1)
          /\ DayMatches(expr, when)
  BY DayMeaning, WeekdayMeaning DEF IsDue
<1> QED
  BY <1>6, <1>7

PartsSet ==
    [frequency : Frequencies, minute : Typed \cup {0}, hour : Typed \cup {2},
     weekday : 0..6, dom : Typed \cup {1}]

(* What the preset inputs hold makes an expression.                        *)
LEMMA PartsMakeExpressions ==
    ASSUME NEW p \in PartsSet
    PROVE  CronFromParts(p) \in Seq(Seq(Terms))
<1> DEFINE N == Int \cup {Fraction}
           T == Seq(Terms)
<1>1. \A v \in N : Number(v) \in T
  <2> SUFFICES ASSUME NEW v \in N
               PROVE  Number(v) \in T
    OBVIOUS
  <2>1. One(v) \in Terms
    BY DEF One, Term, Terms
  <2> QED
    BY <2>1 DEF Number
<1>2. Star \in T
  <2>1. Any \in Terms
    BY DEF Any, Term, Terms
  <2> QED
    BY <2>1 DEF Star
<1>3. \A n \in N, lo \in Int, hi \in Int : Clamp(n, lo, hi) \in N
  BY DEF Clamp
<1>4. /\ p.minute \in N /\ p.hour \in N /\ p.weekday \in N /\ p.dom \in N
      /\ p.frequency \in Frequencies
  <2>1. /\ p.minute \in Typed \cup {0} /\ p.hour \in Typed \cup {2}
        /\ p.weekday \in 0..6 /\ p.dom \in Typed \cup {1}
        /\ p.frequency \in Frequencies
    BY DEF PartsSet
  <2>2. /\ Typed \cup {0} \subseteq N /\ Typed \cup {2} \subseteq N
        /\ 0..6 \subseteq N /\ Typed \cup {1} \subseteq N
    BY NumbersAreTyped
  <2> QED
    BY <2>1, <2>2
<1> DEFINE m == Number(Clamp(p.minute, 0, 59))
           h == Number(Clamp(p.hour, 0, 23))
           w == Number(Clamp(p.weekday, 0, 6))
           d == Number(Clamp(p.dom, 1, 31))
<1>5. m \in T /\ h \in T /\ w \in T /\ d \in T
  <2> HIDE DEF N, T
  <2>1. /\ Clamp(p.minute, 0, 59) \in N /\ Clamp(p.hour, 0, 23) \in N
        /\ Clamp(p.weekday, 0, 6) \in N /\ Clamp(p.dom, 1, 31) \in N
    BY <1>3, <1>4
  <2> QED
    BY <1>1, <2>1
<1>6. CronFromParts(p) \in { <<m, Star, Star, Star, Star>>, <<m, h, Star, Star, Star>>,
                             <<m, h, Star, Star, w>>, <<m, h, d, Star, Star>> }
  BY <1>4 DEF CronFromParts, Frequencies
<1> HIDE DEF m, h, w, d, T
<1>7. { <<m, Star, Star, Star, Star>>, <<m, h, Star, Star, Star>>,
        <<m, h, Star, Star, w>>, <<m, h, d, Star, Star>> } \subseteq Seq(T)
  BY <1>2, <1>5
<1> QED
  BY <1>6, <1>7 DEF T

(* A change of the preset inputs keeps TypeOK.                             *)
LEMMA SetPartType ==
    ASSUME TypeOK, NEW next \in PartsSet, SetPart(next)
    PROVE  TypeOK'
BY PartsMakeExpressions DEF TypeOK, SetPart, PartsSet

(* TypeOK holds of every reachable state: whatever the user does in the    *)
(* form of CronBuilder.tsx, it holds an expression, and that of the preset *)
(* inputs when they were the last to change.                               *)
THEOREM TypeCorrect == Spec => []TypeOK
<1>1. Init => TypeOK
  <2> SUFFICES ASSUME Init
               PROVE  TypeOK
    OBVIOUS
  <2>1. DefaultParts \in PartsSet
    BY DEF DefaultParts, PartsSet, Frequencies
  <2>2. CronFromParts(DefaultParts) \in Seq(Seq(Terms))
    BY <2>1, PartsMakeExpressions
  <2> QED
    BY <2>1, <2>2 DEF Init, TypeOK, PartsSet
<1>2. TypeOK /\ [Next]_vars => TypeOK'
  <2> SUFFICES ASSUME TypeOK, [Next]_vars
               PROVE  TypeOK'
    OBVIOUS
  <2>0. parts \in PartsSet
    BY DEF TypeOK, PartsSet
  <2>1. CASE SetFrequency
    <3>1. PICK f \in Frequencies : SetPart([parts EXCEPT !.frequency = f])
      BY <2>1 DEF SetFrequency
    <3>2. [parts EXCEPT !.frequency = f] \in PartsSet
      BY <2>0 DEF PartsSet
    <3> QED
      BY <3>1, <3>2, SetPartType
  <2>2. CASE SetMinute
    <3>1. PICK n \in Typed : SetPart([parts EXCEPT !.minute = n])
      BY <2>2 DEF SetMinute
    <3>2. [parts EXCEPT !.minute = n] \in PartsSet
      BY <2>0 DEF PartsSet
    <3> QED
      BY <3>1, <3>2, SetPartType
  <2>3. CASE SetHour
    <3>1. PICK n \in Typed : SetPart([parts EXCEPT !.hour = n])
      BY <2>3 DEF SetHour
    <3>2. [parts EXCEPT !.hour = n] \in PartsSet
      BY <2>0 DEF PartsSet
    <3> QED
      BY <3>1, <3>2, SetPartType
  <2>4. CASE SetWeekday
    <3>1. PICK n \in Weekdays : SetPart([parts EXCEPT !.weekday = n])
      BY <2>4 DEF SetWeekday
    <3>2. [parts EXCEPT !.weekday = n] \in PartsSet
      BY <2>0, WeekdaysAreWeekdays DEF PartsSet
    <3> QED
      BY <3>1, <3>2, SetPartType
  <2>5. CASE SetDom
    <3>1. PICK n \in Typed : SetPart([parts EXCEPT !.dom = n])
      BY <2>5 DEF SetDom
    <3>2. [parts EXCEPT !.dom = n] \in PartsSet
      BY <2>0 DEF PartsSet
    <3> QED
      BY <3>1, <3>2, SetPartType
  <2>6. ASSUME NEW m \in {"preset", "advanced"}, SwitchMode(m)
        PROVE  TypeOK'
    <3>1. CronFromParts(parts) \in Seq(Seq(Terms))
      BY <2>0, PartsMakeExpressions
    <3>2. mode' \in {"preset", "advanced"} /\ UNCHANGED <<open, parts>>
      BY <2>6 DEF SwitchMode
    <3>3. CASE m = "preset"
      <4>1. value' = CronFromParts(parts) /\ emitted' = TRUE
        BY <2>6, <3>3 DEF SwitchMode
      <4> QED
        BY <3>1, <3>2, <4>1 DEF TypeOK
    <3>4. CASE m # "preset"
      <4>1. UNCHANGED <<value, emitted>>
        BY <2>6, <3>4 DEF SwitchMode
      <4> QED
        BY <3>2, <4>1 DEF TypeOK
    <3> QED
      BY <3>3, <3>4
  <2>7. CASE TypeExpression
    <3>1. value' \in Seq(Seq(Terms))
      BY <2>7, ExpressionsAreExpressions DEF TypeExpression
    <3>2. emitted' = FALSE /\ UNCHANGED <<open, mode, parts>>
      BY <2>7 DEF TypeExpression
    <3> QED
      BY <3>1, <3>2 DEF TypeOK
  <2>8. ASSUME NEW when \in Instants, Save(when)
        PROVE  TypeOK'
    BY <2>8 DEF Save, TypeOK
  <2>9. CASE Open
    <3>1. DefaultParts \in PartsSet
      BY DEF DefaultParts, PartsSet, Frequencies
    <3>2. parts' = DefaultParts /\ value' = value
      BY <2>9 DEF Open
    <3>3. open' = TRUE /\ mode' = "preset" /\ emitted' = FALSE
      BY <2>9 DEF Open
    <3> QED
      BY <3>1, <3>2, <3>3 DEF TypeOK, PartsSet
  <2>10. CASE UNCHANGED vars
    BY <2>10 DEF vars, TypeOK
  <2> QED
    BY <2>1, <2>2, <2>3, <2>4, <2>5, <2>6, <2>7, <2>8, <2>9, <2>10 DEF Next
<1> QED
  BY <1>1, <1>2, PTL DEF Spec

(* matches() of cron.py says due exactly when the documented rules say so, *)
(* for every expression that parses and every minute of any calendar.      *)
THEOREM MatcherCorrect == Spec => []MatcherFollowsCron
<1>1. TypeOK => MatcherFollowsCron
  <2> SUFFICES ASSUME TypeOK, NEW when \in Instants, Matches(value, when) # "error"
               PROVE  Matches(value, when) = "due" <=> IsDue(value, when)
    BY DEF MatcherFollowsCron
  <2>1. value \in Seq(Seq(Terms))
    BY DEF TypeOK
  <2>2. Parses(value, when)
    BY DEF Matches
  <2> QED
    BY <2>1, <2>2, MatchMeaning
<1> QED
  BY <1>1, TypeCorrect, PTL

(* What ScheduleCreate and ScheduleUpdate accepted at the minute of the    *)
(* request never raises a CronError in a later heartbeat.                  *)
THEOREM StoredIsSafe == Spec => []StoredNeverFails
<1> DEFINE Accepted == \A when \in Instants : Parses(value, when)
           Stored == ~open => Accepted
<1>1. \A when \in Instants : Parses(value, when) <=> Matches(value, when) # "error"
  BY DEF Matches
<1>2. Init => Stored
  BY DEF Init
<1>3. Stored /\ [Next]_vars => Stored'
  <2> SUFFICES ASSUME Stored, [Next]_vars
               PROVE  Stored'
    OBVIOUS
  <2>1. CASE SetFrequency \/ SetMinute \/ SetHour \/ SetWeekday \/ SetDom
    <3>1. open' = TRUE
      BY <2>1 DEF SetFrequency, SetMinute, SetHour, SetWeekday, SetDom, SetPart
    <3> QED
      BY <3>1
  <2>2. CASE SwitchMode("preset") \/ SwitchMode("advanced") \/ TypeExpression \/ Open
    <3>1. open' = TRUE
      BY <2>2 DEF SwitchMode, TypeExpression, Open
    <3> QED
      BY <3>1
  <2>3. ASSUME NEW when \in Instants, Save(when)
        PROVE  Stored'
    <3>1. Parses(value, when) /\ value' = value
      BY <1>1, <2>3 DEF Save
    <3> QED
      BY <3>1 DEF Parses, FieldParses
  <2>4. CASE UNCHANGED vars
    BY <2>4 DEF vars, Parses, FieldParses
  <2> QED
    BY <2>1, <2>2, <2>3, <2>4 DEF Next
<1>4. Stored => StoredNeverFails
  BY DEF StoredNeverFails, Matches
<1> QED
  BY <1>2, <1>3, <1>4, PTL DEF Spec


----
(* The words and the inputs of CronBuilder.tsx                             *)

(* A field of digits says its number.                                      *)
LEMMA DigitsSay ==
    ASSUME NEW f \in Seq(Terms), IsDigits(f)
    PROVE  /\ f # Star /\ f[1].from \in Int
           /\ \A v, lo : Says(f, v, lo) <=> v = f[1].from
<1>1. DOMAIN f = {1} /\ f[1] \in Terms /\ f[1].base = "one" /\ f[1].from # Fraction
  BY DEF IsDigits
<1>2. f # Star
  <2>1. Star[1].base = "any"
    BY DEF Star, Any, Term
  <2> QED
    BY <1>1, <2>1
<1>3. f[1].from \in Int
  BY <1>1 DEF Terms
<1>4. \A v, lo : SaysTerm(f[1], v, lo) <=> v = f[1].from
  BY <1>1 DEF SaysTerm
<1> QED
  BY <1>1, <1>2, <1>3, <1>4 DEF Says

(* The fields of an expression that parses.                                *)
LEMMA FieldsAreFields ==
    ASSUME NEW expr \in Seq(Seq(Terms)), NEW when, Parses(expr, when), NEW i \in 1..5
    PROVE  /\ expr[i] \in Seq(Terms)
           /\ IsDigits(expr[i]) => expr[i][1].from \in FieldLow[i]..FieldHigh[i]
<1>1. Len(expr) = 5 /\ FieldParses(expr, i)
  BY DEF Parses
<1> DEFINE S == Seq(Terms)
<1>2. expr \in Seq(S)
  OBVIOUS
<1> HIDE DEF S
<1>3. expr[i] \in S
  BY <1>1, <1>2, ElementOfSeq
<1>4. expr[i] \in Seq(Terms)
  BY <1>3 DEF S
<1>5. ASSUME IsDigits(expr[i]) PROVE expr[i][1].from \in FieldLow[i]..FieldHigh[i]
  <2>1. 1 \in DOMAIN expr[i] /\ expr[i][1].base = "one"
    BY <1>4, <1>5 DEF IsDigits
  <2>2. TermParses(expr[i][1], FieldLow[i], FieldHigh[i])
    BY <1>1, <2>1 DEF FieldParses
  <2> QED
    BY <2>1, <2>2 DEF TermParses
<1> QED
  BY <1>4, <1>5

(* A number as day of the week, 7 being Sunday as well.                    *)
LEMMA WeekdayNumber ==
    ASSUME NEW f \in Seq(Terms), IsDigits(f), f[1].from \in 0..7, NEW wd \in 0..6
    PROVE  SaysDay(f, wd) <=> wd = f[1].from % 7
<1>1. PICK n \in 0..7 : n = f[1].from
  OBVIOUS
<1>2. SaysDay(f, wd) <=> wd = n \/ (wd = 0 /\ 7 = n)
  BY <1>1, DigitsSay DEF SaysDay
<1>3. wd = n % 7 <=> wd = n \/ (wd = 0 /\ 7 = n)
  OBVIOUS
<1> QED
  BY <1>1, <1>2, <1>3

(* What the documentation says is what the words of the summary say.       *)
LEMMA SummaryMeaning ==
    ASSUME NEW expr \in Seq(Seq(Terms)), NEW when \in Instants, Parses(expr, when),
           Summary(expr) # "custom"
    PROVE  IsDue(expr, when) <=> Told(expr, when)
<1> DEFINE wd == IF when.weekday = 6 THEN 0 ELSE when.weekday + 1
<1>1. when.minute \in 0..59 /\ when.hour \in 0..23 /\ when.month \in 1..12 /\ when.day \in 1..31
  BY InstantsAreInstants
<1>2. wd = CronWeekday(when) /\ wd \in 0..6
  BY WeekdayMeaning
<1> HIDE DEF wd
<1>3. expr[2] \in Seq(Terms) /\ expr[3] \in Seq(Terms) /\ expr[5] \in Seq(Terms)
  BY FieldsAreFields
<1>4. ASSUME IsDigits(expr[5]) PROVE SaysDay(expr[5], wd) <=> wd = expr[5][1].from % 7
  <2>1. PICK f : f = expr[5]
    OBVIOUS
  <2>2. FieldLow[5] = 0 /\ FieldHigh[5] = 7
    BY DEF FieldLow, FieldHigh
  <2>3. f \in Seq(Terms) /\ f[1].from \in FieldLow[5]..FieldHigh[5] /\ IsDigits(f)
    BY <1>4, <2>1, FieldsAreFields
  <2>4. SaysDay(f, wd) <=> wd = f[1].from % 7
    BY <1>2, <2>2, <2>3, WeekdayNumber
  <2> QED
    BY <2>1, <2>4
<1>5. /\ Says(Star, when.hour, 0) /\ Says(Star, when.month, 1)
  BY <1>1, StarSaysAll
<1>6. Len(expr) = 5
  BY DEF Parses
<1> DEFINE minute == Says(expr[1], when.minute, 0)
           s == Summary(expr)
<1>7. CASE expr[2] = Star /\ expr[3] = Star /\ expr[4] = Star /\ expr[5] = Star /\ s = "every hour"
  <2>1. IsDue(expr, when) <=> minute
    BY <1>5, <1>7 DEF IsDue
  <2>2. Told(expr, when) <=> minute
    BY <1>7 DEF Told
  <2> QED
    BY <2>1, <2>2
<1>8. CASE IsDigits(expr[2]) /\ expr[3] = Star /\ expr[4] = Star /\ expr[5] = Star /\ s = "every day"
  <2>1. IsDue(expr, when) <=> minute /\ Says(expr[2], when.hour, 0)
    BY <1>5, <1>8 DEF IsDue
  <2>2. Told(expr, when) <=> minute /\ when.hour = expr[2][1].from
    BY <1>8 DEF Told
  <2>3. Says(expr[2], when.hour, 0) <=> when.hour = expr[2][1].from
    BY <1>3, <1>8, DigitsSay
  <2> QED
    BY <2>1, <2>2, <2>3
<1>9. CASE IsDigits(expr[2]) /\ expr[3] = Star /\ expr[4] = Star /\ IsDigits(expr[5]) /\ s = "every week"
  <2>1. expr[5] # Star
    BY <1>3, <1>9, DigitsSay
  <2>2. IsDue(expr, when) <=> minute /\ Says(expr[2], when.hour, 0) /\ SaysDay(expr[5], wd)
    BY <1>5, <1>9, <2>1 DEF IsDue, wd
  <2>3. Told(expr, when) <=> minute /\ when.hour = expr[2][1].from /\ wd = expr[5][1].from % 7
    BY <1>2, <1>9 DEF Told
  <2>4. Says(expr[2], when.hour, 0) <=> when.hour = expr[2][1].from
    BY <1>3, <1>9, DigitsSay
  <2>5. SaysDay(expr[5], wd) <=> wd = expr[5][1].from % 7
    BY <1>4, <1>9
  <2> QED
    BY <2>2, <2>3, <2>4, <2>5
<1>10. CASE IsDigits(expr[2]) /\ IsDigits(expr[3]) /\ expr[4] = Star /\ expr[5] = Star /\ s = "every month"
  <2>1. expr[3] # Star
    BY <1>3, <1>10, DigitsSay
  <2>2. IsDue(expr, when) <=> minute /\ Says(expr[2], when.hour, 0) /\ Says(expr[3], when.day, 1)
    BY <1>5, <1>10, <2>1 DEF IsDue
  <2>3. Told(expr, when) <=> minute /\ when.hour = expr[2][1].from /\ when.day = expr[3][1].from
    BY <1>10 DEF Told
  <2>4. Says(expr[2], when.hour, 0) <=> when.hour = expr[2][1].from
    BY <1>3, <1>10, DigitsSay
  <2>5. Says(expr[3], when.day, 1) <=> when.day = expr[3][1].from
    BY <1>3, <1>10, DigitsSay
  <2> QED
    BY <2>2, <2>3, <2>4, <2>5
<1> QED
  BY <1>6, <1>7, <1>8, <1>9, <1>10 DEF Summary

(* The nearest number in range is the one that clamping gives.             *)
LEMMA ClampIsNearest ==
    ASSUME NEW n \in Int, NEW lo \in Int, NEW hi \in Int, lo <= hi
    PROVE  Clamp(n, lo, hi) = Nearest(n, lo..hi) /\ Clamp(n, lo, hi) \in lo..hi
<1> DEFINE c == IF n < lo THEN lo ELSE IF n > hi THEN hi ELSE n
           near(v) == \A w \in lo..hi : (v - n) * (v - n) <= (w - n) * (w - n)
<1>1. Clamp(n, lo, hi) = c /\ c \in lo..hi
  BY NumbersAreTyped DEF Clamp
<1>2. \A a, b \in Nat : a <= b => a * a <= b * b
  OBVIOUS
<1>3. \A a, b \in Nat : a * a <= b * b => a <= b
  <2> SUFFICES ASSUME NEW a \in Nat, NEW b \in Nat, a > b PROVE a * a > b * b
    OBVIOUS
  <2>1. a * a >= (b + 1) * (b + 1)
    BY <1>2
  <2>2. (b + 1) * (b + 1) = b * b + 2 * b + 1
    OBVIOUS
  <2> QED
    BY <2>1, <2>2
<1> DEFINE gap(v) == IF v >= n THEN v - n ELSE n - v
<1>4. \A v \in Int : gap(v) \in Nat /\ gap(v) * gap(v) = (v - n) * (v - n)
  OBVIOUS
<1>5. \A w \in lo..hi : gap(c) <= gap(w) /\ (gap(w) <= gap(c) => w = c)
  OBVIOUS
<1> HIDE DEF c, gap
<1>6. \A v, w \in lo..hi : (v - n) * (v - n) <= (w - n) * (w - n) <=> gap(v) <= gap(w)
  <2> SUFFICES ASSUME NEW v \in lo..hi, NEW w \in lo..hi
               PROVE  (v - n) * (v - n) <= (w - n) * (w - n) <=> gap(v) <= gap(w)
    OBVIOUS
  <2>1. PICK a, b \in Nat : a = gap(v) /\ b = gap(w)
    BY <1>4
  <2>2. a * a = (v - n) * (v - n) /\ b * b = (w - n) * (w - n)
    BY <1>4, <2>1
  <2>3. a * a <= b * b <=> a <= b
    BY <1>2, <1>3
  <2> QED
    BY <2>1, <2>2, <2>3
<1>7. \A v \in lo..hi : near(v) <=> v = c
  BY <1>1, <1>5, <1>6
<1>8. Nearest(n, lo..hi) = CHOOSE v \in lo..hi : near(v)
  BY DEF Nearest
<1> HIDE DEF near
<1>9. (CHOOSE v \in lo..hi : near(v)) = c
  BY <1>1, <1>7
<1> QED
  BY <1>1, <1>8, <1>9

(* An unrestricted field and one of a number in range parse; the number    *)
(* says itself.                                                            *)
LEMMA StarParses ==
    ASSUME NEW expr, NEW i \in 1..5, expr[i] = Star
    PROVE  FieldParses(expr, i)
<1>1. DOMAIN Star = {1} /\ Star[1] = Any
  BY DEF Star
<1>2. Any.base = "any" /\ StepOf(Any) = 1
  BY DEF Any, Term, StepOf
<1>3. \A lo, hi : TermParses(Any, lo, hi)
  BY <1>2 DEF TermParses
<1> QED
  BY <1>1, <1>3 DEF FieldParses

LEMMA NumberSays ==
    ASSUME NEW n \in Int
    PROVE  /\ Number(n) \in Seq(Terms) /\ Number(n) # Star /\ IsDigits(Number(n)) /\ Number(n)[1].from = n
           /\ DOMAIN Number(n) = {1} /\ \A lo, hi : n \in lo..hi => TermParses(Number(n)[1], lo, hi)
           /\ \A v, lo : Says(Number(n), v, lo) <=> v = n
<1>1. PICK t : t = One(n)
  OBVIOUS
<1>2. t \in Terms /\ t.base = "one" /\ t.from = n /\ t.step = <<>>
  BY <1>1 DEF One, Term, Terms
<1>3. PICK f : f = Number(n)
  OBVIOUS
<1>4. f = <<t>>
  BY <1>1, <1>3 DEF Number
<1>5. f \in Seq(Terms) /\ Len(f) = 1 /\ f[1] = t /\ DOMAIN f = {1}
  BY <1>2, <1>4
<1>6. IsDigits(f)
  BY <1>2, <1>5, NumbersAreTyped DEF IsDigits
<1>7. f # Star /\ \A v, lo : Says(f, v, lo) <=> v = n
  BY <1>2, <1>5, <1>6, DigitsSay
<1>8. \A lo, hi : n \in lo..hi => TermParses(t, lo, hi)
  BY <1>2 DEF TermParses, StepOf
<1> QED
  BY <1>2, <1>3, <1>5, <1>6, <1>7, <1>8

LEMMA NumberParses ==
    ASSUME NEW expr, NEW i \in 1..5, NEW n \in FieldLow[i]..FieldHigh[i], expr[i] = Number(n)
    PROVE  FieldParses(expr, i)
<1>1. n \in Int
  BY FieldsBounded DEF Bounded
<1>2. DOMAIN expr[i] = {1} /\ TermParses(expr[i][1], FieldLow[i], FieldHigh[i])
  BY <1>1, NumberSays
<1> QED
  BY <1>2 DEF FieldParses

LEMMA FieldRanges ==
    /\ FieldLow[1]..FieldHigh[1] = 0..59 /\ FieldLow[2]..FieldHigh[2] = 0..23
    /\ FieldLow[3]..FieldHigh[3] = 1..31 /\ FieldLow[4]..FieldHigh[4] = 1..12
    /\ FieldLow[5]..FieldHigh[5] = 0..7
BY DEF FieldLow, FieldHigh

LEMMA InputsAreClamped ==
    ASSUME NEW n \in Int, NEW range \in {<<0, 59>>, <<0, 23>>, <<1, 31>>}
    PROVE  /\ Clamp(n, range[1], range[2]) = Nearest(n, range[1]..range[2])
           /\ Clamp(n, range[1], range[2]) \in range[1]..range[2]
<1>1. PICK lo, hi : lo \in Int /\ hi \in Int /\ lo <= hi /\ range = <<lo, hi>>
  OBVIOUS
<1> QED
  BY <1>1, ClampIsNearest

(* The expression of whole preset inputs is due at the times they show.    *)
LEMMA PresetMeaning ==
    ASSUME NEW p \in PartsSet, IsWhole(p), NEW when \in Instants
    PROVE  Matches(CronFromParts(p), when) = IF PartsSay(p, when) THEN "due" ELSE "not due"
<1> DEFINE wd == IF when.weekday = 6 THEN 0 ELSE when.weekday + 1
<1>1. when.minute \in 0..59 /\ when.hour \in 0..23 /\ when.month \in 1..12 /\ when.day \in 1..31
  BY InstantsAreInstants
<1>2. wd = CronWeekday(when) /\ wd \in 0..6
  BY WeekdayMeaning
<1> HIDE DEF wd
<1>3. /\ p.frequency \in Frequencies /\ p.weekday \in 0..6 /\ p.minute \in Int
      /\ p.frequency # "hourly" => p.hour \in Int
      /\ p.frequency = "monthly" => p.dom \in Int
  <2>1. /\ p.frequency \in Frequencies /\ p.weekday \in 0..6 /\ p.minute \in Typed \cup {0}
        /\ p.hour \in Typed \cup {2} /\ p.dom \in Typed \cup {1}
    BY DEF PartsSet
  <2>2. \A k \in {0, 1, 2} : \A v : v \in Typed \cup {k} /\ v # Fraction => v \in Int
    BY NumbersAreTyped
  <2>3. p.minute # Fraction /\ (p.frequency # "hourly" => p.hour # Fraction)
        /\ (p.frequency = "monthly" => p.dom # Fraction)
    BY DEF IsWhole
  <2> QED
    BY <2>1, <2>2, <2>3
<1>4. PICK m, h, w, d : /\ m = Clamp(p.minute, 0, 59) /\ h = Clamp(p.hour, 0, 23)
                        /\ w = Clamp(p.weekday, 0, 6) /\ d = Clamp(p.dom, 1, 31)
  OBVIOUS
<1>5. m = Nearest(p.minute, 0..59) /\ m \in 0..59
  <2>1. PICK range : range = <<0, 59>>
    OBVIOUS
  <2>2. p.minute \in Int => /\ Clamp(p.minute, range[1], range[2]) = Nearest(p.minute, range[1]..range[2])
                         /\ Clamp(p.minute, range[1], range[2]) \in range[1]..range[2]
    BY <2>1, InputsAreClamped
  <2> QED
    BY <1>3, <1>4, <2>1, <2>2
<1>6. p.frequency # "hourly" => h = Nearest(p.hour, 0..23) /\ h \in 0..23
  <2>1. PICK range : range = <<0, 23>>
    OBVIOUS
  <2>2. p.hour \in Int => /\ Clamp(p.hour, range[1], range[2]) = Nearest(p.hour, range[1]..range[2])
                         /\ Clamp(p.hour, range[1], range[2]) \in range[1]..range[2]
    BY <2>1, InputsAreClamped
  <2> QED
    BY <1>3, <1>4, <2>1, <2>2
<1>7. w = p.weekday /\ w \in 0..6
  BY <1>3, <1>4, NumbersAreTyped DEF Clamp
<1>8. p.frequency = "monthly" => d = Nearest(p.dom, 1..31) /\ d \in 1..31
  <2>1. PICK range : range = <<1, 31>>
    OBVIOUS
  <2>2. p.dom \in Int => /\ Clamp(p.dom, range[1], range[2]) = Nearest(p.dom, range[1]..range[2])
                         /\ Clamp(p.dom, range[1], range[2]) \in range[1]..range[2]
    BY <2>1, InputsAreClamped
  <2> QED
    BY <1>3, <1>4, <2>1, <2>2
<1>9. PICK e : e = CronFromParts(p) /\ e \in Seq(Seq(Terms))
  BY PartsMakeExpressions
<1>10. Says(Star, when.hour, 0) /\ Says(Star, when.month, 1)
  BY <1>1, StarSaysAll
<1>11. m \in Int /\ w \in Int /\ (p.frequency # "hourly" => h \in Int) /\ (p.frequency = "monthly" => d \in Int)
  BY <1>5, <1>6, <1>7, <1>8
<1>12. Says(Number(m), when.minute, 0) <=> when.minute = m
  BY <1>11, NumberSays
<1>13. p.frequency # "hourly" => (Says(Number(h), when.hour, 0) <=> when.hour = h)
  BY <1>11, NumberSays
<1> SUFFICES Parses(e, when) /\ (IsDue(e, when) <=> PartsSay(p, when))
  BY <1>9, MatchMeaning DEF Matches
<1>14. CASE p.frequency = "hourly"
  <2>1. e = <<Number(m), Star, Star, Star, Star>>
    BY <1>4, <1>9, <1>14 DEF CronFromParts
  <2>2. e[1] = Number(m) /\ e[2] = Star /\ e[3] = Star /\ e[4] = Star /\ e[5] = Star /\ Len(e) = 5
    BY <2>1
  <2>3. FieldParses(e, 1)
    BY <1>5, <2>2, FieldRanges, NumberParses
  <2>4. FieldParses(e, 2) /\ FieldParses(e, 3) /\ FieldParses(e, 4) /\ FieldParses(e, 5)
    BY <2>2, StarParses
  <2>5. Parses(e, when)
    BY <2>2, <2>3, <2>4 DEF Parses
  <2>6. IsDue(e, when) <=> when.minute = m
    BY <1>10, <1>12, <2>2 DEF IsDue
  <2>7. PartsSay(p, when) <=> when.minute = m
    BY <1>5, <1>14 DEF PartsSay
  <2> QED
    BY <2>5, <2>6, <2>7
<1>15. CASE p.frequency = "daily"
  <2>1. e = <<Number(m), Number(h), Star, Star, Star>>
    BY <1>4, <1>9, <1>15 DEF CronFromParts
  <2>2. e[1] = Number(m) /\ e[2] = Number(h) /\ e[3] = Star /\ e[4] = Star /\ e[5] = Star /\ Len(e) = 5
    BY <2>1
  <2>3. FieldParses(e, 1) /\ FieldParses(e, 2)
    BY <1>5, <1>6, <1>15, <2>2, FieldRanges, NumberParses
  <2>4. FieldParses(e, 3) /\ FieldParses(e, 4) /\ FieldParses(e, 5)
    BY <2>2, StarParses
  <2>5. Parses(e, when)
    BY <2>2, <2>3, <2>4 DEF Parses
  <2>6. IsDue(e, when) <=> when.minute = m /\ when.hour = h
    BY <1>10, <1>12, <1>13, <1>15, <2>2 DEF IsDue
  <2>7. PartsSay(p, when) <=> when.minute = m /\ when.hour = h
    BY <1>5, <1>6, <1>15 DEF PartsSay
  <2> QED
    BY <2>5, <2>6, <2>7
<1>16. CASE p.frequency = "weekly"
  <2>1. e = <<Number(m), Number(h), Star, Star, Number(w)>>
    BY <1>4, <1>9, <1>16 DEF CronFromParts
  <2>2. e[1] = Number(m) /\ e[2] = Number(h) /\ e[3] = Star /\ e[4] = Star /\ e[5] = Number(w) /\ Len(e) = 5
    BY <2>1
  <2>3. FieldParses(e, 1) /\ FieldParses(e, 2) /\ FieldParses(e, 5)
    BY <1>5, <1>6, <1>7, <1>16, <2>2, FieldRanges, NumberParses
  <2>4. FieldParses(e, 3) /\ FieldParses(e, 4)
    BY <2>2, StarParses
  <2>5. Parses(e, when)
    BY <2>2, <2>3, <2>4 DEF Parses
  <2>6. Number(w) # Star /\ (SaysDay(Number(w), wd) <=> wd = w)
    BY <1>2, <1>7, <1>11, NumberSays DEF SaysDay
  <2>7. IsDue(e, when) <=> when.minute = m /\ when.hour = h /\ wd = w
    BY <1>10, <1>12, <1>13, <1>16, <2>2, <2>6 DEF IsDue, wd
  <2>8. PartsSay(p, when) <=> when.minute = m /\ when.hour = h /\ wd = w
    BY <1>2, <1>5, <1>6, <1>7, <1>16 DEF PartsSay
  <2> QED
    BY <2>5, <2>7, <2>8
<1>17. CASE p.frequency = "monthly"
  <2>1. e = <<Number(m), Number(h), Number(d), Star, Star>>
    BY <1>4, <1>9, <1>17 DEF CronFromParts
  <2>2. e[1] = Number(m) /\ e[2] = Number(h) /\ e[3] = Number(d) /\ e[4] = Star /\ e[5] = Star /\ Len(e) = 5
    BY <2>1
  <2>3. FieldParses(e, 1) /\ FieldParses(e, 2) /\ FieldParses(e, 3)
    BY <1>5, <1>6, <1>8, <1>17, <2>2, FieldRanges, NumberParses
  <2>4. FieldParses(e, 4) /\ FieldParses(e, 5)
    BY <2>2, StarParses
  <2>5. Parses(e, when)
    BY <2>2, <2>3, <2>4 DEF Parses
  <2>6. Number(d) # Star /\ (Says(Number(d), when.day, 1) <=> when.day = d)
    BY <1>11, <1>17, NumberSays
  <2>7. IsDue(e, when) <=> when.minute = m /\ when.hour = h /\ when.day = d
    BY <1>10, <1>12, <1>13, <1>17, <2>2, <2>6 DEF IsDue
  <2>8. PartsSay(p, when) <=> when.minute = m /\ when.hour = h /\ when.day = d
    BY <1>5, <1>6, <1>8, <1>17 DEF PartsSay
  <2> QED
    BY <2>5, <2>7, <2>8
<1> QED
  BY <1>3, <1>14, <1>15, <1>16, <1>17 DEF Frequencies

(* PresetFiresAsShown holds of every reachable state: what the preset      *)
(* inputs emitted, for any whole numbers typed, is accepted and fires at   *)
(* the times they show (CronBuilder.tsx's cronFromParts, cron.py's         *)
(* matches).                                                               *)
THEOREM PresetsFire == Spec => []PresetFiresAsShown
<1>1. TypeOK => PresetFiresAsShown
  <2> SUFFICES ASSUME TypeOK, emitted, IsWhole(parts), NEW when \in Instants
               PROVE  Matches(value, when) = IF PartsSay(parts, when) THEN "due" ELSE "not due"
    BY DEF PresetFiresAsShown
  <2>1. value = CronFromParts(parts) /\ parts \in PartsSet
    BY DEF TypeOK, PartsSet
  <2> QED
    BY <2>1, PresetMeaning
<1> QED
  BY <1>1, TypeCorrect, PTL

(* SummaryIsTrue holds of every reachable state: whatever expression the   *)
(* form holds, the words of describeCron are those of when it fires        *)
(* (CronBuilder.tsx, cron.py's matches).                                   *)
THEOREM SummariesAreTrue == Spec => []SummaryIsTrue
<1>1. TypeOK => SummaryIsTrue
  <2> SUFFICES ASSUME TypeOK, Summary(value) # "custom", NEW when \in Instants,
                      Matches(value, when) # "error"
               PROVE  Matches(value, when) = "due" <=> Told(value, when)
    BY DEF SummaryIsTrue
  <2>1. value \in Seq(Seq(Terms)) /\ Parses(value, when)
    BY DEF TypeOK, Matches
  <2>2. Matches(value, when) = "due" <=> IsDue(value, when)
    BY <2>1, MatchMeaning
  <2>3. IsDue(value, when) <=> Told(value, when)
    BY <2>1, SummaryMeaning
  <2> QED
    BY <2>2, <2>3
<1> QED
  BY <1>1, TypeCorrect, PTL
====
