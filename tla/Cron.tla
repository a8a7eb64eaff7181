---- MODULE Cron ----
(***************************************************************************)
(* The five-field cron expressions of schedules, reports and KPIs: the     *)
(* matcher of src/backend/app/reporting/cron.py that decides what a        *)
(* heartbeat starts, and the CronBuilder of the frontend, in which a user  *)
(* composes an expression from presets or types it, and reads its summary. *)
(*                                                                         *)
(* An expression is what is left of the text after it is split: a sequence *)
(* of fields, each a sequence of terms.                                    *)
(***************************************************************************)
EXTENDS Integers, Sequences

CONSTANTS
    Expressions,  \* expressions a user types in Advanced mode
    Typed,        \* what the number inputs of Preset mode deliver
    Weekdays,     \* the days picked from the weekday list
    Fraction,     \* a number that is no integer, such as 7.5
    Instants      \* minutes at which a heartbeat may ask

Terms == [base : {"any", "one", "range", "blank"}, from : Int \cup {Fraction},
          to : Int \cup {Fraction}, step : Seq(Nat)]

ASSUME ExpressionsAreExpressions == Expressions \subseteq Seq(Seq(Terms))
ASSUME NumbersAreTyped == Typed \subseteq Int \cup {Fraction} /\ Fraction \notin Int
ASSUME WeekdaysAreWeekdays == Weekdays \subseteq 0..6
ASSUME InstantsAreInstants ==
    Instants \subseteq [minute : 0..59, hour : 0..23, day : 1..31, month : 1..12,
                        weekday : 0..6]

VARIABLES
    open,     \* the form is open; when closed, value is what was stored
    mode,     \* "preset" or "advanced"
    parts,    \* the preset inputs
    value,    \* the expression the form holds
    emitted   \* history: the preset inputs have determined value

vars == <<open, mode, parts, value, emitted>>

----
(* Expressions                                                             *)

Term(base, from, to, step) == [base |-> base, from |-> from, to |-> to, step |-> step]
Any == Term("any", 0, 0, <<>>)
Every(n) == Term("any", 0, 0, <<n>>)
One(v) == Term("one", v, v, <<>>)
From(v, n) == Term("one", v, v, <<n>>)
Span(a, b) == Term("range", a, b, <<>>)
SpanBy(a, b, n) == Term("range", a, b, <<n>>)
Blank == Term("blank", 0, 0, <<>>)

Star == <<Any>>
Number(v) == <<One(v)>>

FieldLow == <<0, 0, 1, 1, 0>>
FieldHigh == <<59, 23, 31, 12, 7>>

----
(* cron.py                                                                 *)

StepOf(t) == IF t.step = <<>> THEN 1 ELSE t.step[1]

(* The checks of _parse_field and _as_int on one term.                     *)
TermParses(t, lo, hi) ==
    /\ t.base # "blank"
    /\ StepOf(t) >= 1
    /\ t.base # "any" => t.from \in lo..hi
    /\ t.base = "range" => t.to \in lo..hi /\ t.from <= t.to

(* range(start, end + 1, step)                                             *)
TermValues(t, lo, hi) ==
    LET start == IF t.base = "any" THEN lo ELSE t.from
        end == IF t.base = "any" THEN hi ELSE IF t.base = "range" THEN t.to ELSE t.from
    IN  {start + k * StepOf(t) : k \in 0..((end - start) \div StepOf(t))}

FieldParses(expr, i) ==
    \A j \in DOMAIN expr[i] : TermParses(expr[i][j], FieldLow[i], FieldHigh[i])

FieldValues(expr, i) ==
    UNION {TermValues(expr[i][j], FieldLow[i], FieldHigh[i]) : j \in DOMAIN expr[i]}

(* Mutant: a field is parsed only when the ones before it match.           *)
ParsesLazily(expr, when) ==
    /\ Len(expr) = 5
    /\ FieldParses(expr, 1)
    /\ when.minute \in FieldValues(expr, 1) => \A i \in 2..5 : FieldParses(expr, i)

(* Every field is parsed before any is compared with the clock.            *)
Parses(expr, when) == Len(expr) = 5 /\ \A i \in 1..5 : FieldParses(expr, i)

(* datetime.weekday() counts from Monday, cron from Sunday.                *)
CronWeekday(when) == (when.weekday + 1) % 7

(* Mutant: both day fields must match, restricted or not.                  *)
DayMatchesBoth(expr, when) ==
    /\ when.day \in FieldValues(expr, 3)
    /\ \E v \in FieldValues(expr, 5) : CronWeekday(when) = IF v = 7 THEN 0 ELSE v

DayMatches(expr, when) ==
    LET dom == when.day \in FieldValues(expr, 3)
        dow == \E v \in FieldValues(expr, 5) : CronWeekday(when) = IF v = 7 THEN 0 ELSE v
    IN  IF expr[3] # Star /\ expr[5] # Star THEN dom \/ dow ELSE dom /\ dow

(* matches(): "error" stands for a CronError.                              *)
Matches(expr, when) ==
    IF ~Parses(expr, when) THEN "error"
    ELSE IF /\ when.minute \in FieldValues(expr, 1)
            /\ when.hour \in FieldValues(expr, 2)
            /\ when.month \in FieldValues(expr, 4)
            /\ DayMatches(expr, when)
         THEN "due" ELSE "not due"

----
(* CronBuilder.tsx                                                         *)

Frequencies == {"hourly", "daily", "weekly", "monthly"}
DefaultParts ==
    [frequency |-> "daily", minute |-> 0, hour |-> 2, weekday |-> 1, dom |-> 1]

(* Mutant: only the upper end is enforced.                                 *)
ClampHigh(n, lo, hi) == IF n = Fraction THEN n ELSE IF n > hi THEN hi ELSE n

Clamp(n, lo, hi) ==
    IF n = Fraction THEN n ELSE IF n < lo THEN lo ELSE IF n > hi THEN hi ELSE n

CronFromParts(p) ==
    LET m == Number(Clamp(p.minute, 0, 59))
        h == Number(Clamp(p.hour, 0, 23))
    IN  CASE p.frequency = "hourly"  -> <<m, Star, Star, Star, Star>>
          [] p.frequency = "daily"   -> <<m, h, Star, Star, Star>>
          [] p.frequency = "weekly"  -> <<m, h, Star, Star, Number(Clamp(p.weekday, 0, 6))>>
          [] p.frequency = "monthly" -> <<m, h, Number(Clamp(p.dom, 1, 31)), Star, Star>>

(* A field that is all digits.                                             *)
IsDigits(field) ==
    /\ Len(field) = 1
    /\ field[1].base = "one" /\ field[1].step = <<>> /\ field[1].from # Fraction

(* Mutant: the weekly wording overlooks a restricted day of the month.     *)
SummaryOverlooksDom(expr) ==
    IF Len(expr) # 5 THEN "custom"
    ELSE IF expr[4] = Star /\ IsDigits(expr[5]) /\ IsDigits(expr[2]) THEN "every week"
    ELSE "custom"

(* describeCron: the kind of summary shown; the fields it quotes follow    *)
(* from the expression.                                                    *)
Summary(expr) ==
    IF Len(expr) # 5 THEN "custom"
    ELSE LET star(i) == expr[i] = Star
             digits(i) == IsDigits(expr[i])
         IN  IF star(4) /\ star(3) /\ star(5) /\ star(2) /\ digits(1) THEN "every hour"
             ELSE IF star(4) /\ star(3) /\ star(5) /\ digits(2) /\ digits(1) THEN "every day"
             ELSE IF star(4) /\ star(3) /\ digits(5) /\ digits(2) THEN "every week"
             ELSE IF star(4) /\ star(5) /\ digits(3) /\ digits(2) THEN "every month"
             ELSE "custom"

(* Mutant: the emitted expression is computed from the inputs before the   *)
(* change.                                                                 *)
SetPartStale(next) ==
    /\ open /\ mode = "preset"
    /\ parts' = next
    /\ value' = CronFromParts(parts)
    /\ emitted' = TRUE
    /\ UNCHANGED <<open, mode>>

(* setPart: the inputs on show depend on the frequency; each change emits  *)
(* the whole expression.                                                   *)
SetPart(next) ==
    /\ open /\ mode = "preset"
    /\ parts' = next
    /\ value' = CronFromParts(next)
    /\ emitted' = TRUE
    /\ UNCHANGED <<open, mode>>

SetFrequency == \E f \in Frequencies : SetPart([parts EXCEPT !.frequency = f])
SetMinute == \E n \in Typed : SetPart([parts EXCEPT !.minute = n])
SetHour ==
    parts.frequency # "hourly" /\ \E n \in Typed : SetPart([parts EXCEPT !.hour = n])
SetWeekday ==
    parts.frequency = "weekly" /\ \E n \in Weekdays : SetPart([parts EXCEPT !.weekday = n])
SetDom ==
    parts.frequency = "monthly" /\ \E n \in Typed : SetPart([parts EXCEPT !.dom = n])

SwitchMode(m) ==
    /\ open
    /\ mode' = m
    /\ IF m = "preset"
       THEN value' = CronFromParts(parts) /\ emitted' = TRUE
       ELSE UNCHANGED <<value, emitted>>
    /\ UNCHANGED <<open, parts>>

TypeExpression ==
    /\ open /\ mode = "advanced"
    /\ \E e \in Expressions : value' = e
    /\ emitted' = FALSE
    /\ UNCHANGED <<open, mode, parts>>

(* ScheduleCreate and ScheduleUpdate ask the matcher at the minute of the  *)
(* request and accept what raises no error; the form then closes.          *)
Save(when) ==
    /\ open
    /\ Matches(value, when) # "error"
    /\ open' = FALSE
    /\ UNCHANGED <<mode, parts, value, emitted>>

(* The form is opened on the stored expression, its builder mounted anew.  *)
Open ==
    /\ ~open
    /\ open' = TRUE /\ mode' = "preset" /\ parts' = DefaultParts /\ emitted' = FALSE
    /\ UNCHANGED value

(* A new schedule starts from the default of both dialogs.                 *)
Init ==
    /\ open = TRUE /\ mode = "preset" /\ parts = DefaultParts /\ emitted = FALSE
    /\ value = CronFromParts(DefaultParts)

Next ==
    \/ SetFrequency \/ SetMinute \/ SetHour \/ SetWeekday \/ SetDom
    \/ SwitchMode("preset") \/ SwitchMode("advanced")
    \/ TypeExpression
    \/ \E when \in Instants : Save(when)
    \/ Open

Spec == Init /\ [][Next]_vars

----
(* What the documentation says an expression means, by arithmetic on the   *)
(* clock and not by listing values.                                        *)

SaysTerm(t, v, lo) ==
    CASE t.base = "any"   -> (v - lo) % StepOf(t) = 0
      [] t.base = "one"   -> v = t.from
      [] t.base = "range" -> t.from <= v /\ v <= t.to /\ (v - t.from) % StepOf(t) = 0

Says(field, v, lo) == \E j \in DOMAIN field : SaysTerm(field[j], v, lo)

SaysDay(field, weekday) ==
    Says(field, weekday, 0) \/ (weekday = 0 /\ Says(field, 7, 0))

IsDue(expr, when) ==
    LET wd == IF when.weekday = 6 THEN 0 ELSE when.weekday + 1
        free(i) == expr[i] = Star
    IN  /\ Says(expr[1], when.minute, 0)
        /\ Says(expr[2], when.hour, 0)
        /\ Says(expr[4], when.month, 1)
        /\ CASE free(3) /\ free(5)   -> TRUE
             [] free(3) /\ ~free(5)  -> SaysDay(expr[5], wd)
             [] ~free(3) /\ free(5)  -> Says(expr[3], when.day, 1)
             [] ~free(3) /\ ~free(5) -> Says(expr[3], when.day, 1) \/ SaysDay(expr[5], wd)

(* What a reader of the summary expects: the minute as quoted, and of hour *)
(* and day what the sentence mentions.                                     *)
Told(expr, when) ==
    LET s == Summary(expr) IN
    /\ Says(expr[1], when.minute, 0)
    /\ s = "every hour" \/ when.hour = expr[2][1].from
    /\ s = "every week" => CronWeekday(when) = expr[5][1].from % 7
    /\ s = "every month" => when.day = expr[3][1].from

Nearest(n, S) == CHOOSE v \in S : \A w \in S : (v - n) * (v - n) <= (w - n) * (w - n)

(* What a reader of the preset inputs expects, a number out of range       *)
(* meaning the nearest one in range.                                       *)
PartsSay(p, when) ==
    /\ when.minute = Nearest(p.minute, 0..59)
    /\ p.frequency # "hourly" => when.hour = Nearest(p.hour, 0..23)
    /\ p.frequency = "weekly" => CronWeekday(when) = p.weekday
    /\ p.frequency = "monthly" => when.day = Nearest(p.dom, 1..31)

(* The inputs that count at this frequency are integers.                   *)
IsWhole(p) ==
    /\ p.minute # Fraction
    /\ p.frequency # "hourly" => p.hour # Fraction
    /\ p.frequency = "monthly" => p.dom # Fraction

----
(* TypeOK: the form holds a known mode, inputs that a user can have given, *)
(* and an expression, that of the inputs if they were the last to change.  *)
TypeOK ==
    /\ open \in BOOLEAN /\ emitted \in BOOLEAN
    /\ mode \in {"preset", "advanced"}
    /\ parts \in [frequency : Frequencies, minute : Typed \cup {0}, hour : Typed \cup {2},
                  weekday : 0..6, dom : Typed \cup {1}]
    /\ value \in Seq(Seq(Terms))
    /\ emitted => value = CronFromParts(parts)

(* MatcherFollowsCron: for an expression that parses, matches() says due   *)
(* exactly when the documented rules of cron.py (lists, ranges, steps,     *)
(* Sunday as 0 or 7, either day field when both are restricted) say so.    *)
MatcherFollowsCron ==
    \A when \in Instants :
        Matches(value, when) # "error" => (Matches(value, when) = "due" <=> IsDue(value, when))

(* StoredNeverFails: what validation accepted at the minute of the request *)
(* raises no CronError at any later minute, so that no heartbeat has to    *)
(* skip a stored schedule as invalid (select_due).                         *)
StoredNeverFails == ~open => \A when \in Instants : Matches(value, when) # "error"

(* PresetFiresAsShown: once the preset inputs have emitted an expression   *)
(* the backend accepts it and fires at the times the inputs show, provided *)
(* that no input is a fraction.                                            *)
PresetFiresAsShown ==
    emitted /\ IsWhole(parts) =>
        \A when \in Instants : Matches(value, when) = IF PartsSay(parts, when)
                                                      THEN "due" ELSE "not due"

(* SummaryIsTrue: an accepted expression that describeCron puts in words   *)
(* fires exactly at the times those words say.                             *)
SummaryIsTrue ==
    Summary(value) # "custom" =>
        \A when \in Instants :
            Matches(value, when) # "error" => (Matches(value, when) = "due" <=> Told(value, when))
====
