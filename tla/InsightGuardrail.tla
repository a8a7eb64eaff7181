-------------------------- MODULE InsightGuardrail --------------------------
(***************************************************************************)
(* The no-invented-numbers guardrail (ai/insights/guardrail.py), over      *)
(* numbers with one decimal place, kept as integers in tenths.             *)
(***************************************************************************)
EXTENDS Outcomes, Integers, Sequences

CONSTANT MaxPromptRows   \* rows of the result set that the prompt shows

Size(n) == IF n < 0 THEN -n ELSE n

\* A number in the text is [value, form].  A sign before a currency symbol
\* defeats the parse ("-$5.0"), and such a token is passed over; of one with a
\* letter behind it ("1.5K") only the digits before the point are read.
ExtractNumbers(summary) ==
    {t.value : t \in {u \in summary : u.form = "plain"}}
      \cup {10 * (t.value \div 10) :
              t \in {u \in summary : u.form = "abbreviated" /\ u.value % 10 # 0}}

\* The cells that read as a number: numbers, and texts that are one but for
\* commas, a percent sign behind and a currency sign before ("1,234", "45%");
\* flags and other texts are no references.
ReferenceValues(rows) ==
    {rows[i].value : i \in {j \in DOMAIN rows : rows[j].numeric}}

\* round(n, 0), half to even; to one place and more the value is itself.
RoundUnits(n) ==
    LET q == n \div 10
        r == n % 10
    IN  IF r > 5 \/ (r = 5 /\ q % 2 = 1) THEN q + 1 ELSE q

\* Within 0.5 % after dividing one of the two by a thousand or a million.
ScaledMatch(value, ref) ==
    \E s \in {1000, 1000000} :
        \/ Size(ref - s * value) <= (s \div 200) * Size(value)
        \/ Size(value - s * ref) <= (s \div 200) * Size(ref)

(* Mutant: the sign is dropped before the comparison.                      *)
TraceableUnsigned(value, refs) ==
    \E ref \in refs : Size(RoundUnits(ref)) = Size(RoundUnits(value))

IsTraceable(value, refs) ==
    \E ref \in refs : \/ RoundUnits(ref) = RoundUnits(value)
                      \/ ScaledMatch(value, ref)

VerifyNoInventedNumbers(summary, rows) ==
    IF \A v \in ExtractNumbers(summary) : IsTraceable(v, ReferenceValues(rows))
    THEN {Return(summary)}
    ELSE {Raise("InsightGuardrailError")}

\* The rows the model is shown, and the numbers are checked against.
ShownRows(rows) == SubSeq(rows, 1, IF Len(rows) < MaxPromptRows THEN Len(rows) ELSE MaxPromptRows)
=============================================================================
