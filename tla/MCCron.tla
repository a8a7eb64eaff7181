---- MODULE MCCron ----
(* An instance of Cron with expressions for every rule of the matcher.     *)
EXTENDS Cron

Weekly(field) == <<Number(0), Number(9), Star, Star, field>>
Dom(field) == <<Number(0), Number(9), field, Star, Star>>
Minutes(field) == <<field, Star, Star, Star, Star>>

MCExpressions ==
    { Minutes(Star), Minutes(<<Every(15)>>), Minutes(<<Every(0)>>), Minutes(<<Every(60)>>),
      Minutes(<<SpanBy(10, 50, 20)>>), Minutes(<<SpanBy(7, 45, 19)>>), Minutes(<<From(7, 2)>>),
      Minutes(<<One(0), Span(40, 50)>>), Minutes(<<One(0), Blank>>), Minutes(<<Span(50, 10)>>),
      Minutes(Number(60)), Minutes(Number(45)),
      Weekly(Number(1)), Weekly(Number(0)), Weekly(Number(7)), Weekly(<<Span(5, 7)>>),
      Weekly(<<Every(2)>>), Weekly(Number(8)),
      <<Number(0), Number(24), Star, Star, Star>>,
      <<Number(0), Number(9), Star, Star>>,
      <<Number(0), Number(9), Number(31), Star, Number(5)>>,
      <<Number(0), Number(2), <<Every(1)>>, Star, Number(0)>>,
      <<Number(0), Number(2), <<Every(10)>>, Star, <<Every(1)>> >>,
      <<Number(0), Number(2), <<Every(10)>>, <<Every(5)>>, Star>>,
      <<Number(0), Number(2), Star, Number(6), Star>>,
      <<Number(0), Number(2), Star, Number(13), Star>>,
      <<Number(0), Number(2), Number(31), Number(6), Star>>,
      <<Number(45), Number(9), Number(0), Star, Star>>,
      <<<<Every(15)>>, Number(9), Star, Star, Number(1)>>,
      <<<<Every(15)>>, Number(9), Number(1), Star, Star>>,
      Dom(Number(31)), Dom(<<Span(1, 10), One(31)>>) }

MCInstants ==
    LET at(m, h, d, mo, w) ==
            [minute |-> m, hour |-> h, day |-> d, month |-> mo, weekday |-> w]
    IN  { at(m, h, d, 6, w) : m \in {0, 59}, h \in {2, 9}, d \in {1, 31}, w \in {0, 4, 6} }
        \cup { at(m, 23, 11, 1, 2) : m \in {7, 8, 26, 30, 45} }
        \cup { at(0, h, 1, 11, 6) : h \in {0, 2, 23} }
====
