------------------------ MODULE MCMaintenanceWindow ------------------------
(***************************************************************************)
(* The cron matcher against a reference: expressions built from what the   *)
(* operator documents as supported (a star, or a list of values and        *)
(* ranges), whose meaning is known without parsing them.                   *)
(***************************************************************************)
EXTENDS MaintenanceWindow, TLC

\* Two zones that load, one on each side of UTC; "Nowhere" does not load.
MCOffset == <<"Berlin">> :> 1 @@ <<"NewYork">> :> -5
Zones    == {"", "Berlin", "NewYork", "Nowhere"}

\* A field is <<>> for a star, or a list of ranges.
HourFields == {<<>>, <<<<0, 0>>>>, <<<<23, 23>>>>, <<<<1, 5>>>>, <<<<19, 23>>>>,
               <<<<3, 3>>, <<9, 11>>, <<20, 20>>>>}
DayFields  == {<<>>, <<<<0, 0>>>>, <<<<6, 6>>>>, <<<<1, 5>>>>, <<<<0, 0>>, <<6, 6>>>>}

Show(n) == IF n < 10 THEN <<Digit[n + 1]>> ELSE <<Digit[n \div 10 + 1], Digit[(n % 10) + 1]>>

ShowRange(r) == IF r[1] = r[2] THEN Show(r[1]) ELSE Show(r[1]) \o <<"-">> \o Show(r[2])

ShowField(f) ==
  IF f = <<>> THEN <<"*">>
  ELSE FoldLeft(LAMBDA out, r : out \o <<",">> \o ShowRange(r), ShowRange(f[1]), Tail(f))

\* "0 <hour> * * <weekday>", with the extra blank a careless user types.
ShowCron(h, d) == <<"0", " ">> \o ShowField(h) \o <<" ", " ", "*", " ", "*", " ">> \o ShowField(d)

Described == [zone : Zones, hours : HourFields, days : DayFields]

Written(w) == (IF w.zone = "" THEN <<>> ELSE <<"TZ=", w.zone, " ">>) \o ShowCron(w.hours, w.days)

SupportedExprs == {Written(w) : w \in Described}

East(zone) == CASE zone = "Berlin" -> 1 [] zone = "NewYork" -> -5 [] OTHER -> 0

Means(f, v) == f = <<>> \/ \E i \in 1 .. Len(f) : v \in f[i][1] .. f[i][2]

\* "supports *, single values, ranges x-y, and lists a,b,c" (matchCronField): an
\* expression built from these is open in exactly the hours it names, on the local
\* weekday, also where the zone moves the hour across midnight or the end of the week.
SupportedWindowsOpen ==
  \A w \in Described : expr = Written(w)
    => (inWindow(now, expr) <=> /\ Means(w.hours, (now + East(w.zone)) % 24)
                                /\ Means(w.days, ((now + East(w.zone)) \div 24) % 7))

\* "0 */6 * * *", the example of a backup schedule.
EverySixHours == <<"0", " ", "*", "/", "6", " ", "*", " ", "*", " ", "*">>
ExampleExprs  == {EverySixHours}

\* 'Example: "0 */6 * * *" - every 6 hours' (enshroudedserver_types.go:280): the
\* documented schedule is due at 00, 06, 12 and 18 o'clock.
ExampleScheduleDue == expr = EverySixHours => (inWindow(now, expr) <=> Hour(now) % 6 = 0)
=============================================================================
