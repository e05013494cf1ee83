-------------------------- MODULE MaintenanceWindow --------------------------
(***************************************************************************)
(* The cron matcher behind maintenance windows and backup schedules:       *)
(* inWindow and its helpers, on a clock that counts the hours of a week    *)
(* from Sunday 00:00 UTC.  An expression is a sequence of characters,      *)
(* since what the parser makes of them is the question; "TZ=" and the name *)
(* of a zone are one character each.                                       *)
(***************************************************************************)
EXTENDS Integers, Sequences, SequencesExt

CONSTANTS Offset,     \* hours east of UTC of each zone time.LoadLocation knows
          Exprs       \* the expressions to evaluate

ASSUME OffsetAssumption == \A z \in DOMAIN Offset : Offset[z] \in -12 .. 14

VARIABLES expr, now

Week  == 168
Digit == <<"0", "1", "2", "3", "4", "5", "6", "7", "8", "9">>

-----------------------------------------------------------------------------
(* Splitting and matching.                                                  *)

\* Every character that is not a digit is skipped; no digit at all is 0.
atoi(s) ==
  LET Push(n, c) == IF \E d \in 1 .. 10 : Digit[d] = c
                    THEN n * 10 + (CHOOSE d \in 1 .. 10 : Digit[d] = c) - 1 ELSE n
  IN  FoldLeft(Push, 0, s)

\* The runs of s between the characters of seps, empty ones included.
Split(s, seps) ==
  LET Push(out, c) == IF c \in seps THEN Append(out, <<>>)
                      ELSE Append(Front(out), Append(Last(out), c))
  IN  FoldLeft(Push, << <<>> >>, s)

splitByComma(s) == Split(s, {","})

splitFields(s) == SelectSeq(Split(s, {" ", "\t"}), LAMBDA f : f # <<>>)

\* Mutant: the end of a range is left out.
matchRangeOpen(part, value) ==
  LET dash == SelectInSeq(part, LAMBDA c : c = "-")
  IN  IF dash = 0 THEN atoi(part) = value
      ELSE /\ value >= atoi(SubSeq(part, 1, dash - 1))
           /\ value < atoi(SubSeq(part, dash + 1, Len(part)))

\* A range is cut at its first dash.
matchRange(part, value) ==
  LET dash == SelectInSeq(part, LAMBDA c : c = "-")
  IN  IF dash = 0 THEN atoi(part) = value
      ELSE value \in atoi(SubSeq(part, 1, dash - 1)) .. atoi(SubSeq(part, dash + 1, Len(part)))

matchCronField(field, value) ==
  field = <<"*">> \/ \E part \in ToSet(splitByComma(field)) : matchRange(part, value)

\* The zone runs from "TZ=" to the first blank, the cron spec from there to the end; an
\* expression without the prefix has no zone, and one without a blank is all cron.
HasZone(e) == Len(e) > 1 /\ e[1] = "TZ="

ZoneEnd(e) == IF " " \in ToSet(e) THEN SelectInSeq(e, LAMBDA c : c = " ") ELSE Len(e) + 1

ZoneOf(e) == IF HasZone(e) THEN SubSeq(e, 2, ZoneEnd(e) - 1) ELSE <<>>

CronOf(e) == IF HasZone(e) /\ ZoneEnd(e) <= Len(e) THEN SubSeq(e, ZoneEnd(e) + 1, Len(e)) ELSE e

\* t.In(loc); a zone that does not load leaves UTC.
In(t, zone) == (t + Week + IF zone \in DOMAIN Offset THEN Offset[zone] ELSE 0) % Week

Hour(t)    == t % 24
Weekday(t) == t \div 24

inWindow(t, e) ==
  LET fields == splitFields(CronOf(e))
      local  == In(t, ZoneOf(e))
  IN  /\ Len(fields) = 5
      /\ matchCronField(fields[2], Hour(local))
      /\ matchCronField(fields[5], Weekday(local))

-----------------------------------------------------------------------------
(* A clock that runs through the week.                                      *)

Init == expr \in Exprs /\ now = 0

Tick == now' = (now + 1) % Week /\ UNCHANGED expr

Spec == Init /\ [][Tick]_<<expr, now>>
=============================================================================
