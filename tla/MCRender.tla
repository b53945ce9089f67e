------------------------------- MODULE MCRender -------------------------------
(***************************************************************************)
(* Two rules: one with a path that has a process number, and a format that *)
(* reads the clock for a fraction before it writes a time, with a message  *)
(* that has a width; and one with what the user sets, a message, times in  *)
(* both zones and a process number with a width.  The number of the first  *)
(* may fail, and then a time of the second is the first to read the clock. *)
(***************************************************************************)
EXTENDS Render

Conversion(write, len) ==
  [write |-> write, len |-> len, zone |-> "local", cache |-> 0,
   adjust |-> FALSE, left |-> FALSE, min |-> 0, max |-> 0]

Str(n) == Conversion("str", n)
Msg    == Conversion("msg", 0)
Time(z, i) == [Conversion("time", 1) EXCEPT !.zone = z, !.cache = i]
Wide(s, left, min, max) ==
  [s EXCEPT !.adjust = TRUE, !.left = left, !.min = min, !.max = max]

MCRules ==
  <<[path   |-> <<Str(1), Wide(Conversion("pid", 1), TRUE, 2, 0)>>,
     format |-> <<Conversion("num", 2), Conversion("frac", 2),
                  Wide(Msg, FALSE, 3, 2), Time("local", 0)>>],
    [path   |-> <<>>,
     format |-> <<Conversion("mdc", 2), Msg, Time("local", 2), Time("utc", 1),
                  Wide(Conversion("pid", 3), TRUE, 2, 4)>>]>>
=============================================================================
