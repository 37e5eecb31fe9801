----------------------------- MODULE MCTraceFile -----------------------------
(***************************************************************************)
(* Bounded instance of TraceFile.  config.variable_numbering scaled down: *)
(* five of six raw variables kept (number 4 skipped), and config's         *)
(* preffered_sorting [0, 2, 1, 3, 4].  The raw files: complete; truncated  *)
(* inside the second point; without a complete point; from a circuit with *)
(* one variable fewer.  The time axes cross 40 us after the first point,   *)
(* at once, or never.                                                      *)
(***************************************************************************)
EXTENDS TraceFile

Text        == [kind |-> "text"]
Count(k)    == [kind |-> "count", n |-> k]
HeaderOf(nv, np) ==
  <<Text, Text, Text, Text, Count(nv), Count(np), Text, Text, Text>>
    \o [i \in 1..nv |-> Text] \o <<[kind |-> "values"]>>
PointLines(p, nv) == [j \in 1..nv |-> [kind |-> "data", val |-> [pt |-> p, var |-> j - 1]]]
Raw(nv, np, complete, partial) ==
  HeaderOf(nv, np) \o FlattenSeq([p \in 1..complete |-> PointLines(p - 1, nv)])
    \o SubSeq(PointLines(complete, nv), 1, partial)

MCRawFiles == { Raw(6, 2, 2, 0), Raw(6, 2, 1, 3), Raw(6, 2, 0, 2), Raw(5, 2, 2, 0) }

Axis(s) == [p \in 0..(Len(s) - 1) |-> s[p + 1]]
MCAxes == { Axis(<<30, 50, 60>>), Axis(<<41, 50, 60>>), Axis(<<10, 20, 30>>) }

P(nm, v) == [name |-> nm, value |-> v]
MCParamLists ==
  { <<P("R_s", [num |-> 1]), P("I_out", [num |-> 2])>>,
    <<P("I_out", [num |-> 2]), P("R_s", [num |-> 1])>>,
    <<P("I_out", [num |-> 2])>>,
    <<P("R_s", [text |-> "1k"]), P("I_out", [num |-> 2])>> }

MCNumbering == [time |-> 0, bitline1 |-> 1, bitline0 |-> 2, mb0 |-> 3, mb1 |-> 5]
MCSorting   == <<0, 2, 1, 3, 4>>
=============================================================================
