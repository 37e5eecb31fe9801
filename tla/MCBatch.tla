------------------------------ MODULE MCBatch ------------------------------
(***************************************************************************)
(* Bounded instance of Batch. The parameter files cover: two run commands *)
(* with a set between them; comment, blank and unknown-parameter lines    *)
(* and a run without values; a set without a value (syntax error). The   *)
(* circuit has the two parameters analyze_data reads. config.py records  *)
(* five variables, so a cleaned trace has five columns.                    *)
(***************************************************************************)
EXTENDS Batch

MCOptionLists ==
  { <<"-f", "-a">>, <<"-a", "-o", "-f">>, <<"-f">>, <<"-a", "-r", "-f">>,
    <<"-h">>, <<"-m", "-a">> }

MCParamFiles ==
  { << <<"run", "R_s", 1, 2>>, <<"set", "I_out", 2>>, <<"run", "R_s", 1>> >>,
    << <<"#c">>, <<>>, <<"set", "L", 1>>, <<"run", "I_out">>, <<"run", "L", 2>> >>,
    << <<"set", "R_s">> >> }

MCAscParams == {"R_s", "I_out"}

MCValues == {1, 2}

MCSwitchOutcomes == {"ok", "IndexError", "ValueError"}

=============================================================================
