---------------------------- MODULE SwitchingTimes ----------------------------
(***************************************************************************)
(* calculate_switching_times of analysis_tools.py (the extrema-pair        *)
(* transition detector that run.py's analysis uses).                       *)
(*                                                                         *)
(* One call on one channel is modelled as a process: the input signal is   *)
(* chosen in Init, each iteration of the code's for-loops over consecutive *)
(* sorted extrema is one step, and the call ends either by returning       *)
(* (pc = "done") or by an uncaught IndexError raised by np.where(...)[0]   *)
(* on an empty match or by extrema[0] on an empty extrema list.            *)
(***************************************************************************)
EXTENDS Integers, Sequences, Extrema

CONSTANTS
  Signals,   \* the input signals: functions from 0..n-1 to sample values
  Nominal    \* nominal_value: the 100% reference of the thresholds

ASSUME Nominal \in Nat \ {0}

VARIABLES
  data,      \* the channel under analysis
  extrema,   \* the sorted local extrema, computed once on entry
  pc,        \* which loop of the function is running
  pos,       \* 1-based position of x in the sorted extrema
  prev,      \* prev_x: the sample position of the previous extremum
  rise,      \* the local rise: <<>> while unbound, else <<start, stop>>
  fall,      \* the local fall, likewise
  riseFound, \* rise_time_found (set by the primary pass only)
  fallFound, \* fall_time_found
  out        \* the returned (rise, fall, found, found), read at pc = "done"

vars == <<data, extrema, pc, pos, prev, rise, fall, riseFound, fallFound, out>>

n   == LastIdx(data) + 1

Hi(v, pct) == Above(v, pct, Nominal)
Lo(v, pct) == Below(v, pct, Nominal)

\* np.where(data[a:b] > t)[0] shifted back by a, as a set of positions.
Where(a, b, P(_)) == { j \in a..(b-1) : P(j) }

Init ==
  /\ data \in Signals
  /\ extrema = SortedExtrema(data)
  /\ pc = "start"
  /\ pos = 1
  /\ prev = 0
  /\ rise = <<>>
  /\ fall = <<>>
  /\ riseFound = FALSE
  /\ fallFound = FALSE
  /\ out = [rise |-> <<0, 0>>, fall |-> <<0, 0>>,
            riseFound |-> FALSE, fallFound |-> FALSE]

\* prev_x = extrema[0]: an IndexError when the signal has no strict extremum.
Start ==
  /\ pc = "start"
  /\ IF Len(extrema) = 0
       THEN /\ pc' = "IndexError"
            /\ UNCHANGED <<pos, prev>>
       ELSE /\ pc' = "primary"
            /\ prev' = extrema[1]
            /\ pos' = 2
  /\ UNCHANGED <<data, extrema, rise, fall, riseFound, fallFound, out>>

\* The candidate windows of one primary iteration over data[prev_x:x].
PrimaryRise(x) ==
  /\ Lo(data[prev], 10) /\ Hi(data[x], 90)
PrimaryFall(x) ==
  /\ Hi(data[prev], 90) /\ Lo(data[x], 10)
\* (Mutant: the rise start searched in data[:x] instead of data[prev_x:x].)
RiseStartsFromZero(x) == Where(0, x, LAMBDA j : Hi(data[j], 10))
RiseStarts(x) == Where(prev, x, LAMBDA j : Hi(data[j], 10))
RiseStops(x)  == Where(prev, x, LAMBDA j : Hi(data[j], 90))
FallStarts(x) == Where(prev, x, LAMBDA j : Lo(data[j], 90))
FallStops(x)  == Where(prev, x, LAMBDA j : Lo(data[j], 10))

PrimaryCrashes(x) ==
  \/ PrimaryRise(x) /\ (RiseStarts(x) = {} \/ RiseStops(x) = {})
  \/ PrimaryFall(x) /\ (FallStarts(x) = {} \/ FallStops(x) = {})

\* One iteration of the first for-loop (lines 182-197), including its break.
PrimaryStep ==
  /\ pc = "primary"
  /\ pos <= Len(extrema)
  /\ LET x == extrema[pos] IN
     IF PrimaryCrashes(x)
       THEN /\ pc' = "IndexError"
            /\ UNCHANGED <<pos, prev, rise, fall, riseFound, fallFound>>
       ELSE /\ rise' = IF PrimaryRise(x)
                         THEN <<Min(RiseStarts(x)), Min(RiseStops(x))>>
                         ELSE rise
            /\ fall' = IF PrimaryFall(x)
                         THEN <<Min(FallStarts(x)), Min(FallStops(x))>>
                         ELSE fall
            /\ riseFound' = (riseFound \/ PrimaryRise(x))
            /\ fallFound' = (fallFound \/ PrimaryFall(x))
            /\ IF riseFound' /\ fallFound'
                 THEN /\ pc' = "return"
                      /\ UNCHANGED <<pos, prev>>
                 ELSE /\ pc' = "primary"
                      /\ prev' = x
                      /\ pos' = pos + 1
  /\ UNCHANGED <<data, extrema, out>>

\* The code after a pass: the relaxed rise pass runs unless a rise was found,
\* then the relaxed fall pass unless a fall was found; each restarts from
\* prev_x = extrema[0].
AfterPass(from) ==
  LET next == CASE from = "primary" /\ ~riseFound -> "relaxedRise"
                [] from \in {"primary", "relaxedRise"} /\ ~fallFound
                                                     -> "relaxedFall"
                [] OTHER -> "return"
  IN /\ pc' = next
     /\ prev' = extrema[1]
     /\ pos' = 2

PassEnd ==
  /\ pc \in {"primary", "relaxedRise", "relaxedFall"}
  /\ pos > Len(extrema)
  /\ AfterPass(pc)
  /\ UNCHANGED <<data, extrema, rise, fall, riseFound, fallFound, out>>

\* The relaxed rise test of line 202, and the re-derived start (line 203:
\* the last sample below 10% before x) and stop (line 204: the first
\* sample above 90% from prev_x on).
RelaxedRiseMatch(x) == Lo(data[prev], 40) /\ Hi(data[x], 60)
RelaxedRiseStarts(x) == Where(0, x, LAMBDA j : Lo(data[j], 10))
RelaxedRiseStops(x) == Where(prev, n, LAMBDA j : Hi(data[j], 90))

\* The mirror image for the fall, lines 210-212.
RelaxedFallMatch(x) == Hi(data[prev], 60) /\ Lo(data[x], 40)
\* (Mutant: the backwards scan over data[:] instead of data[:x].)
RelaxedFallStartsAnywhere(x) == Where(0, n, LAMBDA j : Hi(data[j], 90))
\* (Mutant: the fall stop at the 40% bound of the relaxed test.)
RelaxedFallStopsBelow40(x) == Where(prev, n, LAMBDA j : Lo(data[j], 40))
RelaxedFallStarts(x) == Where(0, x, LAMBDA j : Hi(data[j], 90))
RelaxedFallStops(x) == Where(prev, n, LAMBDA j : Lo(data[j], 10))

\* One iteration of a relaxed loop (lines 201-206 for the rise, 209-214 for
\* the fall).  There is no break: the last matching pair wins.
RelaxedRiseStep ==
  /\ pc = "relaxedRise"
  /\ pos <= Len(extrema)
  /\ LET x      == extrema[pos]
         match  == RelaxedRiseMatch(x)
         starts == RelaxedRiseStarts(x)
         stops  == RelaxedRiseStops(x)
     IN IF match /\ (starts = {} \/ stops = {})
          THEN /\ pc' = "IndexError"
               /\ UNCHANGED <<pos, prev, rise>>
          ELSE /\ rise' = IF match THEN <<Max(starts), Min(stops)>> ELSE rise
               /\ prev' = x
               /\ pos' = pos + 1
               /\ UNCHANGED pc
  /\ UNCHANGED <<data, extrema, fall, riseFound, fallFound, out>>

RelaxedFallStep ==
  /\ pc = "relaxedFall"
  /\ pos <= Len(extrema)
  /\ LET x      == extrema[pos]
         match  == RelaxedFallMatch(x)
         starts == RelaxedFallStarts(x)
         stops  == RelaxedFallStops(x)
     IN IF match /\ (starts = {} \/ stops = {})
          THEN /\ pc' = "IndexError"
               /\ UNCHANGED <<pos, prev, fall>>
          ELSE /\ fall' = IF match THEN <<Max(starts), Min(stops)>> ELSE fall
               /\ prev' = x
               /\ pos' = pos + 1
               /\ UNCHANGED pc
  /\ UNCHANGED <<data, extrema, rise, riseFound, fallFound, out>>

\* (Mutant: the unbound windows returned as they are.)
ReturnUnbound ==
  /\ pc = "return"
  /\ out' = [rise |-> rise, fall |-> fall,
             riseFound |-> rise # <<>>, fallFound |-> fall # <<>>]
  /\ pc' = "done"
  /\ UNCHANGED <<data, extrema, pos, prev, rise, fall, riseFound, fallFound>>

\* try: return (rise, fall, True, True) except UnboundLocalError: the zero
\* sentinel for both, whenever either window was never bound.
Return ==
  /\ pc = "return"
  /\ out' = IF rise # <<>> /\ fall # <<>>
              THEN [rise |-> rise, fall |-> fall,
                    riseFound |-> TRUE, fallFound |-> TRUE]
              ELSE [rise |-> <<0, 0>>, fall |-> <<0, 0>>,
                    riseFound |-> FALSE, fallFound |-> FALSE]
  /\ pc' = "done"
  /\ UNCHANGED <<data, extrema, pos, prev, rise, fall, riseFound, fallFound>>

\* The call has returned or raised; nothing more happens.
Terminated ==
  /\ pc \in {"done", "IndexError"}
  /\ UNCHANGED vars

Next ==
  \/ Start
  \/ PrimaryStep
  \/ PassEnd
  \/ RelaxedRiseStep
  \/ RelaxedFallStep
  \/ Return
  \/ Terminated

Spec == Init /\ [][Next]_vars

-----------------------------------------------------------------------------
Window == (0..(n-1)) \X (0..(n-1))

TypeOK ==
  /\ data \in Signals
  /\ pc \in {"start", "primary", "relaxedRise", "relaxedFall", "return",
             "done", "IndexError"}
  /\ extrema \in Seq(DOMAIN data)
  /\ pos \in 1..(Len(extrema) + 1)
  /\ prev \in DOMAIN data
  /\ rise \in {<<>>} \cup Window
  /\ fall \in {<<>>} \cup Window
  /\ riseFound \in BOOLEAN /\ fallFound \in BOOLEAN
  /\ out \in [rise : Window, fall : Window,
              riseFound : BOOLEAN, fallFound : BOOLEAN]

\* The signal really rises from below 10% to above 90% (resp. falls).
HasRise(d) == \E i, j \in DOMAIN d : i < j /\ Lo(d[i], 10) /\ Hi(d[j], 90)
HasFall(d) == \E i, j \in DOMAIN d : i < j /\ Hi(d[i], 90) /\ Lo(d[j], 10)

\* A synthetic step of spec section 8: non-decreasing, from below 10% of
\* nominal to above 90%.
IsCleanStep(d) ==
  /\ \A i \in 0..(n-2) : d[i] <= d[i+1]
  /\ Lo(d[0], 10) /\ Hi(d[n-1], 90)

(***************************************************************************)
(* Spec 1 and 4.2: a signal without the expected crossing degrades to the  *)
(* zero sentinel with found = False; it never raises.  The code's          *)
(* np.where(...)[0][0] and extrema[0] raise IndexError on an empty match.  *)
(***************************************************************************)
NoIndexError == pc # "IndexError"

(***************************************************************************)
(* A window the call reports as found runs forwards: start <= stop for     *)
(* both the rise and the fall, so the rise and fall times analyze_data     *)
(* computes as time[stop] - time[start] are never negative.  The relaxed   *)
(* passes take start and stop from two independent scans (backwards from  *)
(* x, forwards from prev_x), which is where this can break.                *)
(***************************************************************************)
WindowsOrdered ==
  pc = "done" /\ out.riseFound =>
    /\ out.rise[1] <= out.rise[2]
    /\ out.fall[1] <= out.fall[2]

(***************************************************************************)
(* The call reports found only for a signal that really has both           *)
(* transitions: some sample below 10% of nominal is followed by one above  *)
(* 90%, and some sample above 90% is followed by one below 10%.  A         *)
(* reported transition on a channel that never made it is a spurious      *)
(* switching time and a wrongly placed loss window.                        *)
(***************************************************************************)
RealTransitions ==
  pc = "done" /\ out.riseFound => HasRise(data) /\ HasFall(data)

(***************************************************************************)
(* Spec 8: on a synthetic step from 0 to nominal the detector returns      *)
(* rise_found = True and fall_found = False.  The code returns the two     *)
(* flags together, and only when both windows were bound (lines 216-221).  *)
(***************************************************************************)
StepRiseReported ==
  IsCleanStep(data) /\ pc \in {"done", "IndexError"} =>
    /\ pc = "done"
    /\ out.riseFound
    /\ ~out.fallFound
=============================================================================
