------------------------------ MODULE ChannelAnalysis ---------------------------
(***************************************************************************)
(* The analyses of one voltage channel data[:, col]: calculate_ringing     *)
(* (Ringing, MATLAB copy), then the extrema-pair calculate_switching_times *)
(* of analysis_tools.py (SwitchingTimes) and calculate_switching_times_    *)
(* alternative (Hysteresis).  analyze_data calls a detector and the        *)
(* ringing analysis on the same channel; spec 4.2 and its design note      *)
(* treat the detectors as strategies of one contract.  Each call only      *)
(* reads the channel and keeps its own local state, so they run here one   *)
(* after the other.  The third detector, Bisection, has a run of its own.  *)
(***************************************************************************)
EXTENDS Integers

CONSTANTS
  Signals,
  Times,
  Nominal

VARIABLES
  data, time, rgPc, rgOut,
  stExtrema, stPc, stPos, stPrev, stRise, stFall, stRiseFound, stFallFound,
  stOut,
  hyStep, hyUp, hyDown, hyRise, hyFall, hyFoundRise, hyFoundFall, hyPc

stVars == <<stExtrema, stPc, stPos, stPrev, stRise, stFall, stRiseFound,
            stFallFound, stOut>>
hyVars == <<hyStep, hyUp, hyDown, hyRise, hyFall, hyFoundRise, hyFoundFall,
            hyPc>>
rgVars == <<time, rgPc, rgOut>>
vars   == <<data, rgVars, stVars, hyVars>>

RG == INSTANCE Ringing
        WITH pc <- rgPc, out <- rgOut, Variant <- "matlab_analysis_tools"

ST == INSTANCE SwitchingTimes
        WITH extrema <- stExtrema, pc <- stPc, pos <- stPos, prev <- stPrev, rise <- stRise,
             fall <- stFall, riseFound <- stRiseFound,
             fallFound <- stFallFound, out <- stOut

HY == INSTANCE Hysteresis
        WITH step <- hyStep, goingUp <- hyUp, goingDown <- hyDown,
             rise <- hyRise, fall <- hyFall, foundRise <- hyFoundRise,
             foundFall <- hyFoundFall, pc <- hyPc

\* A call has returned or raised.
RGReturned == rgPc = "done"
STReturned == stPc \in {"done", "IndexError"}

Init == RG!Init /\ ST!Init /\ HY!Init

\* Each call steps until it has returned, then the next one starts; the
\* last one's Terminated is the final stuttering step.
Next ==
  \/ ~RGReturned /\ RG!Next /\ UNCHANGED <<stVars, hyVars>>
  \/ RGReturned /\ ~STReturned /\ ST!Next /\ UNCHANGED <<rgVars, hyVars>>
  \/ STReturned /\ HY!Next /\ UNCHANGED <<rgVars, stVars>>

Spec == Init /\ [][Next]_vars

-----------------------------------------------------------------------------
\* The state in which each call starts.  A call's result is checked there
\* once: no later call changes it or the channel.
STStarts == stPc = "start"
HYStarts == hyPc = "loop" /\ hyStep = 0

TypeOK == RG!TypeOK /\ ST!TypeOK /\ HY!TypeOK

\* No two neighbouring samples are equal: no plateau between two extrema.
NoPlateau(d) == \A i \in 0..(ST!n - 2) : d[i] # d[i + 1]

(***************************************************************************)
(* The extrema-pair detector's windows run forwards (start <= stop) on     *)
(* every channel without plateaus; see SwitchingTimes!WindowsOrdered.      *)
(* With a plateau the relaxed fall pass breaks it (run switching_plateau). *)
(***************************************************************************)
ExtremaWindowsOrdered == HYStarts /\ NoPlateau(data) => ST!WindowsOrdered

(***************************************************************************)
(* The extrema-pair detector reports found only for a channel that really  *)
(* rose through both bands and fell back (SwitchingTimes!RealTransitions), *)
(* on every channel without plateaus.  A plateau hides an extremum from    *)
(* local_extrema, and the relaxed passes then pair samples across it.      *)
(***************************************************************************)
ExtremaRealTransitions == HYStarts /\ NoPlateau(data) => ST!RealTransitions

\* Two sample positions at most one sample apart.
Near(a, b) == a - b <= 1 /\ b - a <= 1

(***************************************************************************)
(* Spec 8: the detector variants agree on the rise and fall index pairs    *)
(* within one sample.  When the extrema-pair detector and the hysteresis   *)
(* detector both report the rise and the fall on a channel without        *)
(* plateaus, every start and stop they return is within one sample of the *)
(* other's.  The two take their indices differently: the extrema detector *)
(* the first sample past the threshold after the previous extremum, the   *)
(* hysteresis loop the last sample before the crossing, after the last    *)
(* re-crossing of 10% or 90% in the opposite direction.  The hysteresis    *)
(* detector returns both flags True always (line 410), so "reports" is     *)
(* read from its loop's found_rise and found_fall, which decide its break. *)
(***************************************************************************)
DetectorsAgree ==
  /\ hyPc = "done" /\ stPc = "done" /\ NoPlateau(data)
  /\ stOut.riseFound /\ hyFoundRise /\ hyFoundFall
  => LET hy == HY!Returned IN
       /\ Near(stOut.rise[1], hy.rise[1]) /\ Near(stOut.rise[2], hy.rise[2])
       /\ Near(stOut.fall[1], hy.fall[1]) /\ Near(stOut.fall[2], hy.fall[2])
=============================================================================
