------------------------------- MODULE Batch -------------------------------
(***************************************************************************)
(* The batch driver of the LTspice command-line tool: run.py main (option *)
(* parsing), simulate (the set/run command loop, analysis after every run  *)
(* command, the final default simulation and the report), the parameter   *)
(* file parser and run_simulations of simulation_tools.py, analyze_data of *)
(* analysis_tools.py at the level of the analysis file it writes, and     *)
(* make_report.                                                            *)
(*                                                                         *)
(* A simulated trace is the parameter assignment of the .asc it was run    *)
(* from. The numerical analysis of one switch of a trace is abstracted to  *)
(* its outcome: it completes, or raises the IndexError (detector, modules  *)
(* SwitchingTimes and Ringing) or ValueError (loss window, LossWindow)     *)
(* that those modules show it can raise. Nothing is caught above          *)
(* analyze_data, so such an exception ends the program.                    *)
(***************************************************************************)
EXTENDS Integers, Sequences, SequencesExt, Functions

CONSTANTS
  OptionLists,     \* the argument vectors main may be given (getopt result)
  ParamFiles,      \* parameter files, each a sequence of lines of tokens
  AscParams,       \* the names of the .param entries of the .asc circuit
  Values,          \* parameter values written in parameter files
  Naming,          \* config.output_data_naming_convention
  NumColumns,      \* columns of a cleaned trace: 1 + #config.variable_numbering - 1
  SwitchOutcomes   \* what the analysis of one switch can end in

ASSUME Naming \in {"number", "parameter"}

\* Parameters analyze_data reads from the header, lines 49-52.
RequiredParams == {"R_s", "I_out"}

\* analysis_tools.py line 43 keeps columns 0..6 and line 64 loops
\* len(data[0,1:])/3 times, with Python 2 integer division.
NumSwitches == ((IF NumColumns < 7 THEN NumColumns ELSE 7) - 1) \div 3

(***************************************************************************)
(* parse_parameter_file (simulation_tools.py 136-162). A token starting   *)
(* with '#' is "#c". A set command has the record form of a run with one  *)
(* value. A line too short for its command raises IndexError, which the   *)
(* parser turns into None, as it does an unknown command.                  *)
(***************************************************************************)
ParseLine(l) ==
  CASE Len(l) = 0      -> [kind |-> "skip"]
    [] l[1] = "#c"     -> [kind |-> "skip"]
    [] l[1] = "set"    -> IF Len(l) < 3 THEN [kind |-> "error"]
                          ELSE [kind |-> "s", param |-> l[2], values |-> <<l[3]>>]
    [] l[1] = "run"    -> IF Len(l) < 2 THEN [kind |-> "error"]
                          ELSE [kind |-> "r", param |-> l[2], values |-> SubSeq(l, 3, Len(l))]
    [] OTHER           -> [kind |-> "error"]

\* The command list, or None (ok = FALSE) on a syntax error.
ParseParameterFileOf(lines) ==
  LET parsed == [i \in 1..Len(lines) |-> ParseLine(lines[i])]
  IN  [ok   |-> \A i \in DOMAIN parsed : parsed[i].kind # "error",
       cmds |-> SelectSeq(parsed, LAMBDA c : c.kind # "skip")]

\* set_parameters (simulation_tools.py 164-184): the value replaces every
\* TEXT token naming the parameter; a name that occurs nowhere changes nothing.
SetParam(asc, p, v) == [q \in DOMAIN asc |-> IF q = p THEN v ELSE asc[q]]

\* run_simulations lines 34-39: the output file name of the i-th value of a
\* run command, numbered or "parameter=value". Zero padding to three digits
\* is injective and left out.
\* (Mutant: numbered names restart at 0 for every run command.)
OutputNameNoOffset(i, start, p, v) ==
  IF Naming = "number" THEN [num |-> i] ELSE [param |-> p, value |-> v]

OutputName(i, start, p, v) ==
  IF Naming = "number" THEN [num |-> i + start] ELSE [param |-> p, value |-> v]

VARIABLES
  opts, optIdx,          \* main's argument vector and loop position
  paramFile, doAnalysis, \* -f given, -a given
  outPath,               \* config.output_data_path: "config" or "given" by -o
  ascFile,               \* config.LTSpice_asc_filename: "config" or "given" by -m
  lines,                 \* the parameter file's content
  commands,              \* the parsed command list
  pc, cmdIdx, valIdx,    \* driver position
  finished,              \* number_of_finished_simulations
  cmdFiles,              \* filenames returned by the current run_simulations
  allFilenames,          \* all_filenames
  asc,                   \* parameter values of the base .asc file
  traces,                \* output file -> the assignment it was simulated with
  anaIdx, sw,            \* analyze(): file position, switch loop position
  analysis,              \* output file -> its _analysis.txt
  summaryName,           \* config defines output_data_summary_filename
  report,                \* the summary file's lines, or <<>> before make_report
  runs                   \* history: the assignment of every simulation, in order

vars == <<opts, optIdx, paramFile, doAnalysis, outPath, ascFile, lines, commands,
          pc, cmdIdx, valIdx, finished, cmdFiles, allFilenames, asc, traces,
          anaIdx, sw, analysis, summaryName, report, runs>>

\* Program states where the process has ended.
Terminal == {"done", "exit", "IndexError", "ValueError", "AttributeError", "IOError"}

\* The trace file written by the default simulation, run_simulations 50.
RawFile == <<outPath, [raw |-> ascFile]>>

\* The default simulation: run_simulations() with no parameter set.
DefaultRun == traces' = (RawFile :> asc) @@ traces

Init ==
  /\ opts \in OptionLists
  /\ optIdx = 1
  /\ paramFile = FALSE
  /\ doAnalysis = FALSE
  /\ outPath = "config"
  /\ ascFile = "config"
  /\ lines \in ParamFiles
  /\ commands = <<>>
  /\ pc = "opts"
  /\ cmdIdx = 1
  /\ valIdx = 1
  /\ finished = 0
  /\ cmdFiles = <<>>
  /\ allFilenames = <<>>
  /\ asc = [p \in AscParams |-> 0]
  /\ traces = [f \in {} |-> asc]
  /\ anaIdx = 1
  /\ sw = -1
  /\ analysis = [f \in {} |-> 0]
  /\ summaryName \in BOOLEAN
  /\ report = <<>>
  /\ runs = <<>>

(***************************************************************************)
(* main, run.py 71-85: one option per step. -r runs the default            *)
(* simulation at once and exits, before the options after it are seen.     *)
(* -m selects another circuit file; its parameters are modelled as those  *)
(* of the configured one.                                                  *)
(***************************************************************************)
Option ==
  /\ pc = "opts"
  /\ optIdx <= Len(opts)
  /\ optIdx' = optIdx + 1
  /\ LET o == opts[optIdx] IN
       CASE o = "-h" -> pc' = "exit" /\ UNCHANGED <<paramFile, doAnalysis, outPath, ascFile, traces>>
         [] o = "-f" -> paramFile' = TRUE /\ UNCHANGED <<pc, doAnalysis, outPath, ascFile, traces>>
         [] o = "-a" -> doAnalysis' = TRUE /\ UNCHANGED <<pc, paramFile, outPath, ascFile, traces>>
         [] o = "-m" -> ascFile' = "given" /\ UNCHANGED <<pc, paramFile, doAnalysis, outPath, traces>>
         [] o = "-o" -> outPath' = "given" /\ UNCHANGED <<pc, paramFile, doAnalysis, ascFile, traces>>
         [] o = "-r" -> DefaultRun /\ pc' = "exit" /\ UNCHANGED <<paramFile, doAnalysis, outPath, ascFile>>
  /\ UNCHANGED <<opts, lines, commands, cmdIdx, valIdx, finished, cmdFiles, allFilenames,
                 asc, anaIdx, sw, analysis, summaryName, report, runs>>

\* run.py 87-89: without -f main does nothing more.
OptionsDone ==
  /\ pc = "opts"
  /\ optIdx > Len(opts)
  /\ pc' = IF paramFile THEN "parse" ELSE "done"
  /\ UNCHANGED <<opts, optIdx, paramFile, doAnalysis, outPath, ascFile, lines, commands,
                 cmdIdx, valIdx, finished, cmdFiles, allFilenames, asc, traces,
                 anaIdx, sw, analysis, summaryName, report, runs>>

\* run.py 16-23: a syntax error ends simulate() with nothing run.
ParseParameterFile ==
  /\ pc = "parse"
  /\ LET c == ParseParameterFileOf(lines) IN
       IF ~c.ok THEN pc' = "done" /\ commands' = commands
       ELSE pc' = "cmds" /\ commands' = c.cmds
  /\ UNCHANGED <<opts, optIdx, paramFile, doAnalysis, outPath, ascFile, lines,
                 cmdIdx, valIdx, finished, cmdFiles, allFilenames, asc, traces,
                 anaIdx, sw, analysis, summaryName, report, runs>>

\* run.py 25-30: set rewrites the base .asc in place (overwrite=True).
SetCommand ==
  /\ pc = "cmds"
  /\ cmdIdx <= Len(commands)
  /\ commands[cmdIdx].kind = "s"
  /\ asc' = SetParam(asc, commands[cmdIdx].param, commands[cmdIdx].values[1])
  /\ cmdIdx' = cmdIdx + 1
  /\ UNCHANGED <<opts, optIdx, paramFile, doAnalysis, outPath, ascFile, lines, commands,
                 pc, valIdx, finished, cmdFiles, allFilenames, traces,
                 anaIdx, sw, analysis, summaryName, report, runs>>

\* run.py 31-36: a run command calls run_simulations on its value list.
RunCommand ==
  /\ pc = "cmds"
  /\ cmdIdx <= Len(commands)
  /\ commands[cmdIdx].kind = "r"
  /\ pc' = "sim"
  /\ valIdx' = 1
  /\ cmdFiles' = <<>>
  /\ UNCHANGED <<opts, optIdx, paramFile, doAnalysis, outPath, ascFile, lines, commands,
                 cmdIdx, finished, allFilenames, asc, traces,
                 anaIdx, sw, analysis, summaryName, report, runs>>

(***************************************************************************)
(* run_simulations 32-47, one parameter value: the base .asc with the     *)
(* value set is written to _generated.asc and simulated, and the cleaned  *)
(* trace is written to the output file, replacing any earlier one.        *)
(***************************************************************************)
Simulate ==
  /\ pc = "sim"
  /\ LET c   == commands[cmdIdx]
         v   == c.values[valIdx]
         f   == <<outPath, OutputName(valIdx - 1, finished, c.param, v)>>
         gen == SetParam(asc, c.param, v)
     IN /\ valIdx <= Len(c.values)
        /\ traces' = (f :> gen) @@ traces
        /\ cmdFiles' = Append(cmdFiles, f)
        /\ runs' = Append(runs, gen)
  /\ valIdx' = valIdx + 1
  /\ UNCHANGED <<opts, optIdx, paramFile, doAnalysis, outPath, ascFile, lines, commands,
                 pc, cmdIdx, finished, allFilenames, asc,
                 anaIdx, sw, analysis, summaryName, report>>

\* run_simulations 58 and run.py 37-40: the files join all_filenames, the
\* counter advances, and with -a the files are analysed at once.
SimulationsDone ==
  /\ pc = "sim"
  /\ valIdx > Len(commands[cmdIdx].values)
  /\ allFilenames' = allFilenames \o cmdFiles
  /\ finished' = finished + Len(commands[cmdIdx].values)
  /\ IF doAnalysis
       THEN pc' = "analyze" /\ anaIdx' = 1 /\ sw' = -1 /\ cmdIdx' = cmdIdx
       ELSE pc' = "cmds" /\ cmdIdx' = cmdIdx + 1 /\ UNCHANGED <<anaIdx, sw>>
  /\ UNCHANGED <<opts, optIdx, paramFile, doAnalysis, outPath, ascFile, lines, commands,
                 valIdx, cmdFiles, asc, traces, analysis, summaryName, report, runs>>

(***************************************************************************)
(* analyze_data 37-61 for the next file of analyze(): read the trace, cut  *)
(* it at 40 us (IndexError when the trace ends before, line 41), read R_s  *)
(* and I_out from the header (IndexError when absent, lines 49-51), then   *)
(* truncate _analysis.txt and write its two header lines.                  *)
(***************************************************************************)
AnalyzeOpen ==
  /\ pc = "analyze"
  /\ anaIdx <= Len(cmdFiles)
  /\ sw = -1
  /\ LET f == cmdFiles[anaIdx] IN
       \E reaches40us \in BOOLEAN :
         IF reaches40us /\ RequiredParams \subseteq DOMAIN traces[f]
           THEN /\ analysis' = (f :> [blocks |-> 0, complete |-> FALSE, of |-> traces[f]])
                                 @@ analysis
                /\ sw' = 0
                /\ pc' = pc
           ELSE pc' = "IndexError" /\ UNCHANGED <<analysis, sw>>
  /\ UNCHANGED <<opts, optIdx, paramFile, doAnalysis, outPath, ascFile, lines, commands,
                 cmdIdx, valIdx, finished, cmdFiles, allFilenames, asc, traces,
                 anaIdx, summaryName, report, runs>>

\* (Mutant: the switch loop runs once more than range() allows.)
AnalyzeSwitchPastEnd ==
  /\ pc = "analyze"
  /\ sw \in 0..NumSwitches
  /\ \E o \in SwitchOutcomes :
       IF o = "ok"
         THEN /\ analysis' = [analysis EXCEPT ![cmdFiles[anaIdx]].blocks = @ + 1]
              /\ sw' = sw + 1
              /\ pc' = pc
         ELSE pc' = o /\ UNCHANGED <<analysis, sw>>
  /\ UNCHANGED <<opts, optIdx, paramFile, doAnalysis, outPath, ascFile, lines, commands,
                 cmdIdx, valIdx, finished, cmdFiles, allFilenames, asc, traces,
                 anaIdx, summaryName, report, runs>>

(***************************************************************************)
(* analyze_data 64-155, one switch: detection, overshoot, ringing, the two *)
(* loss windows, then its text block. An exception of the detector or the *)
(* loss window leaves the file as written so far and ends the program.     *)
(***************************************************************************)
AnalyzeSwitch ==
  /\ pc = "analyze"
  /\ sw \in 0..(NumSwitches - 1)
  /\ \E o \in SwitchOutcomes :
       IF o = "ok"
         THEN /\ analysis' = [analysis EXCEPT ![cmdFiles[anaIdx]].blocks = @ + 1]
              /\ sw' = sw + 1
              /\ pc' = pc
         ELSE pc' = o /\ UNCHANGED <<analysis, sw>>
  /\ UNCHANGED <<opts, optIdx, paramFile, doAnalysis, outPath, ascFile, lines, commands,
                 cmdIdx, valIdx, finished, cmdFiles, allFilenames, asc, traces,
                 anaIdx, summaryName, report, runs>>

\* analyze_data 157-162: the summary line, then the next file.
AnalyzeClose ==
  /\ pc = "analyze"
  /\ sw = NumSwitches
  /\ analysis' = [analysis EXCEPT ![cmdFiles[anaIdx]].complete = TRUE]
  /\ anaIdx' = anaIdx + 1
  /\ sw' = -1
  /\ UNCHANGED <<opts, optIdx, paramFile, doAnalysis, outPath, ascFile, lines, commands,
                 pc, cmdIdx, valIdx, finished, cmdFiles, allFilenames, asc, traces,
                 summaryName, report, runs>>

\* run.py 53-54 ends; the command loop goes on.
AnalyzeDone ==
  /\ pc = "analyze"
  /\ anaIdx > Len(cmdFiles)
  /\ pc' = "cmds"
  /\ cmdIdx' = cmdIdx + 1
  /\ UNCHANGED <<opts, optIdx, paramFile, doAnalysis, outPath, ascFile, lines, commands,
                 valIdx, finished, cmdFiles, allFilenames, asc, traces,
                 anaIdx, sw, analysis, summaryName, report, runs>>

\* run.py 42-46: the default simulation on the base .asc, then the report.
CommandsDone ==
  /\ pc = "cmds"
  /\ cmdIdx > Len(commands)
  /\ DefaultRun
  /\ pc' = IF doAnalysis THEN "report" ELSE "done"
  /\ UNCHANGED <<opts, optIdx, paramFile, doAnalysis, outPath, ascFile, lines, commands,
                 cmdIdx, valIdx, finished, cmdFiles, allFilenames, asc,
                 anaIdx, sw, analysis, summaryName, report, runs>>

(***************************************************************************)
(* make_report, analysis_tools.py 6-16: opening the summary file needs    *)
(* config.output_data_summary_filename (AttributeError without it); each   *)
(* analysis file must exist (IOError); its last line is copied.            *)
(***************************************************************************)
LastLine(a) == IF a.complete THEN [summary |-> a.of] ELSE [partial |-> a.blocks]

MakeReport ==
  /\ pc = "report"
  /\ CASE ~summaryName
            -> pc' = "AttributeError" /\ report' = report
       [] \E k \in DOMAIN allFilenames : allFilenames[k] \notin DOMAIN analysis
            -> pc' = "IOError" /\ report' = report
       [] OTHER
            -> /\ report' = [k \in DOMAIN allFilenames |->
                               [file |-> allFilenames[k],
                                line |-> LastLine(analysis[allFilenames[k]])]]
               /\ pc' = "done"
  /\ UNCHANGED <<opts, optIdx, paramFile, doAnalysis, outPath, ascFile, lines, commands,
                 cmdIdx, valIdx, finished, cmdFiles, allFilenames, asc, traces,
                 anaIdx, sw, analysis, summaryName, runs>>

\* The process has ended.
Terminated == pc \in Terminal /\ UNCHANGED vars

Next ==
  \/ Option \/ OptionsDone \/ ParseParameterFile
  \/ SetCommand \/ RunCommand \/ Simulate \/ SimulationsDone
  \/ AnalyzeOpen \/ AnalyzeSwitch \/ AnalyzeClose \/ AnalyzeDone
  \/ CommandsDone \/ MakeReport
  \/ Terminated

Spec == Init /\ [][Next]_vars

-----------------------------------------------------------------------------
(* Properties *)

Trace == [AscParams -> Values \cup {0}]

\* Type invariant of the driver state and of the analysis files.
TypeOK ==
  /\ pc \in {"opts", "parse", "cmds", "sim", "analyze", "report"} \cup Terminal
  /\ finished \in Nat /\ finished = Len(allFilenames)
  /\ sw \in -1..NumSwitches
  /\ \A f \in DOMAIN traces : traces[f] \in Trace
  /\ \A f \in DOMAIN analysis :
       analysis[f] \in [blocks : 0..NumSwitches, complete : BOOLEAN, of : Trace]
  /\ Range(allFilenames) \subseteq DOMAIN traces
  /\ Len(runs) >= Len(allFilenames)

\* The trace a report line summarises; a partial last line summarises none.
Summarised(l) == IF "summary" \in DOMAIN l THEN l.summary ELSE "partial"

(***************************************************************************)
(* Refinement of BatchLog. The simulations are the history runs, the      *)
(* report is published once make_report has written a line, and its      *)
(* lines are mapped to the traces they summarise.                          *)
(***************************************************************************)
BL == INSTANCE BatchLog
        WITH Traces    <- Trace,
             log       <- runs,
             published <- report # <<>>,
             summary   <- [k \in DOMAIN report |-> Summarised(report[k].line)]

(***************************************************************************)
(* run.py with make_report implements BatchLog: the report has one line  *)
(* per simulation of the batch, in order, and line k summarises the trace *)
(* simulated by the k-th run. It fails when run_simulations names two     *)
(* runs' output files alike: the later trace and its analysis replace the *)
(* earlier one, and the report lists the later result twice.               *)
(***************************************************************************)
RefinesBatchLog == BL!Spec

(***************************************************************************)
(* Spec section 7: a structural failure in the analysis of one trace must *)
(* not abort the analysis of the other traces of the batch. When the      *)
(* program ends after a run with -f and -a, every command of the          *)
(* parameter file has been carried out and every output file analysed.    *)
(***************************************************************************)
BatchCompletes ==
  (pc \in Terminal /\ doAnalysis /\ commands # <<>>) =>
    /\ cmdIdx > Len(commands)
    /\ Range(allFilenames) \subseteq DOMAIN analysis

=============================================================================
