# TLA+ models of the CROW LTspice command-line tool

This directory holds TLA+ models of the Python tool under
`src/SPICESim/LTspice-cli/`, and the TLC configurations that check them. The
tool drives LTspice, cleans the raw traces and analyses the switching
transitions. Every definition is translated from the Python source. The
`map` of `PROJECT.json` names the lines each definition stands for.

## The system and how its parts interact

| Part | Source | What it does |
|------|--------|--------------|
| Command-line driver | `run.py` `main`, `simulate`, `analyze` | Parses options (`-r -f -m -o -a`). Reads the parameter file and runs its `set`/`run` commands in order. After each `run` command it analyses that command's output files. It then always runs one more simulation with the defaults and, with `-a`, writes the report. |
| Simulation control | `simulation_tools.py` `run_simulations`, `simulate`, `set_parameters`, `get_parameters`, `parse_parameter_file` | Rewrites `name=value` tokens in the `.asc` TEXT lines, calls LTspice and names the output files by number or by `parameter=value`. |
| Raw-file cleaning | `simulation_tools.py` `clean_raw_file` | Turns the LTspice ASCII raw file into a tab-separated table with a header line. |
| Per-switch analysis | `analysis_tools.py` `analyze_data` (the copy run.py imports) and `MATLAB scripts/analysis_tools.py` `analyze_data`/`analyze_data_single` | Works on each switch's (voltage, current, snubber) columns. It detects the transitions, measures overshoot and ringing, grows the loss window until the current settles, and integrates the switching energy. It appends one line per switch to `<file>_analysis.txt`. |
| Transition detectors | `calculate_switching_times` (extrema pairs in `analysis_tools.py`; bisection in the MATLAB scripts), `calculate_switching_times_alternative` (hysteresis), `local_extrema` | Return the 10%-90% rise window, the 90%-10% fall window and the found flags. A miss gives the sentinel `(0,0)`. |
| Ringing | `calculate_ringing` and the `try/except IndexError` at `analyze_data` 97-103 | Ringing frequency and decay from the local maxima after the global peak. The fallback is period 50. |
| Report | `make_report` | The last line of each analysis file is written to one summary file. |

Data flow: `run.py` → `run_simulations` → LTspice → `clean_raw_file` →
`analyze_data` → (detectors, ringing, loss window, integrator) →
`_analysis.txt` → `make_report`. Nothing runs concurrently. The hard
behaviours are in the control flow of the analysis:
- the sentinel flowing from a detector into index arithmetic;
- Python's negative slice indices;
- loops with no bound;
- exceptions that abort a whole batch;
- state rewritten after it was "found".

## Modules

| Module | Models | State / actions |
|--------|--------|-----------------|
| `Extrema` | `local_extrema`, the sort at 174-176, the percentage thresholds | Operators only. `LocalMax`/`LocalMin` are the strict `np.r_` tests. `InOrder` lists a set of positions in ascending order (the `np.sort`). `Above(v,pct,nom)` is `v > pct/100*nom`, compared exactly in integers. |
| `SwitchingTimes` | `calculate_switching_times` of `analysis_tools.py` | `data`, `extrema` (the local the code computes once on entry), loop position `pos`, `prev`, `rise`, `fall`, the found flags, `pc`. `Start` is the `extrema[0]` read. Each iteration of the primary pass is one `PrimaryStep`, which ends in a break, the next pass or an `IndexError`. `RelaxedRiseStep`/`RelaxedFallStep` are the 40%/60% passes. `Return` is the `try/UnboundLocalError` at 216-221. |
| `Hysteresis` | `calculate_switching_times_alternative` (MATLAB copy) | `data`, `step`, `going_up/down`, `rise`, `fall`, the found flags. `Iterate` is one loop iteration: the four crossing tests in order, then the break. `Exhausted` is the loop end. `Returned` is line 410's `(rise, fall, True, True)`: the found flags only decide the break, and the caller always receives both flags True. |
| `Bisection` | `calculate_switching_times` of `MATLAB scripts/analysis_tools.py` (303-327) | `data`, `pc`, `out`. `Bisect` is the whole straight-line call: `mid_point = len/2`, the polarity test on `data[mid_point]`, the four `np.where(...)[0][0]` searches in their halves (`IndexError` on an empty one), and the unconditional `(rise, fall, True, True)`. |
| `Ringing` | `calculate_ringing` (both copies) and the period fallback | One `Analyze` step gives `out = [fallback, period, peaks, aboveNominal]`. `Variant` selects the copy. |
| `ChannelAnalysis` | The calls `analyze_data` makes on one voltage channel `data[:, col]` | Composes `Ringing` (MATLAB copy), `SwitchingTimes` and `Hysteresis` by `INSTANCE ... WITH` on a shared `data`, each with its own renamed local state. The calls run one after the other: each steps until it has returned, then the next starts. They only read the channel, so the order does not matter to any result. |
| `LossWindow` | `analyze_data` 107-118 and `analyze_data_single` 246-258 | `start`, `stop`, `delta`, `pc`. `Init` is the widening. `Grow` is one `while True` iteration: `delta += 100`, then the settle test or the `ValueError` of `max([])`. `Integrated` is the set of samples of `[start:stop]` under Python's slice rules. The break (`Break`) also runs `calc_switch_loss` on `time[start:stop]` and the two channels' slices. `CalcSwitchLoss` is a RECURSIVE trapezoid sum. It returns twice the energy, so integer samples give an exact result. The energy goes in `energy`. The settle channel has two levels either side of the limit (`Below`, `Above`), the other channel is a constant `Partner`, and the time axis is a constant. `Variant` selects the copy. |
| `TraceFile` | `clean_raw_file`, `read_simulation_output`, the start of `analyze_data` (`analysis_tools.py` 37-52) | `raw` (the raw file as a sequence of header, `Values:` and sample lines), `line_num`, `reading_header`, `number_of_vars`, `number_of_points`, `header_length`, `data_line`, `data`, then `table` (the written file), `trace`, `rs`, `iout`, `pc`. `HeaderLine` is one header iteration of the line loop, and `DataLine` one data iteration, including the point close (`ClosePoint`). `WriteTable` is the rearrangement by `config.preffered_sorting` with its `IndexError`, followed by the write. `AnalyzeOpen` reads the table back, cuts at 40 us and subtracts column 4 from column 1 (line 44, `UpperVoltage`, an `IndexError` with fewer than five columns), and looks up `R_s` and `I_out` (`IndexError`/`ValueError`). A sample is the pair (point, variable) it came from. A parameter value is a number `float()` accepts or a text it rejects (`1k`). |
| `BatchLog` | What a batch with `-a` promises (spec 6, 7) | Abstract: `log` (the traces simulated, in order), `published`, `summary`. `Record` appends a trace; `Publish` writes the summary of the whole log once. |
| `Batch` | `run.py` `main`/`simulate`/`analyze`, `parse_parameter_file`, `set_parameters`, `run_simulations`, `analyze_data` at the level of its file, `make_report` | The options and the command list, `asc` (the base circuit's parameters), `traces` (output file to the assignment it was simulated with), `analysis` (output file to its `_analysis.txt`: blocks written, summary written, trace summarised), `report`, and `runs` (a history of every simulation). There is one action per option, set command, run command, simulated value, analysis stage and report. `AnalyzeSwitch` abstracts one switch to its outcome: it completes, or it raises the IndexError or ValueError that the component modules exhibit. `BL` maps it onto `BatchLog`. |
| `MCSignals`, `MC*` | Bounded inputs | All signals of length k over a small value set, signals without equal neighbours, and monotone steps. |

Data is abstracted to what the properties distinguish:
- Signals are functions `0..k-1 -> values` with nominal 10. The values sit
  off the thresholds 1, 4, 6 and 9, so every comparison is exact. The
  bisection's polarity threshold is 5 (`nominal_value/2`), and the value 5
  sits on it, as an integer trace can.
- Times, frequencies and energies are left out. Only indices, flags and the
  fallback outcome matter.
- The settle channel of the loss window is the set of samples whose current
  is at or above 1.05 times the output current.

### Refinement

`Batch` implements `BatchLog` under the mapping
- `log <- runs` (every simulation `run_simulations` and the final default run make, in order),
- `published <- report # <<>>`,
- `summary <- the trace each report line summarises`.

A simulation is a `Record` step, and `make_report` is the `Publish` step.
Every other step of `Batch` is a stuttering step of `BatchLog`. The run
`batch` checks `RefinesBatchLog == BL!Spec` as a temporal property. The
refinement holds only if line k of the report is the analysis of the k-th
simulation's own trace. That needs each output file name to be fresh and the
analysis of a file to see the trace that file was simulated with.

## Runs

| Run | Expect | What it shows |
|-----|--------|---------------|
| `channel` | pass | On every 7-sample channel in the model:<br>- The extrema-pair detector reports only real transitions with forward windows, on channels without plateaus.<br>- Where the extrema-pair detector reports both transitions and the hysteresis loop finds both, the windows they return agree within one sample (spec 8).<br>The ringing analysis runs in the composition so that its step is exercised. No property of this run is about it: its sentinel rule is checked by `ringing_fivepeaks`. |
| `switching_peak` | violation | `data[prev_x:x]` excludes the peak, so a rise first reaching 90% at the peak raises IndexError (analysis_tools.py:185). |
| `switching_step` | violation | The spec-8 step (rise found, fall not) is never reported. A flat top raises IndexError at `extrema[0]`, and otherwise both flags come back False. |
| `switching_plateau` | violation | With a plateau, the relaxed fall pass returns stop < start, which is a negative fall time (line 211). |
| `bisection_step` | violation | The bisection detector returns both flags True whenever its searches match. On the step 0,0,0,0,0,0,10 it reports a fall (0,0) the signal never made (MATLAB line 323). |
| `losswindow_single` | pass | `analyze_data_single`'s window always covers both transitions, and the grow loop always ends (under weak fairness of `Grow`). The energy integrated over the slice the search ends on equals spec 8's closed form V·I·T whenever both channels are constant over the slice. This holds on a non-uniform time axis and for clipped or one-sample slices. |
| `losswindow_wrap` | violation | `analyze_data`'s unclamped `start -= 2*(stop-start)` goes negative, and the energy slice wraps or is empty (line 110). |
| `losswindow_period0` | violation | With a ringing period of 0 samples, the lookahead `data[stop+delta : stop+delta+0]` is empty and `max()` raises ValueError on a channel that has already settled. `Ringing` yields period 0 for two peaks after a long first time step. |
| `ringing_fivepeaks` | violation | The `analysis_tools.py` copy needs five maxima. With two usable peaks it still reports 0 MHz (line 241). |
| `tracefile` | pass | For every raw file, time axis and header in the model:<br>- the cleaned table has one row per complete raw point, each cell holding the sample of the variable its column names;<br>- the table is written exactly when a complete point exists and every variable `config.py` numbers is in the file, and otherwise `clean_raw_file` raises IndexError;<br>- `analyze_data` gets past its opening exactly when the trace passes 40 us and `R_s` and `I_out` are plain numbers, and it then holds the circuit's values and exactly the late points. |
| `batch` | pass | With the shipped numbered naming, `run.py` with `make_report` implements `BatchLog`. This holds for every option order, parameter file and analysis failure in the model. |
| `batch_abort` | violation | One analysis exception ends the whole batch. The other files, the later commands, the default run and the report are lost, against spec 7 (run.py:40). |

With `Naming = "parameter"`, `RefinesBatchLog` fails. The sequence
`run R_s 1 2; set I_out 2; run R_s 1` overwrites `R_s=1.txt` with a
different circuit, and the report then summarises one trace twice. This is
listed as a hazard.

On channels with plateaus, the extrema-pair detector also reports a fall the
signal never made (0,7,0,0,10,10,3). It has the same cause as
`switching_plateau`, so the `channel` run states its two extrema properties
for channels without plateaus.

The findings these violations support are in `PROJECT.json` (`findings`).

### Bounds and why they suffice

`MCBatch` has six argument vectors, covering `-h`, `-r` before `-f`, `-o` and `-m`, and no `-f`. It has three parameter files:
- two run commands with a set between them;
- comment, blank and unknown-parameter lines, plus a run without values;
- a syntax error.

The circuit has the two parameters `analyze_data` reads. Each file has one switch, because config.py records five variables and `(5-1)/3 = 1`.

Signals have 6 to 8 samples over 4 to 6 values. These lengths allow:
- two full transitions;
- a ring of two peaks;
- a plateau between extrema;
- an extremum at the border.

`MCChannelAnalysis` takes every 7-sample signal without equal neighbours over
{0,3,5,7,10,12}, and every 7-sample signal over {0,5,10}. The hysteresis loop
compares each sample only with 1 and 9, so the second set gives it every
sequence of below / between / above, plateaus included. The one time axis has
a first step three times the others: a period in samples and a time then
differ. That is about 1.3 million states. Each call's result is checked in
the state where the next call starts, because no later step changes it.

`MCTraceFile` has four raw files with 6 or 5 variables, 2 announced points and 2, 1 or 0 complete points (one with a partial last point). It has three time axes, one never passing 40 us, and four headers: both parameter orders, `R_s` missing, and `R_s=1k`. The configured numbering has five variables, as `config.py` has, numbered 0, 1, 2, 3 and 5, with `config.py`'s sorting `[0, 2, 1, 3, 4]`. A file with 5 variables lacks variable 5. Every table then has the five columns line 44 needs. These cover each branch of `clean_raw_file` and of the opening of `analyze_data`.

Every counterexample TLC found needs 6 or 7 samples. The loss window uses 8
samples, step 2 and periods 0..2. With these, the search can settle, grow past
the end of the trace, and widen below 0. The time axis has a first interval of
3 and then 1, so a sum that drops or misweighs one interval misses the closed
form.

### Fairness

Every loop of the program is sequential code with no waiting. The only
liveness property (`SearchEnds`) assumes weak fairness of `Grow`. The code
justifies it: the `while True` body always runs again unless it broke or
raised. The other specifications check only safety. Their termination is a
stuttering `Terminated` step, so deadlock checking stays on and catches a
missing exit.

## Not modelled

These parts are not modelled:
- float rounding in `calc_switch_loss`. `LossWindow` sums exactly over
  integers.
- the snubber energy (`R * E` in `analysis_tools.py`, `1/R * E` in
  `analyze_data_single`). Its only control is a division by a resistance of
  0. `analyze_data_single` takes the resistance as an argument from a
  caller outside this repository, and the 0 that the MATLAB `analyze_data`
  sets at lines 69-71 is only used through `np.multiply`.
- `calculate_overshoots`. It is two `max`/`min` calls with no control flow.
- LTspice itself, the file system and float formatting. These are I/O.
  `Batch` abstracts them to which file holds which trace, and `TraceFile`
  to the shape of the raw file.
- the fallback at `clean_raw_file` 75-82 that simulates again when the raw
  file is missing: the model's raw file always exists.
- the MATLAB copy's snubber-resistance chain (`R_s2`, then `rn*d`, then 0,
  MATLAB 53-71). It catches only ValueError, so a missing `R_s2` raises
  IndexError. This is listed as a hazard.
- `config.py`. It holds constants only. `TraceFile` takes its numbering and
  sorting as constants, and assumes time stays in column 0, as `analyze_data`
  needs.
- numpy's numerics beyond comparisons and indices.

Per-switch orchestration is partly modelled:
- `ChannelAnalysis` composes the calls on one voltage channel.
- `LossWindow` takes the period as a constant over 0..2.
- `Batch` abstracts one switch to its outcome.

Feeding `Ringing`'s period into `LossWindow` in one model needs a channel of
about 8 samples over a current trace, and TLC cannot enumerate all such
channels within the time bound. `losswindow_period0` instead shows the two
halves separately: `Ringing` yields period 0, and period 0 breaks the window
search.

Spec 8 also expects the detectors to agree on square pulses. The
extrema-pair detector fails this on plateaus, for the same reason as
`switching_plateau` and `switching_step`, so `DetectorsAgree` is stated for
channels without plateaus.

The twelve runs are all in use. Some hazards have no run, although a
violation run would show them:
- the overwritten output files under parameter naming;
- a ring back through 90% that rewrites a found rise (`rise[0] = 0`, MATLAB
  line 387). The function is called by neither analysis entry point;
- the `-r` early exit;
- the hysteresis detector returning both flags True for every channel
  (MATLAB line 410), which has no caller either.

`PROJECT.json` lists each of them with a note.
