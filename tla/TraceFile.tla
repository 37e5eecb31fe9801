------------------------------ MODULE TraceFile ------------------------------
(***************************************************************************)
(* One output file of run_simulations, from LTspice's raw file to the      *)
(* arrays analyze_data works on: clean_raw_file (simulation_tools.py       *)
(* 86-126) reads the ASCII raw file line by line and writes the cleaned    *)
(* table; read_simulation_output (analysis_tools.py 18-32) reads it back;  *)
(* analyze_data (lines 37-52) cuts it at 40 us and reads R_s and I_out     *)
(* from the header line.                                                   *)
(*                                                                         *)
(* A raw line is a record: a header line ("text", a "count" line such as   *)
(* "No. Variables: 4", the "values" line) or a data line carrying the      *)
(* sample it holds, [pt |-> point, var |-> variable number].  The cleaned  *)
(* file is a sequence of lines: the header tokens, the variable names and  *)
(* the rows of samples.  Float formatting and parsing are left out: a row  *)
(* is read back as the samples written.  Times are in microseconds.        *)
(***************************************************************************)
EXTENDS Integers, Sequences, SequencesExt, Functions

CONSTANTS
  RawFiles,    \* the raw files LTspice may leave, sequences of raw lines
  Axes,        \* time axes: point -> time in us
  ParamLists,  \* get_parameters results: sequences of [name, value]
  Numbering,   \* config.variable_numbering: name -> variable number
  Sorting,     \* config.preffered_sorting: 0-based positions
  CutTime      \* the 40 us of analyze_data line 41

\* analyze_data cuts on column 0, which config's sorting keeps as time.
ASSUME Sorting[1] = 0 /\ \A n \in DOMAIN Numbering : Numbering["time"] <= Numbering[n]

VARIABLES
  raw, axis, params,       \* the inputs: raw file, its time axis, .param tokens
  line_num, reading_header, number_of_vars, number_of_points, header_length,
  data_line, data,         \* clean_raw_file's locals
  table,                   \* the cleaned file's lines, <<>> until written
  trace, rs, iout,         \* analyze_data's data, snubber_resistance, output_current
  pc

vars == <<raw, axis, params, line_num, reading_header, number_of_vars,
          number_of_points, header_length, data_line, data, table, trace,
          rs, iout, pc>>

cleanVars == <<line_num, reading_header, number_of_vars, number_of_points,
               header_length, data_line, data>>

\* variables = sorted(variable_numbering, key=...), then [preffered_sorting]
Variables == SetToSortSeq(DOMAIN Numbering, LAMBDA a, b : Numbering[a] < Numbering[b])
Columns   == [c \in DOMAIN Sorting |-> Variables[Sorting[c] + 1]]

\* np.array(data)[:, preffered_sorting]: an IndexError when data is empty
\* (a 1-d array) or its rows lack a position the sorting names.
Rearrangeable(d) ==
  d # <<>> /\ \A k \in DOMAIN d : \A c \in DOMAIN Sorting : Sorting[c] < Len(d[k])
Rearrange(d) == [k \in DOMAIN d |-> [c \in DOMAIN Sorting |-> d[k][Sorting[c] + 1]]]

\* output_header: ', '.join(get_parameters(...)) split at white space; every
\* token but the last keeps the comma.  The four leading words name no
\* parameter and are left out.
HeaderTokens(P) ==
  [i \in DOMAIN P |-> [name |-> P[i].name, value |-> P[i].value, comma |-> i < Len(P)]]

Init ==
  /\ raw \in RawFiles
  /\ axis \in Axes
  /\ params \in ParamLists
  /\ line_num = 0
  /\ reading_header = TRUE
  /\ number_of_vars = 0
  /\ number_of_points = 0
  /\ header_length = 0
  /\ data_line = <<>>
  /\ data = <<>>
  /\ table = <<>>
  /\ trace = <<>>
  /\ rs = [num |-> 0]
  /\ iout = [num |-> 0]
  /\ pc = "clean"

\* (Mutant: the variable count taken from line 5, the point count.)
HeaderLineFiveForFour ==
  /\ pc = "clean" /\ reading_header /\ line_num < Len(raw)
  /\ LET l == raw[line_num + 1] IN
       /\ number_of_vars' = IF line_num = 5 THEN l.n ELSE number_of_vars
       /\ number_of_points' = IF line_num = 5 THEN l.n ELSE number_of_points
       /\ reading_header' = (l.kind # "values")
       /\ header_length' = IF l.kind = "values" THEN line_num + 1 ELSE header_length
  /\ line_num' = line_num + 1
  /\ UNCHANGED <<raw, axis, params, data_line, data, table, trace, rs, iout, pc>>

\* Lines 92-100: the counts on lines 4 and 5, the end of the header at "Values:".
HeaderLine ==
  /\ pc = "clean" /\ reading_header /\ line_num < Len(raw)
  /\ LET l == raw[line_num + 1] IN
       /\ number_of_vars' = IF line_num = 4 THEN l.n ELSE number_of_vars
       /\ number_of_points' = IF line_num = 5 THEN l.n ELSE number_of_points
       /\ reading_header' = (l.kind # "values")
       /\ header_length' = IF l.kind = "values" THEN line_num + 1 ELSE header_length
  /\ line_num' = line_num + 1
  /\ UNCHANGED <<raw, axis, params, data_line, data, table, trace, rs, iout, pc>>

\* (Mutant: data_line is not emptied after a point.)
DataLineNoReset(dl, last) ==
  /\ data' = IF last THEN Append(data, dl) ELSE data
  /\ data_line' = dl

\* Lines 105-107: the last variable of a point closes its row.
ClosePoint(dl, last) ==
  /\ data' = IF last THEN Append(data, dl) ELSE data
  /\ data_line' = IF last THEN <<>> ELSE dl

\* (Mutant: the whole raw line kept instead of line.split('\t')[-1].)
DataLineWhole ==
  /\ pc = "clean" /\ ~reading_header /\ line_num < Len(raw)
  /\ LET l  == raw[line_num + 1]
         k  == (line_num - header_length) % number_of_vars
         dl == IF k \in Range(Numbering) THEN Append(data_line, l) ELSE data_line
     IN ClosePoint(dl, k = number_of_vars - 1)
  /\ line_num' = line_num + 1
  /\ UNCHANGED <<raw, axis, params, reading_header, number_of_vars,
                 number_of_points, header_length, table, trace, rs, iout, pc>>

\* Lines 101-104: one data line; the selected variables are kept in file order.
DataLine ==
  /\ pc = "clean" /\ ~reading_header /\ line_num < Len(raw)
  /\ LET l  == raw[line_num + 1]
         k  == (line_num - header_length) % number_of_vars
         dl == IF k \in Range(Numbering) THEN Append(data_line, l.val) ELSE data_line
     IN ClosePoint(dl, k = number_of_vars - 1)
  /\ line_num' = line_num + 1
  /\ UNCHANGED <<raw, axis, params, reading_header, number_of_vars,
                 number_of_points, header_length, table, trace, rs, iout, pc>>

\* Lines 109-126: rearrange the columns and write header, names and rows.
WriteTable ==
  /\ pc = "clean" /\ line_num = Len(raw)
  /\ IF Rearrangeable(data)
       THEN /\ table' = <<HeaderTokens(params), Columns>> \o Rearrange(data)
            /\ pc' = "analyze"
       ELSE /\ pc' = "IndexError"
            /\ UNCHANGED table
  /\ UNCHANGED <<raw, axis, params, cleanVars, trace, rs, iout>>

\* The tokens of a header line naming parameter nm; [...][0] takes the first.
Named(h, nm) == {i \in DOMAIN h : h[i].name = nm}

\* (Mutant: float(value) without split(',')[0]: the comma is kept.)
ParamValueWithComma(tok) == IF tok.comma THEN [text |-> "unparsable"] ELSE tok.value

\* float(param.split('=')[1].split(',')[0]): the value without its comma.
ParamValue(tok) == tok.value

\* A value is [num |-> x] when its text is a plain number, which float()
\* parses, and [text |-> s] otherwise (an LTspice suffix such as 1k).
IsFloat(v) == "num" \in DOMAIN v

\* The exception lines 49-52 raise for header h, or "none": the R_s lookup
\* and its float(), then the same for I_out.
ParamError(h) ==
  LET tok(nm) == h[Min(Named(h, nm))]
  IN CASE Named(h, "R_s") = {}                -> "IndexError"
       [] ~IsFloat(ParamValue(tok("R_s")))    -> "ValueError"
       [] Named(h, "I_out") = {}              -> "IndexError"
       [] ~IsFloat(ParamValue(tok("I_out")))  -> "ValueError"
       [] OTHER                               -> "none"

\* Line 44, data[:,1] = data[:,1] - data[:,4]: the voltage across the upper
\* switch replaces column 1 of a row.
UpperVoltage(row) == [row EXCEPT ![2] = [minus |-> <<row[2], row[5]>>]]

(***************************************************************************)
(* read_simulation_output and analyze_data 37-52: lines 0 and 1 are the   *)
(* header, the rest the data; the data starts at the first sample after   *)
(* 40 us (np.where(...)[0][0], an IndexError when there is none), keeps    *)
(* columns 0..6 and subtracts column 4 from column 1 (an IndexError with  *)
(* fewer than five columns); then R_s and I_out are read from header      *)
(* line 0.                                                                 *)
(***************************************************************************)
AnalyzeOpen ==
  /\ pc = "analyze"
  /\ LET hdr  == table[1]
         rows == SubSeq(table, 3, Len(table))
         late == {k \in DOMAIN rows : axis[rows[k][1].pt] > CutTime}
         keep == [k \in DOMAIN rows |->
                    SubSeq(rows[k], 1, IF Len(rows[k]) < 7 THEN Len(rows[k]) ELSE 7)]
     IN CASE late = {} ->
               pc' = "IndexError" /\ UNCHANGED <<trace, rs, iout>>
          [] Len(keep[Min(late)]) < 5 ->
               pc' = "IndexError" /\ UNCHANGED <<trace, rs, iout>>
          [] ParamError(hdr) # "none" ->
               pc' = ParamError(hdr) /\ UNCHANGED <<trace, rs, iout>>
          [] OTHER ->
               /\ trace' = [k \in 1..(Len(keep) - Min(late) + 1) |->
                              UpperVoltage(keep[Min(late) + k - 1])]
               /\ rs' = ParamValue(hdr[Min(Named(hdr, "R_s"))])
               /\ iout' = ParamValue(hdr[Min(Named(hdr, "I_out"))])
               /\ pc' = "done"
  /\ UNCHANGED <<raw, axis, params, cleanVars, table>>

Terminated ==
  /\ pc \in {"done", "IndexError", "ValueError"}
  /\ UNCHANGED vars

Next == HeaderLine \/ DataLine \/ WriteTable \/ AnalyzeOpen \/ Terminated

Spec == Init /\ [][Next]_vars

-----------------------------------------------------------------------------
TypeOK ==
  /\ raw \in RawFiles /\ axis \in Axes /\ params \in ParamLists
  /\ line_num \in 0..Len(raw)
  /\ reading_header \in BOOLEAN
  /\ data_line \in Seq([pt : Nat, var : Nat])
  /\ data \in Seq(Seq([pt : Nat, var : Nat]))
  /\ Len(data) <= line_num
  /\ pc \in {"clean", "analyze", "done", "IndexError", "ValueError"}

\* What the raw file on disk holds, read independently of the loop: the
\* "Values:" line, the variable count of line 4, the complete points and
\* the sample of variable j at point p.
ValuesLine(r)     == Min({i \in DOMAIN r : r[i].kind = "values"})
NumVars(r)        == r[5].n
CompletePoints(r) == (Len(r) - ValuesLine(r)) \div NumVars(r)
RawSample(r, p, j) == r[ValuesLine(r) + p * NumVars(r) + j + 1].val

(***************************************************************************)
(* The cleaned file holds one row per complete point of the raw file, and *)
(* the cell under each variable name is that variable's sample at that     *)
(* point.  clean_raw_file orders names and samples by two different routes *)
(* (sorting the config names by number; keeping samples in file order by  *)
(* line_num - header_length modulo number_of_vars) and permutes both by    *)
(* preffered_sorting.  A point cut short at the end of a truncated raw    *)
(* file is dropped without notice.                                         *)
(***************************************************************************)
TableFaithful ==
  table # <<>> =>
    /\ Len(table) = 2 + CompletePoints(raw)
    /\ \A k \in 3..Len(table) : \A c \in DOMAIN table[2] :
         table[k][c] = RawSample(raw, k - 3, Numbering[table[2][c]])

(***************************************************************************)
(* clean_raw_file writes a table exactly when the raw file has a complete *)
(* point and every variable config.variable_numbering names; otherwise    *)
(* np.array(data)[:, preffered_sorting] raises IndexError.  A raw file    *)
(* from another circuit (-m) with fewer variables, or one LTspice left    *)
(* without a complete point, ends the run there.                           *)
(***************************************************************************)
TableWrittenUnlessMalformed ==
  pc # "clean" /\ line_num = Len(raw) =>
    (table # <<>> <=> /\ CompletePoints(raw) > 0
                      /\ \A n \in DOMAIN Numbering : Numbering[n] < NumVars(raw))

\* The circuit's value of parameter nm: the first .param token naming it.
CircuitValue(P, nm) == P[Min({i \in DOMAIN P : P[i].name = nm})].value

\* Both parameters analyze_data reads are present and plain numbers.
ParamsPlain(P) ==
  \A nm \in {"R_s", "I_out"} :
    (\E i \in DOMAIN P : P[i].name = nm) /\ IsFloat(CircuitValue(P, nm))

\* The complete points sampled after 40 us.
LatePoints == {p \in 0..(CompletePoints(raw) - 1) : axis[p] > CutTime}

\* The variable config puts in column c (0-based): the one whose number is
\* the preffered_sorting[c]-th smallest.
ColumnVar(c) ==
  CHOOSE nm \in DOMAIN Numbering :
    Cardinality({m \in DOMAIN Numbering : Numbering[m] < Numbering[nm]}) = Sorting[c + 1]

(***************************************************************************)
(* Once a table is written, analyze_data gets past its opening lines      *)
(* exactly when the trace runs past 40 us and R_s and I_out are plain     *)
(* numbers of the circuit; it then analyses every point after 40 us with  *)
(* the circuit's R_s and I_out.  The values travel through ', '.join, a    *)
(* white-space split and split(',')[0] on the way.  Column 1 of what it    *)
(* analyses is the raw difference of the variables preffered_sorting puts  *)
(* in columns 1 and 4 (line 44), whatever order the numbering gives them.  *)
(***************************************************************************)
AnalysisInputFaithful ==
  pc \in {"done", "IndexError", "ValueError"} /\ table # <<>> =>
    /\ pc = "done" <=> LatePoints # {} /\ ParamsPlain(params)
    /\ pc = "done" =>
         /\ rs = CircuitValue(params, "R_s")
         /\ iout = CircuitValue(params, "I_out")
         /\ {trace[k][1].pt : k \in DOMAIN trace} = LatePoints
         /\ \A k \in DOMAIN trace :
              LET p == trace[k][1].pt IN
              trace[k][2] = [minus |-> <<RawSample(raw, p, Numbering[ColumnVar(1)]),
                                         RawSample(raw, p, Numbering[ColumnVar(4)])>>]
=============================================================================
