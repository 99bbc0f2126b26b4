----------------------------- MODULE InputParser -----------------------------
(***************************************************************************)
(* How every rank of the solver gets its options: main and InputParser.     *)
(* Each rank reads the input file for itself, line by line; a line that     *)
(* cannot be used ends the program, by MPI_Abort or by an exception that    *)
(* nobody catches.                                                          *)
(*                                                                         *)
(* A line is the name of an option after some blanks, a colon and more      *)
(* blanks, a value, and perhaps a remark that names other options.  A value *)
(* is a sequence of characters: 0 to 9 are the digits, 10 to 35 the letters. *)
(***************************************************************************)
EXTENDS Naturals, SequencesExt

CONSTANTS
    Readers,        \* the ranks
    input_strings,  \* the names of the options in the order of the table
    Lines,          \* lines a file may consist of
    Length,         \* bound on the lines of a file
    Waived          \* obligations of the user that this instance ignores

\* What nothing checks.  "input_file": the name of a file is given.  "once": no
\* option is given twice.  "margin": a name is not indented by more characters
\* than there are between it and its value.
Obligations == {"input_file", "once", "margin"}

Flags   == {"use_gpu_solver", "implicit_solver"}
Numbers == {"Nx", "Ny", "tol_val", "num_iter", "gpu_global_range", "gpu_local_range"}
Words   == {"tol_type", "solver_type"}
AllOptions == Flags \union Numbers \union Words

Root == 0
Options == ToSet(input_strings)

ASSUME ReadersAssumption == Root \in Readers
ASSUME OptionsAssumption ==
    /\ input_strings \in Seq(AllOptions)
    /\ IsInjective(input_strings)
ASSUME LinesAssumption ==
    \A l \in Lines :
        /\ l.option \in Options \union {"none"}
        /\ l.remark \subseteq Options
        /\ {l.indent, l.gap} \subseteq Nat
        /\ l.value \in Seq(0..35)
ASSUME LengthAssumption == Length \in Nat
ASSUME WaivedAssumption == Waived \subseteq Obligations

VARIABLES
    argc,         \* the number of arguments of the program
    infile,       \* the lines of the input file
    pc,           \* where each rank is
    at,           \* the lines it has read
    input_count,  \* the valid ones
    options,      \* the members of its InputParser
    phase         \* "run", or how the program ended

parserVars == <<argc, infile, pc, at, input_count, options, phase>>

\* the initializers of the class; tol_type abs and solver_type jacobi are 0
Default(o) ==
    CASE o \in Flags          -> TRUE
      [] o \in {"Nx", "Ny", "tol_val"} -> 1000
      [] o = "num_iter"         -> 10
      [] o = "gpu_global_range" -> 262144
      [] o = "gpu_local_range"  -> 256
      [] o \in Words            -> 0
Defaults == [o \in Options |-> Default(o)]

\* abs and rel, jacobi and bicgstab
Spellings(o) ==
    IF o = "tol_type"
    THEN <<<<10, 11, 28>>, <<27, 14, 21>>>>
    ELSE <<<<19, 10, 12, 24, 11, 18>>, <<11, 18, 12, 16, 28, 29, 10, 11>>>>

ParserInit ==
    /\ argc \in (IF "input_file" \in Waived THEN 1..3 ELSE 2..3)
    /\ infile \in UNION {[1..k -> Lines] : k \in 0..Length}
    /\ "once" \notin Waived =>
           \A j, k \in DOMAIN infile : infile[j].option = infile[k].option => j = k
    /\ "margin" \notin Waived =>
           \A k \in DOMAIN infile : infile[k].indent <= infile[k].gap
    /\ pc = [r \in Readers |-> "main"]
    /\ at = [r \in Readers |-> 0]
    /\ input_count = [r \in Readers |-> 0]
    /\ options = [r \in Readers |-> Defaults]
    /\ phase = "run"

-----------------------------------------------------------------------------
(* One line.                                                                *)

\* find_input_option: it takes the first name of the table that occurs in the line
Occurring(line) == ({line.option} \union line.remark) \intersect Options
Found(line) == {k \in DOMAIN input_strings : input_strings[k] \in Occurring(line)}

\* parse_input_value erases pos + length characters from pos on, not length: as
\* many more as the name is indented by
Kept(line) ==
    LET eaten == IF line.indent > line.gap THEN line.indent - line.gap ELSE 0
    IN  SubSeq(line.value, eaten + 1, Len(line.value))

\* stoi and stod take the digits the text begins with and throw if there are none
Digits(text) == text # <<>> /\ \A k \in DOMAIN text : text[k] \in 0..9
Number(text) == FoldLeft(LAMBDA n, digit : 10 * n + digit, 0, text)

\* the text before the name is part of what is left
IsNumber(line, o) == o = line.option /\ Digits(Kept(line))
IsChoice(line, o) == o = line.option /\ line.remark = {} /\ Contains(Spellings(o), Kept(line))

Meaning(o, text) ==
    IF o \in Flags THEN Number(text) # 0
    ELSE IF o \in Numbers THEN Number(text)
    ELSE (CHOOSE k \in DOMAIN Spellings(o) : Spellings(o)[k] = text) - 1

-----------------------------------------------------------------------------
(* The ranks.                                                               *)

Running == phase = "run"

\* log_msg<ERROR> calls MPI_Abort, an uncaught exception terminate: both end
\* the program on all ranks
End(how) ==
    /\ phase' = how
    /\ UNCHANGED <<pc, at, input_count, options>>

Goto(r, place) == pc' = [pc EXCEPT ![r] = place]

\* main: without a file only the root has an InputParser, and the others read
\* through a pointer that was never set
Main(r) ==
    /\ Running /\ pc[r] = "main"
    /\ IF argc >= 2
       THEN Goto(r, "getline") /\ UNCHANGED options
       ELSE /\ Goto(r, "options")
            /\ \/ UNCHANGED options
               \/ /\ r # Root
                  /\ \E o \in Options : \E n \in 0..1 :
                        options' = [options EXCEPT ![r][o] = IF o \in Flags THEN n = 1 ELSE n]
    /\ UNCHANGED <<argc, infile, at, input_count, phase>>

\* read_inputs: a file that cannot be opened
CannotOpen(r) ==
    /\ Running /\ pc[r] = "getline" /\ at[r] = 0
    /\ End("aborted")
    /\ UNCHANGED <<argc, infile>>

\* read_inputs, find_input_option and parse_input_value for the next line
ReadLine(r) ==
    /\ Running /\ pc[r] = "getline" /\ at[r] < Len(infile)
    /\ LET line == infile[at[r] + 1]
           o == input_strings[Min(Found(line))]
           use == /\ options' = [options EXCEPT ![r][o] = Meaning(o, Kept(line))]
                  /\ input_count' = [input_count EXCEPT ![r] = @ + 1]
                  /\ at' = [at EXCEPT ![r] = @ + 1]
                  /\ UNCHANGED <<pc, phase>>
       IN  IF Found(line) = {} THEN End("aborted")
           ELSE IF o \in Words
           THEN IF IsChoice(line, o) THEN use ELSE End("aborted")
           ELSE IF IsNumber(line, o) THEN use ELSE End("terminated")
    /\ UNCHANGED <<argc, infile>>

\* as many valid lines as there are options
CountNotChecked(r) == TRUE                             \* mutant
Complete(r) == input_count[r] = Len(input_strings)

EndOfFile(r) ==
    /\ Running /\ pc[r] = "getline" /\ at[r] = Len(infile)
    /\ IF Complete(r)
       THEN Goto(r, "options") /\ UNCHANGED <<at, input_count, options, phase>>
       ELSE End("aborted")
    /\ UNCHANGED <<argc, infile>>

Ended ==
    /\ ~Running \/ \A r \in Readers : pc[r] = "options"
    /\ UNCHANGED parserVars

ParserNext ==
    \/ \E r \in Readers : Main(r) \/ CannotOpen(r) \/ ReadLine(r) \/ EndOfFile(r)
    \/ Ended

ParserSpec == ParserInit /\ [][ParserNext]_parserVars

-----------------------------------------------------------------------------
(* Properties.                                                              *)

Given(o) == {k \in DOMAIN infile : infile[k].option = o}

\* A rank that gets past its input has the options the user gave: each of them
\* was given by exactly one line and has the value written there, or, without a
\* file, all have their default.  So the ranks agree on the mesh and on how to
\* solve; what cannot be read ends the program and is never replaced in silence.
OptionsAreAsGiven ==
    \A r \in Readers : pc[r] = "options" =>
        IF argc < 2 THEN options[r] = Defaults
        ELSE \A o \in Options :
                /\ Cardinality(Given(o)) = 1
                /\ \A k \in Given(o) : options[r][o] = Meaning(o, infile[k].value)
=============================================================================
