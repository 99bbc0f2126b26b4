---------------------------- MODULE MCInputParser ----------------------------
(* An instance of InputParser for TLC.                                     *)
EXTENDS InputParser

SomeOptions == <<"use_gpu_solver", "Nx", "tol_type">>

Line(option, indent, gap, value, remark) ==
    [option |-> option, indent |-> indent, gap |-> gap, value |-> value, remark |-> remark]

\* well-formed lines, indented ones, values of the wrong kind, remarks that name
\* an option before and after the line's own in the table, an unknown option
SomeLines ==
    {Line("use_gpu_solver", 0, 2, <<0>>, {}), Line("use_gpu_solver", 3, 1, <<1, 0, 0>>, {"Nx"}),
     Line("Nx", 0, 1, <<1, 2>>, {}), Line("Nx", 2, 1, <<5, 0>>, {}), Line("Nx", 1, 2, <<7>>, {"tol_type"}),
     Line("Nx", 0, 2, <<3>>, {"use_gpu_solver"}),
     Line("tol_type", 0, 2, <<27, 14, 21>>, {}), Line("tol_type", 1, 1, <<10, 11, 28>>, {}),
     Line("tol_type", 0, 1, <<1>>, {}), Line("none", 0, 1, <<1>>, {})}
=============================================================================
