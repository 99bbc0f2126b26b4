------------------------------- MODULE MCSilo -------------------------------
(* Instances of Silo for TLC.                                              *)
EXTENDS Silo

Declare(T, name, pod, shape) == [type |-> T, name |-> name, pod |-> pod, shape |-> shape]

\* an entry without a shape, one with a shape, and a vector that goes by the name of
\* the first
Program ==
    {Declare("CELL", "flag", "UINT8", <<>>),
     Declare("CELL", "velocity", "INT32", <<3, 2>>),
     Declare("VECTOR", "flag", "FP64", <<>>)}

\* two entries that memcpy_gpu_var may copy between
Velocities ==
    {Declare("CELL", "velocity", "INT32", <<3>>), Declare("CELL", "old", "INT32", <<3>>)}
=============================================================================
