----------------------------- MODULE SingleCopy -----------------------------
(***************************************************************************)
(* What the framework promises its user: every data set has one value, the *)
(* same for the host and for kernels, and a transfer changes nothing a     *)
(* program can see, except that a device asked for a private copy (COPY,   *)
(* SYNC_AND_MOVE) works on that copy until a later transfer discards it    *)
(* and that NOT_INITIALIZE gives the old value up.  Written from the       *)
(* comments of transfer_mode_t and xpu_data_status_t.                      *)
(***************************************************************************)
EXTENDS Naturals

CONSTANTS Vars, Values, Zero, Junk, MaxSize

VARIABLES
    size,     \* size[v]: number of entries, 0 when nothing is stored
    value,    \* value[v]: the value of the data set
    holder,   \* holder[v]: the device with a private copy, "cpu", "gpu" or "none"
    private,  \* private[v]: that copy
    event     \* the last request, and what it saw and wrote

store == <<size, value, holder, private>>
abstractVars == <<store, event>>

Content == Values \union {Junk}

AbstractInit ==
    /\ size \in [Vars -> 0..MaxSize]
    /\ value = [v \in Vars |-> Zero]
    /\ holder = [v \in Vars |-> "none"]
    /\ private = [v \in Vars |-> Zero]
    /\ event.op = "internal"

Asked(op, device, S) == event'.op = op /\ event'.device = device /\ event'.vars = S

View(device, v) == IF holder[v] = device THEN private[v] ELSE value[v]

Sees(device, S) == event'.saw = [v \in S |-> View(device, v)]

\* the device stores new[v] into each data set of W
StoreAll(device, W, new) ==
    /\ value' = [v \in Vars |-> IF v \in W /\ holder[v] # device THEN new[v] ELSE value[v]]
    /\ private' = [v \in Vars |-> IF v \in W /\ holder[v] = device THEN new[v] ELSE private[v]]

\* faults, launches before the kernel starts, registration: nothing to see
InternalStep == event'.op = "internal" /\ UNCHANGED store

Load(v) ==
    /\ Asked("load", "cpu", {v})
    /\ Sees("cpu", {v})
    /\ UNCHANGED store

Store(v) ==
    /\ Asked("store", "cpu", {v})
    /\ StoreAll("cpu", {v}, event'.wrote)
    /\ UNCHANGED <<size, holder>>

\* a kernel sees its arguments all at once and stores into some of them
Kernel(R) ==
    /\ Asked("kernel", "gpu", R)
    /\ Sees("gpu", R)
    /\ StoreAll("gpu", DOMAIN event'.wrote, event'.wrote)
    /\ UNCHANGED <<size, holder>>

\* COPY and SYNC_AND_MOVE: a private copy of each data set of S, made or renewed
BeginPrivate(device, S) ==
    /\ holder' = [v \in Vars |-> IF v \in S THEN device ELSE holder[v]]
    /\ private' = [v \in Vars |-> IF v \in S THEN value[v] ELSE private[v]]
    /\ UNCHANGED <<size, value>>

\* the device gives its private copies of S up
EndPrivate(device, S) ==
    LET ended == {v \in S : holder[v] = device}
    IN  /\ holder' = [v \in Vars |-> IF v \in ended THEN "none" ELSE holder[v]]
        /\ private' = [v \in Vars |-> IF v \in ended THEN Zero ELSE private[v]]

Copy(device, S) == Asked("copy", device, S) /\ BeginPrivate(device, S)

\* whichever device it names, SYNC_AND_MOVE leaves the private copy to the CPU
Sync(device, S) == Asked("sync", device, S) /\ BeginPrivate("cpu", S)

Own(device, S) ==
    /\ Asked("own", device, S)
    /\ EndPrivate(device, S)
    /\ UNCHANGED <<size, value>>

\* the device takes the data set over without its value
TakeUninitialized(device, v) ==
    /\ Asked("noinit", device, {v})
    /\ \E x \in Content : value' = [value EXCEPT ![v] = x]
    /\ EndPrivate(device, {v})
    /\ UNCHANGED size

\* a GPU-side copy of the value of src into dest, no private copy is used or kept
CopyValue(dest, src) ==
    /\ Asked("memcpy", "gpu", {dest, src})
    /\ event'.saw = [v \in {src} |-> value[v]]
    /\ value' = [value EXCEPT ![dest] = value[src]]
    /\ EndPrivate("gpu", {dest, src})
    /\ UNCHANGED size

\* a resize keeps the value of what is left and ends a private copy
ResizeValue(v) ==
    /\ Asked("resize", "cpu", {v})
    /\ \E n \in 0..MaxSize :
          /\ size' = [size EXCEPT ![v] = n]
          /\ value' = [value EXCEPT ![v] = IF n = 0 THEN Zero ELSE @]
    /\ holder' = [holder EXCEPT ![v] = "none"]
    /\ private' = [private EXCEPT ![v] = Zero]

AbstractNext ==
    \/ InternalStep
    \/ \E v \in Vars : Load(v) \/ Store(v) \/ ResizeValue(v)
    \/ \E device \in {"cpu", "gpu"}, v \in Vars : TakeUninitialized(device, v)
    \/ \E S \in SUBSET Vars : Kernel(S)
    \/ \E device \in {"cpu", "gpu"}, S \in SUBSET Vars :
          Copy(device, S) \/ Sync(device, S) \/ Own(device, S)
    \/ \E dest, src \in Vars : CopyValue(dest, src)

AbstractSpec == AbstractInit /\ [][AbstractNext]_abstractVars
=============================================================================
