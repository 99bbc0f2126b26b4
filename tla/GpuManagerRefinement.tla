------------------------ MODULE GpuManagerRefinement ------------------------
(* GpuManager keeps the promise of SingleCopy: the value of a data set is  *)
(* the copy whose status is up to date, a TEMP_WRITE copy is private.      *)
EXTENDS GpuManager

ValueOf(d) ==
    IF d.size = 0 THEN Zero
    ELSE IF ~d.instance \/ d.cpu \in UpToDate THEN d.host
    ELSE IF d.gpu \in UpToDate THEN d.dev
    ELSE Zero

HolderOf(d) ==
    IF d.cpu = "TEMP_WRITE" THEN "cpu"
    ELSE IF d.gpu = "TEMP_WRITE" THEN "gpu"
    ELSE "none"

PrivateOf(d) ==
    IF d.size = 0 THEN Zero
    ELSE IF d.cpu = "TEMP_WRITE" THEN d.host
    ELSE IF d.gpu = "TEMP_WRITE" THEN d.dev
    ELSE Zero

Promise == INSTANCE SingleCopy WITH
    size    <- [v \in Vars |-> ds[v].size],
    value   <- [v \in Vars |-> ValueOf(ds[v])],
    holder  <- [v \in Vars |-> HolderOf(ds[v])],
    private <- [v \in Vars |-> PrivateOf(ds[v])],
    event   <- event

\* Every behaviour of the framework is one of the single-copy store: whatever
\* the transfers, faults, kernels and resizes before it, a load or a kernel sees
\* the value last stored by the host or by a kernel, or the private copy its
\* device asked for.
SingleCopyRefinement == Promise!AbstractSpec
=============================================================================
