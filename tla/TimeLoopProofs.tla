--------------------------- MODULE TimeLoopProofs ---------------------------
(***************************************************************************)
(* The ranks of TimeLoop march in step, for any number of ranks, cells,     *)
(* options and shares.  What a rank posts next is decided by what it posted *)
(* last and, at the test of the time loop, by a sum that is the same on     *)
(* every rank; so all ranks follow one script of collective calls.  A rank  *)
(* may be behind its neighbours, but what they have given to the call that  *)
(* it is in is what the script says, and that is what it computes with.     *)
(* From the script also follows that the residuals of the ranks are the same *)
(* and that rank 0 writes when no rank is ahead of it, so that all together *)
(* do what the one program of TimeMarch does.                               *)
(***************************************************************************)
EXTENDS TimeLoop, WellFoundedInduction, TLAPS

-----------------------------------------------------------------------------
(* The script.                                                              *)

\* a call, with the step and the inner iteration of a rank that is in it
Key(call, step, inner) == [call |-> call, count |-> step, iter |-> inner]
Begin == Key("residual_norm", 0, 0)

\* the calls whose successor is always the same
After ==
    [call \in {"Q_cell", "r.r0", "p1", "Ap.r0", "s1", "As.s", "As.As",
               "recv_count", "Q_cell_total", "xcen_total"} |->
        CASE call = "Q_cell"       -> "residual_norm"
          [] call = "r.r0"         -> "p1"
          [] call = "p1"           -> "Ap.r0"
          [] call = "Ap.r0"        -> "s1"
          [] call = "s1"           -> "As.s"
          [] call = "As.s"         -> "As.As"
          [] call = "As.As"        -> "beta"
          [] call = "recv_count"   -> "Q_cell_total"
          [] call = "Q_cell_total" -> "xcen_total"
          [] call = "xcen_total"   -> "mpi_finalize"]

\* what a rank posts after e, with the options of its input file; norm is what the
\* test of the time loop finds
NextKey(opt, e, norm) ==
    IF e.call \in DOMAIN After THEN Key(After[e.call], e.count, e.iter)
    ELSE IF e.call = "residual_norm"
    THEN IF ~(norm > opt.tol) THEN Key("recv_count", e.count, e.iter)
         ELSE IF ~opt.implicit_solver \/ (opt.solver_type = 0 /\ Iterations(opt) <= 0)
         THEN Key("Q_cell", e.count + 1, 0)
         ELSE IF opt.solver_type = 0 THEN Key("dQ_old", e.count, e.iter)
         ELSE Key("dQ", e.count, e.iter)
    ELSE IF e.call = "dQ"
    THEN IF Iterations(opt) <= 0 THEN Key("Q_cell", e.count + 1, 0)
         ELSE Key("r.r0", e.count, e.iter)
    ELSE IF e.iter + 1 >= Iterations(opt) THEN Key("Q_cell", e.count + 1, 0)
    ELSE Key(IF e.call = "beta" THEN "r.r0" ELSE "dQ_old", e.count, e.iter + 1)

\* every rank has posted its i-th call, and the sum of what the ranks gave to it
AllPosted(P, i) == \A p \in Procs : Len(P[p]) >= i
Sum(P, i) == SumFunction([p \in Procs |-> P[p][i].data])

\* a list of posted calls P is a beginning of the script: the i-th call of a rank
\* is the script's, which follows from the call before it
ScriptAt(script, opt, P, i) ==
    /\ i = 1 => script[i] = Begin
    /\ i > 1 => script[i] = NextKey(opt, script[i - 1], Sum(P, i - 1))
    /\ i > 1 /\ script[i - 1].call = "residual_norm" => AllPosted(P, i - 1)
    /\ i > 1 => script[i - 1].call # "mpi_finalize"
\* what a rank gives to a call
Solution(r, step) == [i \in 1 .. NumSolved[r] |-> <<<<r, i>>, step>>]
Centres(r) ==
    FlattenSeq([i \in 1 .. NumSolved[r] |-> <<<<<<r, i>>, "x">>, <<<<r, i>>, "y">>>>])
Gives(r, e, d) ==
    /\ e.call \in Vectors => d = <<e.count, e.iter>>
    /\ e.call = "residual_norm" => d \in Shares
    /\ e.call = "recv_count" => d = NumSolved[r]
    /\ e.call = "Q_cell_total" => d = Solution(r, e.count)
    /\ e.call = "xcen_total" => d = Centres(r)

IsOf(r, item, e) == item.call = e.call /\ Gives(r, e, item.data)
OnScript(script, opt, P) ==
    \A r \in Procs : \A i \in 1 .. Len(P[r]) :
        ScriptAt(script, opt, P, i) /\ IsOf(r, P[r][i], script[i])

\* a rank with the key at is in the call e, its n-th and last, or behind it
InCall(e, n, P, at, norms, ages) ==
    \/ /\ e = at
       /\ at.call \notin {"main", "while", "done"}
       /\ at.call \in Vectors => ages[at.call] = <<at.count, at.iter>>
    \/ /\ at.call = "while"
       /\ e = Key("residual_norm", at.count, at.iter)
       /\ AllPosted(P, n)
       /\ Last(norms) = Sum(P, n)
    \/ at.call = "done" /\ e.call = "mpi_finalize"
IsAt(script, P, r, at, norms, ages) ==
    IF P[r] = <<>> THEN at = Key("main", 0, 0)
    ELSE InCall(script[Len(P[r])], Len(P[r]), P, at, norms, ages)
InStep(script) ==
    \A r \in Procs :
        IsAt(script, posted, r, Key(pc[r], count[r], iter[r]), residual_norm[r], own[r])

\* the k-th residual of a rank is the sum of what all ranks gave to the call of
\* that step
NormAt(script, P, i, k, norm) ==
    /\ script[i].call = "residual_norm" /\ script[i].count = k - 1
    /\ AllPosted(P, i) /\ norm = Sum(P, i)
Recorded(script, P, norms) ==
    \A r \in Procs : \A k \in 1 .. Len(norms[r]) :
        \E i \in 1 .. Len(P[r]) : NormAt(script, P, i, k, norms[r][k])

\* all ranks are on one script
Lockstep ==
    \E script : /\ OnScript(script, infile, posted) /\ InStep(script)
               /\ Recorded(script, posted, residual_norm)

\* a rank has as many residuals as steps behind it, and writes when the last is small
Unsummed == {"main", "residual_norm", "Q_cell"}
Writing == {"recv_count", "Q_cell_total", "xcen_total", "mpi_finalize", "done"}
HasDecided(r) ==
    /\ Len(residual_norm[r]) = IF pc[r] \in Unsummed THEN count[r] ELSE count[r] + 1
    /\ pc[r] \in Writing => ~Above(r)
    /\ residual_norm[r] # <<>> /\ pc[r] \notin Writing \union {"while"} => Above(r)
Decided == \A r \in Procs : HasDecided(r)

\* the variables are what the actions take them for
Shaped ==
    /\ infile \in InputFiles
    /\ DOMAIN pc = Procs /\ count \in [Procs -> Nat] /\ iter \in [Procs -> Nat]
    /\ DOMAIN residual_norm = Procs /\ DOMAIN own = Procs
    /\ DOMAIN halo = Procs /\ DOMAIN posted = Procs
    /\ \A r \in Procs :
          /\ posted[r] \in Seq(Range(posted[r]))
          /\ residual_norm[r] \in Seq(Range(residual_norm[r]))
          /\ DOMAIN own[r] = Vectors /\ DOMAIN halo[r] = Vectors
          /\ own[r]["Q_cell"] = <<count[r], 0>>

-----------------------------------------------------------------------------
(* What a step of a rank does to the script.                                *)

\* the rank posts the call e, giving it d, and is in it then
Posts(r, e, d) ==
    /\ posted' = [posted EXCEPT ![r] = Append(@, [call |-> e.call, data |-> d])]
    /\ infile' = infile /\ residual_norm' = residual_norm
    /\ e = Key(pc'[r], count'[r], iter'[r])
    /\ pc'[r] \notin {"main", "while", "done"}
    /\ pc'[r] \in Vectors => own'[r][pc'[r]] = <<count'[r], iter'[r]>>
    /\ Gives(r, e, d)
    /\ \A q \in Procs \ {r} : /\ pc'[q] = pc[q] /\ count'[q] = count[q]
                              /\ iter'[q] = iter[q] /\ own'[q] = own[q]

\* and e is what comes next for it
Follows(r, e) ==
    \/ pc[r] = "main" /\ e = Key("residual_norm", count[r], iter[r])
    \/ /\ pc[r] = "while"
       /\ e = NextKey(infile, Key("residual_norm", count[r], iter[r]),
                      Last(residual_norm[r]))
    \/ /\ pc[r] \notin {"main", "while", "residual_norm", "mpi_finalize", "done"}
       /\ e = NextKey(infile, Key(pc[r], count[r], iter[r]), 0)

\* a rank that sits in the call of a vector uses what the owners of its ghosts gave
Unpacks(r) ==
    pc[r] \in Vectors =>
        Entered(r, Owners(r)) /\ halo'[r][pc[r]] = Received(r, Owners(r))

Posted(r) == \E e, d : Posts(r, e, d) /\ Follows(r, e) /\ Unpacks(r)

-----------------------------------------------------------------------------
(* Facts about sequences and about the script.                              *)

LEMMA AppendFacts ==
    ASSUME NEW s, s \in Seq(Range(s)), NEW e
    PROVE  LET t == Append(s, e)
           IN  /\ t \in Seq(Range(t)) /\ t # <<>>
               /\ Len(s) \in Nat /\ Len(t) = Len(s) + 1
               /\ \A i \in 1 .. Len(s) : t[i] = s[i]
               /\ t[Len(t)] = e /\ Last(t) = e
<1> DEFINE S == Range(s) \union {e}
           t == Append(s, e)
<1>1. s \in [1 .. Len(s) -> S] /\ Len(s) \in Nat /\ DOMAIN s = 1 .. Len(s) /\ e \in S
  BY DEF Range
<1> HIDE DEF S
<1>2. s \in Seq(S)
  BY <1>1
<1>3. /\ t \in Seq(S) /\ Len(t) = Len(s) + 1 /\ DOMAIN t = 1 .. Len(s) + 1
      /\ \A i \in 1 .. Len(s) : t[i] = s[i]
      /\ t[Len(s) + 1] = e /\ t # <<>>
  BY <1>1, <1>2
<1>4. t \in Seq(Range(t))
  <2> DEFINE R == Range(t)
  <2>1. \A i \in DOMAIN t : t[i] \in R
    BY DEF Range
  <2> HIDE DEF R, t
  <2>2. t \in [1 .. Len(t) -> R] /\ Len(t) \in Nat
    BY <1>1, <1>3, <2>1
  <2>3. t \in Seq(R)
    BY <2>2
  <2>4. QED
    BY <2>3 DEF R
<1>5. Last(t) = e
  BY <1>1, <1>3 DEF Last
<1>6. QED
  BY <1>1, <1>3, <1>4, <1>5

\* what the calls that are always followed by the same one are followed by
LEMMA AfterEach ==
    /\ DOMAIN After = {"Q_cell", "r.r0", "p1", "Ap.r0", "s1", "As.s", "As.As",
                       "recv_count", "Q_cell_total", "xcen_total"}
    /\ After["Q_cell"] = "residual_norm"
    /\ After["r.r0"] = "p1" /\ After["p1"] = "Ap.r0"
    /\ After["Ap.r0"] = "s1" /\ After["s1"] = "As.s" /\ After["As.s"] = "As.As"
    /\ After["As.As"] = "beta"
    /\ After["recv_count"] = "Q_cell_total" /\ After["Q_cell_total"] = "xcen_total"
    /\ After["xcen_total"] = "mpi_finalize"
BY DEF After

\* the iterations of a linear solver are a number, whatever the input file says
LEMMA IterationsInt ==
    ASSUME NEW opt \in InputFiles
    PROVE  Iterations(opt) \in Int
<1>1. opt.num_iter \in Int
  BY TimeLoopAssumption
<1>2. Unsigned(opt.num_iter) \in Int
  BY <1>1 DEF Unsigned
<1>3. QED
  BY <1>1, <1>2 DEF Iterations

\* the sum matters at the test of the time loop only
LEMMA NormIgnored ==
    ASSUME NEW opt, NEW e, NEW a, NEW b, e.call # "residual_norm"
    PROVE  NextKey(opt, e, a) = NextKey(opt, e, b)
BY DEF NextKey

\* what comes after a call that is always followed by the same one
LEMMA NextIsAfter ==
    ASSUME NEW call \in DOMAIN After, NEW step, NEW inner, NEW opt, NEW norm
    PROVE  NextKey(opt, Key(call, step, inner), norm) = Key(After[call], step, inner)
BY DEF NextKey, Key

\* what a rank gives to the call of a vector, and to a call of which nothing is asked
LEMMA GivesAge ==
    ASSUME NEW r, NEW v \in Vectors, NEW step, NEW inner
    PROVE  Gives(r, Key(v, step, inner), <<step, inner>>)
BY DEF Gives, Key, Vectors

LEMMA GivesAny ==
    ASSUME NEW r, NEW call, NEW step, NEW inner, NEW d,
           call \notin Vectors \union {"residual_norm", "recv_count", "Q_cell_total", "xcen_total"}
    PROVE  Gives(r, Key(call, step, inner), d)
BY DEF Gives, Key

-----------------------------------------------------------------------------
(* What each action posts.                                                  *)

\* a rank in pc[r] posts the call that always follows
LEMMA GoesOn ==
    ASSUME Shaped, NEW r \in Procs, NEW d, pc[r] \in DOMAIN After,
           Enter(r, After[pc[r]], d), infile' = infile, residual_norm' = residual_norm,
           count' = count, iter' = iter,
           \A q \in Procs \ {r} : own'[q] = own[q],
           After[pc[r]] \in Vectors => own'[r][After[pc[r]]] = Age(r),
           Gives(r, Key(After[pc[r]], count[r], iter[r]), d),
           Unpacks(r)
    PROVE  Posted(r)
<1> DEFINE e == Key(After[pc[r]], count[r], iter[r])
<1>1. pc[r] \notin {"main", "while", "residual_norm", "mpi_finalize", "done"}
      /\ After[pc[r]] \notin {"main", "while", "done"}
  BY AfterEach
<1>2. Follows(r, e)
  BY <1>1, NextIsAfter DEF Follows
<1>3. pc'[r] = After[pc[r]] /\ \A q \in Procs \ {r} : pc'[q] = pc[q]
  BY DEF Enter, Shaped
<1>4. Posts(r, e, d)
  BY <1>1, <1>3 DEF Posts, Enter, Key, Age
<1>5. QED
  BY <1>2, <1>4 DEF Posted

LEMMA StartPosts ==
    ASSUME Shaped, NEW r \in Procs, Start(r)
    PROVE  Posted(r)
<1>1. PICK share \in Shares : Enter(r, "residual_norm", share)
  BY DEF Start, EnterResidual
<1> DEFINE e == Key("residual_norm", count[r], iter[r])
<1>2. Follows(r, e) /\ Unpacks(r)
  BY DEF Start, Follows, Unpacks, Vectors
<1>3. Posts(r, e, share)
  BY <1>1 DEF Start, Posts, Gives, Enter, Key, Vectors, Shaped
<1>4. QED
  BY <1>2, <1>3 DEF Posted

\* the new solution is sent round
LEMMA SolutionPosts ==
    ASSUME Shaped, NEW r \in Procs, NEW others, DOMAIN others = Vectors,
           SendSolution(r, others), infile' = infile, residual_norm' = residual_norm,
           Follows(r, Key("Q_cell", count[r] + 1, 0)), Unpacks(r)
    PROVE  Posted(r)
<1> DEFINE e == Key("Q_cell", count[r] + 1, 0)
           d == <<count[r] + 1, 0>>
<1>1. /\ pc'[r] = "Q_cell" /\ count'[r] = count[r] + 1 /\ iter'[r] = 0
      /\ own'[r]["Q_cell"] = d
      /\ \A q \in Procs \ {r} : /\ pc'[q] = pc[q] /\ count'[q] = count[q]
                                /\ iter'[q] = iter[q] /\ own'[q] = own[q]
  BY DEF SendSolution, Enter, Shaped, Vectors
<1>2. posted' = [posted EXCEPT ![r] = Append(@, [call |-> e.call, data |-> d])]
  BY DEF SendSolution, Enter, Key
<1>3. Gives(r, e, d) /\ e = Key(pc'[r], count'[r], iter'[r])
  BY <1>1, GivesAge DEF Vectors
<1>4. Posts(r, e, d)
  BY <1>1, <1>2, <1>3 DEF Posts
<1>5. QED
  BY <1>4 DEF Posted

LEMMA ExplicitPosts ==
    ASSUME Shaped, NEW r \in Procs, ExplicitUpdate(r)
    PROVE  Posted(r)
<1>1. Follows(r, Key("Q_cell", count[r] + 1, 0))
  BY AfterEach DEF ExplicitUpdate, Above, Follows, NextKey, Key
<1>2. QED
  BY <1>1, SolutionPosts DEF ExplicitUpdate, Shaped, Unpacks, Vectors

LEMMA SolutionReceivedPosts ==
    ASSUME Shaped, NEW r \in Procs, SolutionReceived(r)
    PROVE  Posted(r)
<1>1. PICK share \in Shares : Enter(r, "residual_norm", share)
  BY DEF SolutionReceived, EnterResidual
<1>2. Unpacks(r)
  BY DEF SolutionReceived, Unpacks, Unpack, Shaped, Vectors
<1>3. pc[r] = "Q_cell" /\ pc[r] \in DOMAIN After /\ After[pc[r]] = "residual_norm"
  BY AfterEach DEF SolutionReceived
<1>4. Gives(r, Key("residual_norm", count[r], iter[r]), share)
  BY DEF Gives, Key, Vectors
<1>5. QED
  BY <1>1, <1>2, <1>3, <1>4, GoesOn DEF SolutionReceived, Vectors

LEMMA JacobiPosts ==
    ASSUME Shaped, NEW r \in Procs,
           \/ StartJacobi(r) \/ NoJacobiIteration(r)
           \/ JacobiIteration(r) \/ JacobiUpdate(r)
    PROVE  Posted(r)
<1>1. CASE StartJacobi(r)
  <2> DEFINE e == Key("dQ_old", count[r], iter[r])
  <2>1. Follows(r, e)
    <3>1. ~(Iterations(infile) <= 0)
      BY <1>1, IterationsInt DEF StartJacobi, Shaped
    <3>2. QED
      BY <1>1, <3>1, AfterEach DEF StartJacobi, Above, Follows, NextKey, Key
  <2>2. Posts(r, e, Age(r))
    BY <1>1 DEF StartJacobi, Posts, Gives, Enter, Renew, Age, Key, Vectors, Shaped
  <2>3. Unpacks(r)
    BY <1>1 DEF StartJacobi, Unpacks, Vectors
  <2>4. QED
    BY <2>1, <2>2, <2>3 DEF Posted
<1>2. CASE JacobiIteration(r)
  <2> DEFINE e == Key("dQ_old", count[r], iter[r] + 1)
             d == <<count[r], iter[r] + 1>>
  <2>1. iter[r] + 1 < Iterations(infile) /\ iter[r] \in Nat /\ Iterations(infile) \in Int
    BY <1>2, IterationsInt DEF JacobiIteration, Shaped
  <2>2. Follows(r, e)
    BY <1>2, <2>1, AfterEach DEF JacobiIteration, Follows, NextKey, Key
  <2>3. Posts(r, e, d)
    BY <1>2 DEF JacobiIteration, Posts, Gives, Enter, Key, Vectors, Shaped
  <2>4. Unpacks(r)
    BY <1>2 DEF JacobiIteration, Unpacks, Unpack, Shaped, Vectors
  <2>5. QED
    BY <2>2, <2>3, <2>4 DEF Posted
<1>3. CASE JacobiUpdate(r)
  <2> DEFINE age == <<count[r], iter[r] + 1>>
             others == [own[r] EXCEPT !["dQ"] = age, !["dQ_old"] = age]
  <2>1. Follows(r, Key("Q_cell", count[r] + 1, 0))
    BY <1>3, AfterEach DEF JacobiUpdate, Follows, NextKey, Key
  <2>2. Unpacks(r)
    BY <1>3 DEF JacobiUpdate, Unpacks, Unpack, Shaped, Vectors
  <2>3. DOMAIN others = Vectors
    BY DEF Shaped
  <2>4. SendSolution(r, others) /\ infile' = infile /\ residual_norm' = residual_norm
    BY <1>3 DEF JacobiUpdate
  <2>5. QED
    BY <2>1, <2>2, <2>3, <2>4, SolutionPosts
<1>4. CASE NoJacobiIteration(r)
  <2> DEFINE others == [own[r] EXCEPT !["dQ_old"] = Age(r)]
  <2>1. Follows(r, Key("Q_cell", count[r] + 1, 0))
    BY <1>4, AfterEach DEF NoJacobiIteration, Above, Follows, NextKey, Key
  <2>2. Unpacks(r)
    BY <1>4 DEF NoJacobiIteration, Unpacks, Vectors
  <2>3. DOMAIN others = Vectors
    BY DEF Shaped
  <2>4. SendSolution(r, others) /\ infile' = infile /\ residual_norm' = residual_norm
    BY <1>4 DEF NoJacobiIteration
  <2>5. QED
    BY <2>1, <2>2, <2>3, <2>4, SolutionPosts
<1>5. QED
  BY <1>1, <1>2, <1>3, <1>4

LEMMA BicgstabPosts ==
    ASSUME Shaped, NEW r \in Procs,
           \/ StartBicgstab(r) \/ NoBicgstabIteration(r) \/ Ax(r)
           \/ Alpha1(r) \/ Ap(r) \/ Alpha(r) \/ As(r)
           \/ Omega1(r) \/ Correct(r) \/ BicgstabIteration(r) \/ BicgstabUpdate(r)
    PROVE  Posted(r)
<1>1. CASE StartBicgstab(r)
  <2> DEFINE e == Key("dQ", count[r], iter[r])
  <2>1. Follows(r, e)
    BY <1>1, AfterEach DEF StartBicgstab, Above, Follows, NextKey, Key
  <2>2. Posts(r, e, Age(r))
    BY <1>1 DEF StartBicgstab, SendOperand, Posts, Gives, Enter, Renew, Age, Key, Vectors, Shaped
  <2>3. Unpacks(r)
    BY <1>1 DEF StartBicgstab, Unpacks, Vectors
  <2>4. QED
    BY <2>1, <2>2, <2>3 DEF Posted
<1>2. ASSUME NEW v \in {"p1", "s1"}, NEW dot, AfterProduct(r, v, dot),
             dot = After[v], dot \notin Vectors
      PROVE  Posted(r)
  <2>1. Unpacks(r)
    BY <1>2 DEF AfterProduct, Unpacks, Unpack, Shaped, Vectors
  <2>2. pc[r] = v /\ pc[r] \in DOMAIN After
    BY <1>2, AfterEach DEF AfterProduct
  <2>3. Gives(r, Key(dot, count[r], iter[r]), Age(r))
    BY <1>2, AfterEach, GivesAny
  <2>4. QED
    BY <1>2, <2>1, <2>2, <2>3, GoesOn DEF AfterProduct
<1>3. ASSUME NEW dot \in {"r.r0", "Ap.r0"}, NEW v \in Vectors, DotDone(r, dot),
             SendOperand(r, v), v = After[dot],
             UNCHANGED <<infile, count, iter, residual_norm>>
      PROVE  Posted(r)
  <2>1. Unpacks(r) /\ pc[r] = dot /\ dot \in DOMAIN After
    BY <1>3, AfterEach DEF DotDone, Unpacks, Vectors
  <2>2. /\ Enter(r, v, Age(r)) /\ own'[r][v] = Age(r)
        /\ \A q \in Procs \ {r} : own'[q] = own[q]
    BY <1>3 DEF SendOperand, Renew, Shaped
  <2>3. Gives(r, Key(v, count[r], iter[r]), Age(r))
    BY GivesAge DEF Age
  <2>4. QED
    BY <1>3, <2>1, <2>2, <2>3, GoesOn
<1>4. CASE Omega1(r)
  <2>1. Unpacks(r) /\ pc[r] = "As.s"
    BY <1>4 DEF Omega1, DotDone, Unpacks, Vectors
  <2>2. pc[r] \in DOMAIN After /\ After[pc[r]] = "As.As" /\ "As.As" \notin Vectors
    BY <2>1, AfterEach DEF Vectors
  <2>3. Gives(r, Key("As.As", count[r], iter[r]), Age(r))
    BY <2>2, GivesAny
  <2>4. QED
    BY <1>4, <2>1, <2>2, <2>3, GoesOn DEF Omega1
<1>5. CASE Correct(r)
  <2>1. Unpacks(r) /\ pc[r] = "As.As"
    BY <1>5 DEF Correct, DotDone, Unpacks, Vectors
  <2>2. \A q \in Procs \ {r} : own'[q] = own[q]
    BY <1>5 DEF Correct, Renew, Shaped
  <2>3. pc[r] \in DOMAIN After /\ After[pc[r]] = "beta" /\ "beta" \notin Vectors
    BY <2>1, AfterEach DEF Vectors
  <2>4. Gives(r, Key("beta", count[r], iter[r]), Age(r))
    BY <2>3, GivesAny
  <2>5. QED
    BY <1>5, <2>1, <2>2, <2>3, <2>4, GoesOn DEF Correct
<1>6. CASE BicgstabIteration(r)
  <2> DEFINE e == Key("r.r0", count[r], iter[r] + 1)
             d == <<count[r], iter[r] + 1>>
  <2>1. iter[r] + 1 < Iterations(infile) /\ iter[r] \in Nat /\ Iterations(infile) \in Int
    BY <1>6, IterationsInt DEF BicgstabIteration, Shaped
  <2>2. Follows(r, e)
    BY <1>6, <2>1, AfterEach DEF BicgstabIteration, DotDone, Follows, NextKey, Key
  <2>3. Posts(r, e, d)
    BY <1>6 DEF BicgstabIteration, Posts, Gives, Enter, Key, Vectors, Shaped
  <2>4. Unpacks(r)
    BY <1>6 DEF BicgstabIteration, DotDone, Unpacks, Vectors
  <2>5. QED
    BY <2>2, <2>3, <2>4 DEF Posted
<1>7. CASE BicgstabUpdate(r)
  <2>1. Follows(r, Key("Q_cell", count[r] + 1, 0))
    BY <1>7, AfterEach DEF BicgstabUpdate, DotDone, Follows, NextKey, Key
  <2>2. Unpacks(r)
    BY <1>7 DEF BicgstabUpdate, DotDone, Unpacks, Vectors
  <2>3. QED
    BY <1>7, <2>1, <2>2, SolutionPosts DEF BicgstabUpdate, Shaped
<1>8. CASE Ap(r) \/ As(r)
  BY <1>2, <1>8, AfterEach DEF Ap, As, Vectors
<1>9. CASE Alpha1(r) \/ Alpha(r)
  BY <1>3, <1>9, AfterEach DEF Alpha1, Alpha, Vectors
<1>10. CASE Ax(r)
  <2> DEFINE e == Key("r.r0", count[r], iter[r])
  <2>1. ~(Iterations(infile) <= 0)
    BY <1>10, IterationsInt DEF Ax, Shaped
  <2>2. Follows(r, e)
    BY <1>10, <2>1, AfterEach DEF Ax, AfterProduct, Follows, NextKey, Key
  <2>3. Posts(r, e, Age(r))
    BY <1>10 DEF Ax, AfterProduct, Posts, Gives, Enter, Age, Key, Vectors, Shaped
  <2>4. Unpacks(r)
    BY <1>10 DEF Ax, AfterProduct, Unpacks, Unpack, Shaped, Vectors
  <2>5. QED
    BY <2>2, <2>3, <2>4 DEF Posted
<1>11. CASE NoBicgstabIteration(r)
  <2>1. Follows(r, Key("Q_cell", count[r] + 1, 0))
    BY <1>11, AfterEach DEF NoBicgstabIteration, Follows, NextKey, Key
  <2>2. Unpacks(r)
    BY <1>11 DEF NoBicgstabIteration, Unpacks, Unpack, Shaped, Vectors
  <2>3. QED
    BY <1>11, <2>1, <2>2, SolutionPosts DEF NoBicgstabIteration, Shaped
<1>12. QED
  BY <1>1, <1>4, <1>5, <1>6, <1>7, <1>8, <1>9, <1>10, <1>11

LEMMA WritingPosts ==
    ASSUME Shaped, NEW r \in Procs,
           StartWriting(r) \/ GatherSolution(r) \/ GatherCentres(r) \/ WriteFile(r)
    PROVE  Posted(r)
<1>1. CASE StartWriting(r)
  <2> DEFINE e == Key("recv_count", count[r], iter[r])
  <2>1. Follows(r, e)
    BY <1>1, AfterEach DEF StartWriting, Above, Follows, NextKey, Key
  <2>2. Posts(r, e, NumSolved[r])
    BY <1>1 DEF StartWriting, Posts, Gives, Enter, Key, Vectors, Shaped
  <2>3. Unpacks(r)
    BY <1>1 DEF StartWriting, Unpacks, Vectors
  <2>4. QED
    BY <2>1, <2>2, <2>3 DEF Posted
<1>2. ASSUME NEW call \in {"recv_count", "Q_cell_total", "xcen_total"}, pc[r] = call,
             NEW d, Enter(r, After[call], d), Gives(r, Key(After[call], count[r], iter[r]), d),
             UNCHANGED <<infile, count, iter, residual_norm, own>>
      PROVE  Posted(r)
  <2>1. Unpacks(r) /\ After[call] \notin Vectors /\ call \in DOMAIN After
    BY <1>2, AfterEach DEF Unpacks, Vectors
  <2>2. QED
    BY <1>2, <2>1, GoesOn
<1>3. CASE GatherSolution(r)
  <2> DEFINE d == [i \in 1 .. NumSolved[r] |-> <<<<r, i>>, own[r]["Q_cell"][1]>>]
  <2>1. own[r]["Q_cell"][1] = count[r]
    BY DEF Shaped
  <2>2. Gives(r, Key("Q_cell_total", count[r], iter[r]), d)
    BY <2>1 DEF Gives, Key, Solution, Vectors
  <2>3. QED
    BY <1>2, <1>3, <2>2, AfterEach DEF GatherSolution, Collected
<1>4. CASE GatherCentres(r)
  <2>1. Gives(r, Key("xcen_total", count[r], iter[r]), Centres(r))
    BY DEF Gives, Key, Vectors
  <2>2. QED
    BY <1>2, <1>4, <2>1, AfterEach DEF GatherCentres, Collected, Centres
<1>5. CASE WriteFile(r)
  <2>1. Gives(r, Key("mpi_finalize", count[r], iter[r]), 0)
    BY GivesAny DEF Vectors
  <2>2. QED
    BY <1>2, <1>5, <2>1, AfterEach DEF WriteFile, Collected
<1>6. QED
  BY <1>1, <1>3, <1>4, <1>5

\* a step of a rank posts a call, unless the sum of the residual or the end of the
\* program lets it out of the one that it is in
LEMMA StepPosts ==
    ASSUME Shaped, NEW r \in Procs, Step(r)
    PROVE  Posted(r) \/ NormReduced(r) \/ Finish(r)
BY StartPosts, ExplicitPosts, SolutionReceivedPosts, JacobiPosts, BicgstabPosts,
   WritingPosts DEF Step

-----------------------------------------------------------------------------
(* The shapes of the variables.                                             *)

LEMMA InitShaped ==
    ASSUME Init
    PROVE  Shaped
<1>1. <<>> \in Seq(Range(<<>>))
  OBVIOUS
<1>2. QED
  BY <1>1 DEF Init, Shaped, Vectors, Fresh

\* a list of each rank stays a list when one of them gets an item more
LEMMA ListsGrow ==
    ASSUME NEW P, DOMAIN P = Procs, \A q \in Procs : P[q] \in Seq(Range(P[q])),
           NEW r \in Procs, NEW item, NEW P2, P2 = [P EXCEPT ![r] = Append(@, item)]
    PROVE  /\ DOMAIN P2 = Procs
           /\ \A q \in Procs : P2[q] \in Seq(Range(P2[q]))
           /\ \A q \in Procs \ {r} : P2[q] = P[q]
           /\ P2[r] = Append(P[r], item)
<1>1. DOMAIN P2 = Procs /\ P2[r] = Append(P[r], item) /\ \A q \in Procs \ {r} : P2[q] = P[q]
  OBVIOUS
<1>2. P2[r] \in Seq(Range(P2[r]))
  BY <1>1, AppendFacts
<1>3. QED
  BY <1>1, <1>2

LEMMA StepShaped ==
    ASSUME Shaped, NEW r \in Procs, Step(r)
    PROVE  Shaped'

<1> USE DEF Step, Start, NormReduced, ExplicitUpdate, SolutionReceived, StartJacobi,
        NoJacobiIteration, JacobiIteration, JacobiUpdate, StartBicgstab, NoBicgstabIteration,
        Ax, Alpha1, Ap, Alpha, As, Omega1,
        Correct, BicgstabIteration, BicgstabUpdate, StartWriting, GatherSolution,
        GatherCentres, WriteFile, Finish, AfterProduct, SendOperand, SendSolution,
        EnterResidual
<1>1. infile' = infile
  OBVIOUS
<1>2. DOMAIN pc' = Procs
  BY DEF Shaped, Enter
<1>3. iter' \in [Procs -> Nat]
  <2>1. iter' \in {iter, [iter EXCEPT ![r] = @ + 1], [iter EXCEPT ![r] = 0]}
    OBVIOUS
  <2>2. iter \in [Procs -> Nat] /\ iter[r] + 1 \in Nat
    BY DEF Shaped
  <2> HIDE DEF Step
  <2>3. QED
    BY <2>1, <2>2
<1>4. count' \in [Procs -> Nat]
  <2>1. count' \in {count, [count EXCEPT ![r] = @ + 1]}
    OBVIOUS
  <2>2. count \in [Procs -> Nat] /\ count[r] + 1 \in Nat
    BY DEF Shaped
  <2> HIDE DEF Step
  <2>3. QED
    BY <2>1, <2>2
<1>5. \A q \in Procs : own'[q]["Q_cell"] = <<count'[q], 0>>
  <2>1. DOMAIN own = Procs /\ DOMAIN count = Procs /\ DOMAIN own[r] = Vectors
        /\ \A q \in Procs : own[q]["Q_cell"] = <<count[q], 0>>
    BY DEF Shaped
  <2>2. \A q \in Procs \ {r} : own'[q] = own[q] /\ count'[q] = count[q]
    BY <2>1 DEF Renew
  <2>3. own'[r]["Q_cell"] = <<count'[r], 0>>
    <3>1. \/ count' = count /\ own' = own
          \/ /\ count' = count
             /\ \E v \in {"dQ_old", "dQ", "p1", "s1"} :
                   \E age : own' = [own EXCEPT ![r][v] = age]
          \/ /\ count' = count
             /\ \E age : own' = [own EXCEPT ![r]["dQ"] = age, ![r]["dQ_old"] = age]
          \/ /\ count' = [count EXCEPT ![r] = @ + 1]
             /\ \E others : /\ DOMAIN others = Vectors
                            /\ own' = [own EXCEPT ![r] =
                                   [others EXCEPT !["Q_cell"] = <<count[r] + 1, 0>>]]
      <4>1. CASE ExplicitUpdate(r) \/ BicgstabUpdate(r) \/ NoBicgstabIteration(r)
        BY <2>1, <4>1
      <4>2. CASE JacobiUpdate(r)
        <5>1. PICK others : others = [own[r] EXCEPT !["dQ"] = <<count[r], iter[r] + 1>>,
                                                   !["dQ_old"] = <<count[r], iter[r] + 1>>]
          OBVIOUS
        <5>2. DOMAIN others = Vectors
          BY <2>1, <5>1
        <5>3. SendSolution(r, others)
          BY <4>2, <5>1
        <5>4. QED
          BY <5>2, <5>3
      <4>3. CASE JacobiIteration(r)
        BY <4>3
      <4>4. CASE StartJacobi(r) \/ StartBicgstab(r) \/ Alpha1(r) \/ Alpha(r) \/ Correct(r)
        BY <4>4 DEF Renew
      <4>5. CASE NoJacobiIteration(r)
        <5>1. PICK others : others = [own[r] EXCEPT !["dQ_old"] = Age(r)]
          OBVIOUS
        <5>2. DOMAIN others = Vectors
          BY <2>1, <5>1
        <5>3. SendSolution(r, others)
          BY <4>5, <5>1
        <5>4. QED
          BY <5>2, <5>3
      <4>6. QED
        BY <4>1, <4>2, <4>3, <4>4, <4>5
    <3> HIDE DEF Step
    <3>2. CASE count' = count /\ own' = own
      BY <2>1, <3>2
    <3>3. ASSUME count' = count, NEW v \in {"dQ_old", "dQ", "p1", "s1"}, NEW age,
                 own' = [own EXCEPT ![r][v] = age]
          PROVE  own'[r]["Q_cell"] = <<count'[r], 0>>
      <4>1. own'[r] = [own[r] EXCEPT ![v] = age]
        BY <2>1, <3>3
      <4>2. QED
        BY <2>1, <3>3, <4>1 DEF Vectors
    <3>4. ASSUME count' = count, NEW age,
                 own' = [own EXCEPT ![r]["dQ"] = age, ![r]["dQ_old"] = age]
          PROVE  own'[r]["Q_cell"] = <<count'[r], 0>>
      BY <2>1, <3>4 DEF Vectors
    <3>5. ASSUME count' = [count EXCEPT ![r] = @ + 1], NEW others, DOMAIN others = Vectors,
                 own' = [own EXCEPT ![r] =
                            [others EXCEPT !["Q_cell"] = <<count[r] + 1, 0>>]]
          PROVE  own'[r]["Q_cell"] = <<count'[r], 0>>
      <4>1. own'[r] = [others EXCEPT !["Q_cell"] = <<count[r] + 1, 0>>]
        BY <2>1, <3>5
      <4>2. QED
        BY <2>1, <3>5, <4>1 DEF Vectors
    <3>6. QED
      BY <3>1, <3>2, <3>3, <3>4, <3>5
  <2>4. QED
    BY <2>1, <2>2, <2>3
<1>6. DOMAIN own' = Procs /\ \A q \in Procs : DOMAIN own'[q] = Vectors
  <2>1. DOMAIN own' = Procs /\ \A q \in Procs \ {r} : own'[q] = own[q]
    BY DEF Shaped, Renew
  <2>2. DOMAIN own'[r] = Vectors
    BY DEF Shaped, Renew
  <2>3. QED
    BY <2>1, <2>2 DEF Shaped
<1>7. DOMAIN halo' = Procs /\ \A q \in Procs : DOMAIN halo'[q] = Vectors
  <2>1. halo' = halo \/ \E v, in : halo' = [halo EXCEPT ![r][v] = in]
    BY DEF Unpack
  <2>2. QED
    BY <2>1 DEF Shaped
<1>8. DOMAIN posted' = Procs /\ \A q \in Procs : posted'[q] \in Seq(Range(posted'[q]))
  <2>1. posted' = posted \/ \E item : posted' = [posted EXCEPT ![r] = Append(@, item)]
    BY DEF Enter
  <2>2. CASE posted' = posted
    BY <2>2 DEF Shaped
  <2>3. ASSUME NEW item, posted' = [posted EXCEPT ![r] = Append(@, item)]
        PROVE  DOMAIN posted' = Procs /\ \A q \in Procs : posted'[q] \in Seq(Range(posted'[q]))
    <3>1. DOMAIN posted = Procs /\ \A q \in Procs : posted[q] \in Seq(Range(posted[q]))
      BY DEF Shaped
    <3>2. QED
      BY <2>3, <3>1, ListsGrow
  <2>4. QED
    BY <2>1, <2>2, <2>3
<1>9. /\ DOMAIN residual_norm' = Procs
      /\ \A q \in Procs : residual_norm'[q] \in Seq(Range(residual_norm'[q]))
  <2>1. \/ residual_norm' = residual_norm
        \/ \E item : residual_norm' = [residual_norm EXCEPT ![r] = Append(@, item)]
    OBVIOUS
  <2>2. CASE residual_norm' = residual_norm
    BY <2>2 DEF Shaped
  <2>3. ASSUME NEW item, residual_norm' = [residual_norm EXCEPT ![r] = Append(@, item)]
        PROVE  /\ DOMAIN residual_norm' = Procs
               /\ \A q \in Procs : residual_norm'[q] \in Seq(Range(residual_norm'[q]))
    <3>1. /\ DOMAIN residual_norm = Procs
          /\ \A q \in Procs : residual_norm[q] \in Seq(Range(residual_norm[q]))
      BY DEF Shaped
    <3>2. QED
      BY <2>3, <3>1, ListsGrow
  <2>4. QED
    BY <2>1, <2>2, <2>3
<1>10. QED
  BY <1>1, <1>2, <1>3, <1>6, <1>7, <1>8, <1>9, <1>4, <1>5 DEF Shaped

-----------------------------------------------------------------------------
(* A step goes on along the script.                                         *)

\* once all ranks have posted a call, its sum does not change any more
LEMMA SumStays ==
    ASSUME NEW P, NEW P2, NEW i \in Nat \ {0}, AllPosted(P, i),
           \A q \in Procs : /\ Len(P[q]) \in Nat /\ Len(P2[q]) \in Nat
                            /\ Len(P2[q]) >= Len(P[q])
                            /\ \A j \in 1 .. Len(P[q]) : P2[q][j] = P[q][j]
    PROVE  AllPosted(P2, i) /\ Sum(P2, i) = Sum(P, i)
<1>1. \A q \in Procs : P2[q][i] = P[q][i] /\ Len(P2[q]) >= i
  BY DEF AllPosted
<1>2. [q \in Procs |-> P2[q][i].data] = [q \in Procs |-> P[q][i].data]
  BY <1>1
<1>3. QED
  BY <1>1, <1>2 DEF AllPosted, Sum

\* a call that is on the script is on one that has a call more
LEMMA ScriptAtStays ==
    ASSUME NEW script, NEW s2, NEW opt, NEW P, NEW P2, NEW i \in Nat \ {0},
           ScriptAt(script, opt, P, i), s2[i] = script[i],
           i > 1 => s2[i - 1] = script[i - 1],
           \A q \in Procs : /\ Len(P[q]) \in Nat /\ Len(P2[q]) \in Nat
                            /\ Len(P2[q]) >= Len(P[q])
                            /\ \A j \in 1 .. Len(P[q]) : P2[q][j] = P[q][j]
    PROVE  ScriptAt(s2, opt, P2, i)
<1>1. CASE i = 1
  BY <1>1 DEF ScriptAt
<1>2. CASE i > 1
  <2>1. i - 1 \in Nat \ {0}
    BY <1>2
  <2>2. script[i] = NextKey(opt, script[i - 1], Sum(P, i - 1))
    BY <1>2 DEF ScriptAt
  <2>3. CASE script[i - 1].call = "residual_norm"
    <3>1. AllPosted(P, i - 1)
      BY <1>2, <2>3 DEF ScriptAt
    <3>2. AllPosted(P2, i - 1) /\ Sum(P2, i - 1) = Sum(P, i - 1)
      BY <2>1, <3>1, SumStays
    <3>3. QED
      BY <1>2, <2>2, <3>2 DEF ScriptAt
  <2>4. CASE script[i - 1].call # "residual_norm"
    BY <1>2, <2>2, <2>4, NormIgnored DEF ScriptAt
  <2>5. QED
    BY <2>3, <2>4
<1>3. QED
  BY <1>1, <1>2

\* what a rank posts next is the script's next call, if there is one already
LEMMA FollowsScript ==
    ASSUME Shaped, NEW script, InStep(script), NEW r \in Procs, NEW e, Follows(r, e)
    PROVE  LET n == Len(posted[r])
           IN  /\ n \in Nat
               /\ n = 0 => e = Begin
               /\ n > 0 => /\ e = NextKey(infile, script[n], Sum(posted, n))
                           /\ script[n].call # "mpi_finalize"
                           /\ script[n].call = "residual_norm" => AllPosted(posted, n)
<1> DEFINE n == Len(posted[r])
<1>1. posted[r] \in Seq(Range(posted[r]))
  BY DEF Shaped
<1>2. n \in Nat /\ (n = 0 <=> posted[r] = <<>>)
  BY <1>1
<1> DEFINE at == Key(pc[r], count[r], iter[r])
<1>3. CASE posted[r] = <<>>
  <2>1. pc[r] = "main" /\ count[r] = 0 /\ iter[r] = 0
    BY <1>3 DEF InStep, IsAt, Key
  <2>2. e = Begin
    BY <2>1 DEF Follows, Begin
  <2>3. QED
    BY <1>2, <1>3, <2>2
<1>4. CASE posted[r] # <<>>
  <2>1. InCall(script[n], n, posted, at, residual_norm[r], own[r])
    BY <1>4 DEF InStep, IsAt
  <2>2. pc[r] \notin {"main", "done"}
    BY <2>1 DEF InCall, Follows, Key
  <2>3. CASE pc[r] = "while"
    <3>1. /\ script[n] = Key("residual_norm", count[r], iter[r])
          /\ AllPosted(posted, n) /\ Last(residual_norm[r]) = Sum(posted, n)
      BY <2>1, <2>3 DEF InCall, Key
    <3>2. e = NextKey(infile, script[n], Last(residual_norm[r]))
      BY <2>3, <3>1 DEF Follows
    <3>3. QED
      BY <1>2, <1>4, <3>1, <3>2 DEF Key
  <2>4. CASE pc[r] # "while"
    <3>1. script[n] = Key(pc[r], count[r], iter[r])
      BY <2>1, <2>2, <2>4 DEF InCall, Key
    <3>2. pc[r] # "residual_norm" /\ e = NextKey(infile, script[n], 0)
      BY <2>2, <2>4, <3>1 DEF Follows
    <3>3. script[n].call \notin {"residual_norm", "mpi_finalize"}
      BY <2>2, <2>4, <3>1, <3>2 DEF Key, Follows
    <3>4. e = NextKey(infile, script[n], Sum(posted, n))
      BY <3>2, <3>3, NormIgnored
    <3>5. QED
      BY <1>2, <1>4, <3>3, <3>4
  <2>5. QED
    BY <2>3, <2>4
<1>5. QED
  BY <1>3, <1>4

LEMMA PostsInLockstep ==
    ASSUME Shaped, Lockstep, NEW r \in Procs, NEW e, NEW d, Posts(r, e, d), Follows(r, e)
    PROVE  Lockstep'
<1>1. PICK script : /\ OnScript(script, infile, posted) /\ InStep(script)
                    /\ Recorded(script, posted, residual_norm)
  BY DEF Lockstep
<1>2. PICK P2 : P2 = posted'
  OBVIOUS
<1> DEFINE n == Len(posted[r])
           item == [call |-> e.call, data |-> d]
           s2 == [i \in Nat |-> IF i = n + 1 THEN e ELSE script[i]]
<1>3. /\ n \in Nat
      /\ n = 0 => e = Begin
      /\ n > 0 => /\ e = NextKey(infile, script[n], Sum(posted, n))
                  /\ script[n].call # "mpi_finalize"
                  /\ script[n].call = "residual_norm" => AllPosted(posted, n)
  BY <1>1, FollowsScript
<1>4. DOMAIN posted = Procs /\ \A q \in Procs : posted[q] \in Seq(Range(posted[q]))
  BY DEF Shaped
<1>5. P2 = [posted EXCEPT ![r] = Append(@, item)]
  BY <1>2 DEF Posts
<1> HIDE DEF item
<1>6. /\ \A q \in Procs \ {r} : P2[q] = posted[q]
      /\ P2[r] = Append(posted[r], item)
  BY <1>4, <1>5, ListsGrow
<1>7. /\ P2[r] # <<>> /\ Len(P2[r]) = n + 1 /\ P2[r][n + 1] = item
      /\ \A i \in 1 .. n : P2[r][i] = posted[r][i]
  BY <1>4, <1>6, AppendFacts
<1>8. \A q \in Procs : /\ Len(posted[q]) \in Nat /\ Len(P2[q]) \in Nat
                       /\ Len(P2[q]) >= Len(posted[q])
                       /\ \A j \in 1 .. Len(posted[q]) : P2[q][j] = posted[q][j]
  BY <1>3, <1>4, <1>6, <1>7
<1>9. ASSUME NEW q \in Procs, n + 1 \in 1 .. Len(posted[q])
      PROVE  script[n + 1] = e
  <2>1. ScriptAt(script, infile, posted, n + 1)
    BY <1>1, <1>9 DEF OnScript
  <2>2. QED
    BY <1>3, <2>1 DEF ScriptAt
<1>10. \A q \in Procs : \A i \in 1 .. Len(posted[q]) : s2[i] = script[i]
  BY <1>3, <1>8, <1>9
<1>11. s2[n + 1] = e /\ (n > 0 => s2[n] = script[n])
  BY <1>3
<1> HIDE DEF s2
<1>12. ASSUME NEW q \in Procs, NEW i \in 1 .. Len(posted[q])
       PROVE  ScriptAt(s2, infile, P2, i) /\ IsOf(q, P2[q][i], s2[i])
  <2>1. ScriptAt(script, infile, posted, i) /\ IsOf(q, posted[q][i], script[i])
    BY <1>1 DEF OnScript
  <2>2. s2[i] = script[i] /\ P2[q][i] = posted[q][i] /\ i \in Nat \ {0}
    BY <1>8, <1>10
  <2>3. i > 1 => s2[i - 1] = script[i - 1]
    BY <1>8, <1>10
  <2>4. ScriptAt(s2, infile, P2, i)
    BY <1>8, <2>1, <2>2, <2>3, ScriptAtStays
  <2>5. QED
    BY <2>1, <2>2, <2>4
<1>13. ScriptAt(s2, infile, P2, n + 1) /\ IsOf(r, P2[r][n + 1], s2[n + 1])
  <2>1. IsOf(r, item, e)
    BY DEF Posts, IsOf, item, Key
  <2>2. CASE n = 0
    BY <1>3, <1>7, <1>11, <2>1, <2>2 DEF ScriptAt
  <2>3. CASE n > 0
    <3>1. CASE script[n].call = "residual_norm"
      <4>1. AllPosted(P2, n) /\ Sum(P2, n) = Sum(posted, n)
        BY <1>3, <1>8, <2>3, <3>1, SumStays
      <4>2. (n + 1) - 1 = n
        BY <1>3
      <4>3. QED
        BY <1>3, <1>7, <1>11, <2>1, <2>3, <4>1, <4>2 DEF ScriptAt
    <3>2. CASE script[n].call # "residual_norm"
      <4>1. e = NextKey(infile, script[n], Sum(P2, n)) /\ (n + 1) - 1 = n
        BY <1>3, <2>3, <3>2, NormIgnored
      <4>2. QED
        BY <1>3, <1>7, <1>11, <2>1, <2>3, <3>2, <4>1 DEF ScriptAt
    <3>3. QED
      BY <3>1, <3>2
  <2>4. QED
    BY <1>3, <2>2, <2>3
<1>14. OnScript(s2, infile, P2)
  <2>1. ASSUME NEW q \in Procs, NEW i \in 1 .. Len(P2[q])
        PROVE  ScriptAt(s2, infile, P2, i) /\ IsOf(q, P2[q][i], s2[i])
    <3>1. CASE i \in 1 .. Len(posted[q])
      BY <1>12, <3>1
    <3>2. CASE i \notin 1 .. Len(posted[q])
      <4>1. q = r /\ i = n + 1
        BY <1>3, <1>6, <1>7, <3>2
      <4>2. QED
        BY <1>13, <4>1
    <3>3. QED
      BY <3>1, <3>2
  <2>2. QED
    BY <2>1 DEF OnScript
<1>15. IsAt(s2, P2, r, Key(pc'[r], count'[r], iter'[r]), residual_norm'[r], own'[r])
  <2> DEFINE at == Key(pc'[r], count'[r], iter'[r])
  <2>1. /\ e = at /\ at.call \notin {"main", "while", "done"}
        /\ at.call \in Vectors => own'[r][at.call] = <<at.count, at.iter>>
    BY DEF Posts, Key
  <2> HIDE DEF at
  <2>2. InCall(e, n + 1, P2, at, residual_norm'[r], own'[r])
    BY <2>1 DEF InCall
  <2>3. QED
    BY <1>7, <1>11, <2>2 DEF IsAt, at
<1>16. ASSUME NEW q \in Procs \ {r}
       PROVE  IsAt(s2, P2, q, Key(pc'[q], count'[q], iter'[q]), residual_norm'[q], own'[q])
  <2>1. /\ pc'[q] = pc[q] /\ count'[q] = count[q] /\ iter'[q] = iter[q]
        /\ own'[q] = own[q] /\ residual_norm' = residual_norm
    BY DEF Posts
  <2> DEFINE at == Key(pc[q], count[q], iter[q])
             m == Len(posted[q])
  <2>2. IsAt(script, posted, q, at, residual_norm[q], own[q])
    BY <1>1 DEF InStep
  <2> HIDE DEF at
  <2>3. P2[q] = posted[q] /\ m \in Nat /\ (m = 0 => posted[q] = <<>>)
    BY <1>4, <1>6
  <2>4. IsAt(s2, P2, q, at, residual_norm[q], own[q])
    <3>1. CASE posted[q] = <<>>
      BY <2>2, <2>3, <3>1 DEF IsAt
    <3>2. CASE posted[q] # <<>>
      <4>1. m \in Nat \ {0} /\ m \in 1 .. Len(posted[q])
        BY <2>3, <3>2
      <4>2. s2[m] = script[m] /\ InCall(script[m], m, posted, at, residual_norm[q], own[q])
        BY <1>10, <2>2, <3>2, <4>1 DEF IsAt
      <4>3. AllPosted(posted, m) => AllPosted(P2, m) /\ Sum(P2, m) = Sum(posted, m)
        BY <1>8, <4>1, SumStays
      <4>4. InCall(s2[m], m, P2, at, residual_norm[q], own[q])
        BY <4>2, <4>3 DEF InCall
      <4>5. QED
        BY <2>3, <3>2, <4>4 DEF IsAt
    <3>3. QED
      BY <3>1, <3>2
  <2>5. QED
    BY <2>1, <2>4 DEF at
<1>17. PICK s : s = s2
  OBVIOUS
<1>18. InStep(s)'
  <2>1. \A q \in Procs :
          IsAt(s, posted', q, Key(pc'[q], count'[q], iter'[q]), residual_norm'[q], own'[q])
    BY <1>2, <1>15, <1>16, <1>17
  <2>2. QED
    BY <2>1 DEF InStep
<1>19. infile' = infile /\ residual_norm' = residual_norm
  BY DEF Posts
<1>20. Recorded(s2, P2, residual_norm)
  <2>1. ASSUME NEW q \in Procs, NEW k \in 1 .. Len(residual_norm[q])
        PROVE  \E i \in 1 .. Len(P2[q]) : NormAt(s2, P2, i, k, residual_norm[q][k])
    <3>1. PICK i \in 1 .. Len(posted[q]) : NormAt(script, posted, i, k, residual_norm[q][k])
      BY <1>1 DEF Recorded
    <3>2. i \in 1 .. Len(P2[q]) /\ s2[i] = script[i] /\ i \in Nat \ {0}
      BY <1>8, <1>10
    <3>3. AllPosted(P2, i) /\ Sum(P2, i) = Sum(posted, i)
      BY <1>8, <3>1, <3>2, SumStays DEF NormAt
    <3>4. QED
      BY <3>1, <3>2, <3>3 DEF NormAt
  <2>2. QED
    BY <2>1 DEF Recorded
<1>21. QED
  BY <1>2, <1>14, <1>17, <1>18, <1>19, <1>20 DEF Lockstep

\* a sum that has come back is the same on every rank
LEMMA NormInLockstep ==
    ASSUME Shaped, Decided, Lockstep, NEW r \in Procs, NormReduced(r)
    PROVE  Lockstep'
<1>1. PICK script : /\ OnScript(script, infile, posted) /\ InStep(script)
                    /\ Recorded(script, posted, residual_norm)
  BY DEF Lockstep
<1> DEFINE n == Len(posted[r])
<1>2. /\ infile' = infile /\ posted' = posted /\ count' = count /\ iter' = iter /\ own' = own
      /\ pc'[r] = "while" /\ \A q \in Procs \ {r} : pc'[q] = pc[q]
      /\ \A q \in Procs \ {r} : residual_norm'[q] = residual_norm[q]
  BY DEF NormReduced, Shaped
<1>3. Last(residual_norm'[r]) = Sum(posted, n)
  <2>1. residual_norm'[r] = Append(residual_norm[r], Sum(posted, n))
    BY DEF NormReduced, Allreduced, Received, Sum, Shaped
  <2>2. residual_norm[r] \in Seq(Range(residual_norm[r]))
    BY DEF Shaped
  <2>3. QED
    BY <2>1, <2>2, AppendFacts
<1>4. AllPosted(posted, n)
  BY DEF NormReduced, Entered, AllPosted
<1>5. IsAt(script, posted, r, Key(pc'[r], count[r], iter[r]), residual_norm'[r], own[r])
  <2>1. IsAt(script, posted, r, Key("residual_norm", count[r], iter[r]),
             residual_norm[r], own[r])
    BY <1>1 DEF NormReduced, InStep
  <2>2. posted[r] # <<>> /\ script[n] = Key("residual_norm", count[r], iter[r])
    BY <2>1 DEF IsAt, InCall, Key
  <2>3. InCall(script[n], n, posted, Key("while", count[r], iter[r]),
               residual_norm'[r], own[r])
    BY <1>3, <1>4, <2>2 DEF InCall, Key
  <2>4. QED
    BY <1>2, <2>2, <2>3 DEF IsAt
<1>6. \A q \in Procs :
        IsAt(script, posted', q, Key(pc'[q], count'[q], iter'[q]), residual_norm'[q], own'[q])
  BY <1>1, <1>2, <1>5 DEF InStep
<1>7. InStep(script)'
  BY <1>6 DEF InStep
<1>8. PICK N2 : N2 = residual_norm'
  OBVIOUS
<1>9. Recorded(script, posted, N2)
  <2>1. ASSUME NEW q \in Procs, NEW k \in 1 .. Len(N2[q])
        PROVE  \E i \in 1 .. Len(posted[q]) : NormAt(script, posted, i, k, N2[q][k])
    <3>1. CASE q # r \/ k \in 1 .. Len(residual_norm[q])
      <4>1. k \in 1 .. Len(residual_norm[q]) /\ N2[q][k] = residual_norm[q][k]
        <5>1. CASE q # r
          BY <1>2, <1>8, <2>1, <5>1
        <5>2. CASE q = r
          <6>1. N2[r] = Append(residual_norm[r], Sum(posted, n))
            BY <1>8 DEF NormReduced, Allreduced, Received, Sum, Shaped
          <6>2. residual_norm[r] \in Seq(Range(residual_norm[r]))
            BY DEF Shaped
          <6>3. QED
            BY <3>1, <5>2, <6>1, <6>2, AppendFacts
        <5>3. QED
          BY <5>1, <5>2
      <4>2. QED
        BY <1>1, <4>1 DEF Recorded
    <3>2. CASE q = r /\ k \notin 1 .. Len(residual_norm[q])
      <4>1. N2[r] = Append(residual_norm[r], Sum(posted, n))
        BY <1>8 DEF NormReduced, Allreduced, Received, Sum, Shaped
      <4>2. residual_norm[r] \in Seq(Range(residual_norm[r]))
        BY DEF Shaped
      <4>3. k = Len(residual_norm[r]) + 1 /\ N2[r][k] = Sum(posted, n)
            /\ Len(residual_norm[r]) \in Nat
        BY <2>1, <3>2, <4>1, <4>2, AppendFacts
      <4>4. Len(residual_norm[r]) = count[r]
        BY DEF Decided, HasDecided, Unsummed, NormReduced
      <4>5. posted[r] # <<>> /\ script[n] = Key("residual_norm", count[r], iter[r])
        BY <1>1 DEF NormReduced, InStep, IsAt, InCall, Key
      <4>6. n \in 1 .. Len(posted[r])
        BY <4>5 DEF Shaped
      <4>7. NormAt(script, posted, n, k, N2[r][k])
        BY <1>4, <4>3, <4>4, <4>5 DEF NormAt, Key
      <4>8. QED
        BY <3>2, <4>6, <4>7
    <3>3. QED
      BY <3>1, <3>2
  <2>2. QED
    BY <2>1 DEF Recorded
<1>10. QED
  BY <1>1, <1>2, <1>7, <1>8, <1>9 DEF Lockstep

LEMMA FinishInLockstep ==
    ASSUME Shaped, Lockstep, NEW r \in Procs, Finish(r)
    PROVE  Lockstep'
<1>1. PICK script : /\ OnScript(script, infile, posted) /\ InStep(script)
                    /\ Recorded(script, posted, residual_norm)
  BY DEF Lockstep
<1>2. /\ UNCHANGED <<infile, posted, count, iter, own, residual_norm>>
      /\ pc'[r] = "done" /\ \A q \in Procs \ {r} : pc'[q] = pc[q]
  BY DEF Finish, Shaped
<1>3. IsAt(script, posted, r, Key("mpi_finalize", count[r], iter[r]),
           residual_norm[r], own[r])
  BY <1>1 DEF Finish, InStep
<1>4. IsAt(script, posted, r, Key("done", count[r], iter[r]), residual_norm[r], own[r])
  BY <1>3 DEF IsAt, InCall, Key
<1>5. \A q \in Procs :
        IsAt(script, posted', q, Key(pc'[q], count'[q], iter'[q]), residual_norm'[q], own'[q])
  BY <1>1, <1>2, <1>4 DEF InStep
<1>6. InStep(script)'
  BY <1>5 DEF InStep
<1>7. QED
  BY <1>1, <1>2, <1>6 DEF Lockstep

LEMMA InitLockstep ==
    ASSUME Init
    PROVE  Lockstep
<1>1. OnScript(<<>>, infile, posted)
  BY DEF Init, OnScript
<1>2. InStep(<<>>)
  BY DEF Init, InStep, IsAt
<1>3. Recorded(<<>>, posted, residual_norm)
  BY DEF Init, Recorded
<1>4. QED
  BY <1>1, <1>2, <1>3 DEF Lockstep

\* what a rank decides at the test of the time loop, it keeps to
LEMMA DecidesOnce ==
    ASSUME Shaped, Decided, NEW r \in Procs, Posted(r) \/ NormReduced(r) \/ Finish(r)
    PROVE  Decided'
<1>1. \A q \in Procs \ {r} : /\ pc'[q] = pc[q] /\ count'[q] = count[q]
                             /\ residual_norm'[q] = residual_norm[q] /\ infile' = infile
  BY DEF Posted, Posts, NormReduced, Finish, Shaped
<1>2. \A q \in Procs \ {r} : HasDecided(q)'
  BY <1>1 DEF Decided, HasDecided, Above
<1>3. count[r] \in Nat /\ residual_norm[r] \in Seq(Range(residual_norm[r]))
  BY DEF Shaped
<1>4. HasDecided(r)
  BY DEF Decided
<1>5. ASSUME NEW e, NEW d, Posts(r, e, d), Follows(r, e)
      PROVE  HasDecided(r)'
  <2>1. /\ infile' = infile /\ residual_norm'[r] = residual_norm[r]
        /\ pc'[r] = e.call /\ count'[r] = e.count
    BY <1>5 DEF Posts, Key
  <2>2. CASE pc[r] = "main"
    BY <1>4, <1>5, <2>1, <2>2 DEF Follows, Key, HasDecided, Above, Unsummed, Writing
  <2>3. CASE pc[r] = "while"
    <3>1. \/ e.call = "recv_count" /\ e.count = count[r] /\ ~Above(r)
          \/ e.call = "Q_cell" /\ e.count = count[r] + 1 /\ Above(r)
          \/ e.call \in {"dQ_old", "dQ"} /\ e.count = count[r] /\ Above(r)
      BY <1>5, <2>3, AfterEach DEF Follows, NextKey, Key, Above
    <3>2. QED
      BY <1>4, <2>1, <2>3, <3>1 DEF HasDecided, Above, Unsummed, Writing
  <2>4. CASE pc[r] \notin {"main", "while"}
    <3>1. pc[r] \notin {"residual_norm", "mpi_finalize", "done"}
          /\ e = NextKey(infile, Key(pc[r], count[r], iter[r]), 0)
      BY <1>5, <2>4 DEF Follows
    <3>2. \/ pc[r] \in DOMAIN After /\ e.call = After[pc[r]] /\ e.count = count[r]
          \/ /\ pc[r] \notin DOMAIN After
             /\ \/ e.call = "Q_cell" /\ e.count = count[r] + 1
                \/ e.call \in {"r.r0", "dQ_old"} /\ e.count = count[r]
      BY <3>1 DEF NextKey, Key
    <3>3. CASE pc[r] \in DOMAIN After /\ e.call = After[pc[r]] /\ e.count = count[r]
      <4>1. (e.call \in Unsummed <=> pc[r] \in Unsummed)
            /\ (e.call \in Writing <=> pc[r] \in Writing) /\ e.call # "while"
        BY <3>3, AfterEach DEF Unsummed, Writing
      <4>2. QED
        BY <1>4, <2>1, <2>4, <3>3, <4>1 DEF HasDecided, Above
    <3>4. CASE pc[r] \notin DOMAIN After
      <4>1. pc[r] \notin Unsummed \union Writing
        BY <2>4, <3>1, <3>4, AfterEach DEF Unsummed, Writing
      <4>2. residual_norm[r] # <<>>
        BY <1>3, <1>4, <4>1 DEF HasDecided
      <4>3. QED
        BY <1>4, <2>1, <2>4, <3>2, <3>4, <4>1, <4>2 DEF HasDecided, Above, Unsummed, Writing
    <3>5. QED
      BY <3>2, <3>3, <3>4
  <2>5. QED
    BY <2>2, <2>3, <2>4
<1>6. ASSUME NormReduced(r)
      PROVE  HasDecided(r)'
  <2>1. /\ pc[r] = "residual_norm" /\ pc'[r] = "while" /\ count' = count
        /\ residual_norm'[r] = Append(residual_norm[r], Allreduced(r))
    BY <1>6 DEF NormReduced, Shaped
  <2>2. Len(residual_norm'[r]) = Len(residual_norm[r]) + 1
    BY <1>3, <2>1, AppendFacts
  <2>3. pc[r] \in Unsummed /\ pc'[r] \notin Unsummed \union Writing
    BY <2>1 DEF Unsummed, Writing
  <2>4. Len(residual_norm'[r]) = count'[r] + 1
    BY <1>4, <2>1, <2>2, <2>3 DEF HasDecided
  <2>5. QED
    BY <2>1, <2>3, <2>4 DEF HasDecided, Above
<1>7. ASSUME Finish(r)
      PROVE  HasDecided(r)'
  <2>1. /\ pc[r] = "mpi_finalize" /\ pc'[r] = "done" /\ count' = count
        /\ residual_norm' = residual_norm /\ infile' = infile
    BY <1>7 DEF Finish, Shaped
  <2>2. /\ pc[r] \in Writing /\ pc'[r] \in Writing
        /\ pc[r] \notin Unsummed /\ pc'[r] \notin Unsummed
    BY <2>1 DEF Unsummed, Writing
  <2>3. QED
    BY <1>4, <2>1, <2>2 DEF HasDecided, Above
<1>8. QED
  BY <1>2, <1>5, <1>6, <1>7 DEF Decided, Posted

LEMMA NextKeeps ==
    ASSUME Shaped, Decided, Lockstep, [Next]_vars
    PROVE  Shaped' /\ Decided' /\ Lockstep'
<1>1. CASE Next
  <2>1. PICK r \in Procs : Step(r)
    BY <1>1 DEF Next
  <2>2. Posted(r) => Lockstep'
    BY PostsInLockstep DEF Posted
  <2>3. QED
    BY <2>1, <2>2, StepPosts, StepShaped, DecidesOnce, NormInLockstep, FinishInLockstep
<1>2. CASE UNCHANGED vars
  <2>1. UNCHANGED <<infile, pc, count, iter, residual_norm, own, halo, posted>>
    BY <1>2 DEF vars
  <2>2. Shaped' /\ Decided'
    BY <2>1 DEF Shaped, Decided, HasDecided, Above
  <2>3. PICK script : /\ OnScript(script, infile, posted) /\ InStep(script)
                      /\ Recorded(script, posted, residual_norm)
    BY DEF Lockstep
  <2>4. \A q \in Procs :
          IsAt(script, posted', q, Key(pc'[q], count'[q], iter'[q]), residual_norm'[q], own'[q])
    BY <2>1, <2>3 DEF InStep
  <2>5. InStep(script)'
    BY <2>4 DEF InStep
  <2>6. QED
    BY <2>1, <2>2, <2>3, <2>5 DEF Lockstep
<1>3. QED
  BY <1>1, <1>2

\* All ranks follow one script of collective calls, whatever the input file and the
\* shares of the residual: what a rank is in is what the script says for the number
\* of calls that it has made.
THEOREM OneScript == Spec => [](Shaped /\ Decided /\ Lockstep)
<1>1. Init => Shaped /\ Decided /\ Lockstep
  BY InitShaped, InitLockstep DEF Init, Decided, HasDecided, Unsummed, Writing
<1>2. Shaped /\ Decided /\ Lockstep /\ [Next]_vars => (Shaped /\ Decided /\ Lockstep)'
  BY NextKeeps
<1>3. QED
  BY <1>1, <1>2, PTL DEF Spec

-----------------------------------------------------------------------------
(* The ghosts.                                                              *)

\* a rank that goes on from the call of a vector has met the ages that the owners
\* of its ghosts have for that very call, which are its own
LEMMA GhostsMeetOwners ==
    ASSUME Shaped, Lockstep, NEW r \in Procs, NEW e, NEW d, Posts(r, e, d), Unpacks(r),
           NEW q \in Procs, NEW v \in Vectors, pc[q] = v, posted'[q] # posted[q],
           NEW p \in Owners(q)
    PROVE  halo'[q][v][p] = own[q][v]
<1> DEFINE n == Len(posted[q])
<1>1. q = r
  BY DEF Posts, Shaped
<1>2. PICK script : OnScript(script, infile, posted) /\ InStep(script)
  BY DEF Lockstep
<1>3. posted[q] \in Seq(Range(posted[q])) /\ v \notin {"main", "while", "done"}
  BY DEF Shaped, Vectors
<1>4. /\ posted[q] # <<>>
      /\ InCall(script[n], n, posted, Key(v, count[q], iter[q]), residual_norm[q], own[q])
  BY <1>2, <1>3 DEF InStep, IsAt, Key
<1>5. script[n] = Key(v, count[q], iter[q]) /\ own[q][v] = <<count[q], iter[q]>>
  BY <1>3, <1>4 DEF InCall, Key
<1>6. Entered(q, Owners(q)) /\ halo'[q][v] = Received(q, Owners(q))
  BY <1>1 DEF Unpacks
<1>7. p \in Procs /\ halo'[q][v][p] = posted[p][n].data
  BY <1>6 DEF Received, Owners
<1>8. n \in 1 .. Len(posted[p])
  <2>1. posted[p] \in Seq(Range(posted[p]))
    BY <1>7 DEF Shaped
  <2>2. QED
    BY <1>3, <1>4, <1>6, <2>1 DEF Entered
<1>9. IsOf(p, posted[p][n], script[n])
  BY <1>2, <1>7, <1>8 DEF OnScript
<1>10. QED
  BY <1>5, <1>7, <1>9 DEF IsOf, Gives, Key

\* No rank computes with ghosts of an earlier step or iteration, nor of a later one:
\* when a rank goes on from mpi_nbnb_transfer, what it has unpacked is what the
\* owners have computed in the step and the iteration that it is in itself.
THEOREM GhostsAlwaysFresh == Spec => GhostsAreFresh
<1>1. ASSUME Shaped, Lockstep, [Next]_vars
      PROVE  [\A r \in Procs : \A v \in Vectors :
                pc[r] = v /\ posted'[r] # posted[r] =>
                    \A p \in Owners(r) : halo'[r][v][p] = own[r][v]]_vars
  <2>1. CASE UNCHANGED vars
    BY <2>1
  <2>2. CASE Next
    <3>1. PICK r \in Procs : Step(r)
      BY <2>2 DEF Next
    <3>2. CASE Posted(r)
      <4>1. PICK e, d : Posts(r, e, d) /\ Unpacks(r)
        BY <3>2 DEF Posted
      <4>2. QED
        BY <1>1, <4>1, GhostsMeetOwners
    <3>3. CASE posted' = posted
      BY <3>3
    <3>4. QED
      BY <1>1, <3>1, <3>2, <3>3, StepPosts DEF NormReduced, Finish
  <2>3. QED
    BY <1>1, <2>1, <2>2
<1>2. QED
  BY <1>1, OneScript, PTL DEF Spec, GhostsAreFresh

-----------------------------------------------------------------------------
(* No rank waits for ever.                                                  *)

\* two ranks never make different calls: the i-th collective call is the same on
\* all that have made one
CallsAgree ==
    \A p, q \in Procs :
        \A i \in 1 .. Len(posted[p]) :
            i <= Len(posted[q]) => posted[p][i].call = posted[q][i].call

\* the call that a rank is in returns, or it is in none: all the ranks have made it
Returns(r) == pc[r] \in {"main", "while"} \/ Entered(r, Procs)
SomeRankGoesOn ==
    (\E r \in Procs : pc[r] # "done") => \E r \in Procs : pc[r] # "done" /\ Returns(r)

\* Whichever way the ranks go through main, all make the same collective calls in
\* the same order, so that no MPI_Allreduce meets an MPI_Gather or a transfer of
\* another vector.
THEOREM CallsAlwaysAgree == Spec => []CallsAgree
<1>1. Shaped /\ Lockstep => CallsAgree
  <2>1. SUFFICES ASSUME Shaped, Lockstep, NEW p \in Procs, NEW q \in Procs,
                        NEW i \in 1 .. Len(posted[p]), i <= Len(posted[q])
                 PROVE  posted[p][i].call = posted[q][i].call
    BY DEF CallsAgree
  <2>2. PICK script : OnScript(script, infile, posted)
    BY <2>1 DEF Lockstep
  <2>3. posted[q] \in Seq(Range(posted[q])) /\ posted[p] \in Seq(Range(posted[p]))
    BY <2>1 DEF Shaped
  <2>4. i \in 1 .. Len(posted[q])
    BY <2>1, <2>3
  <2>5. IsOf(p, posted[p][i], script[i]) /\ IsOf(q, posted[q][i], script[i])
    BY <2>2, <2>4 DEF OnScript
  <2>6. QED
    BY <2>5 DEF IsOf
<1>2. QED
  BY <1>1, OneScript, PTL

\* of some ranks one has made the least calls
LEMMA OneIsLast ==
    ASSUME Shaped, NEW S, S \subseteq Procs, S # {}
    PROVE  \E r \in S : \A p \in S : Len(posted[r]) <= Len(posted[p])
<1> DEFINE T == {Len(posted[p]) : p \in S}
<1>1. \A p \in S : Len(posted[p]) \in Nat
  BY DEF Shaped
<1>2. T \subseteq Nat /\ T # {}
  BY <1>1
<1>3. PICK n \in T : \A m \in T : ~(<<m, n>> \in OpToRel(<, Nat))
  BY <1>2, WFMin, NatLessThanWellFounded
<1>4. \A m \in T : n <= m
  <2>1. ASSUME NEW m \in T
        PROVE  n <= m
    <3>1. <<m, n>> \in Nat \X Nat /\ <<m, n>>[1] = m /\ <<m, n>>[2] = n
      BY <1>2
    <3>2. ~(m < n)
      BY <1>3, <3>1 DEF OpToRel
    <3>3. QED
      BY <1>2, <3>2
  <2>2. QED
    BY <2>1
<1>5. QED
  BY <1>4

\* As long as a rank is not done, one of those that are not is in no call or in one
\* that all ranks have made: the ranks never wait for one another in a circle, and
\* none waits for a rank that has left the program.
THEOREM SomeRankAlwaysGoesOn == Spec => []SomeRankGoesOn
<1>1. Shaped /\ Lockstep => SomeRankGoesOn
  <2> SUFFICES ASSUME Shaped, Lockstep, \E r \in Procs : pc[r] # "done"
               PROVE  \E r \in Procs : pc[r] # "done" /\ Returns(r)
    BY DEF SomeRankGoesOn
  <2>1. PICK script : OnScript(script, infile, posted) /\ InStep(script)
    BY DEF Lockstep
  <2> DEFINE S == {r \in Procs : pc[r] # "done"}
  <2>2. PICK r \in S : \A p \in S : Len(posted[r]) <= Len(posted[p])
    BY OneIsLast
  <2>3. ASSUME NEW p \in Procs, pc[p] = "done"
        PROVE  Len(posted[r]) <= Len(posted[p])
    <3> DEFINE m == Len(posted[p])
    <3>1. posted[p] \in Seq(Range(posted[p])) /\ posted[r] \in Seq(Range(posted[r]))
      BY DEF Shaped
    <3>2. posted[p] # <<>> /\ script[m].call = "mpi_finalize"
      BY <2>1, <2>3 DEF InStep, IsAt, InCall, Key
    <3>3. m \in Nat \ {0} /\ Len(posted[r]) \in Nat
      BY <3>1, <3>2
    <3>4. ASSUME Len(posted[r]) > m
          PROVE  FALSE
      <4>1. m + 1 \in 1 .. Len(posted[r]) /\ m + 1 > 1 /\ (m + 1) - 1 = m
        BY <3>3, <3>4
      <4>2. ScriptAt(script, infile, posted, m + 1)
        BY <2>1, <4>1 DEF OnScript
      <4>3. QED
        BY <3>2, <4>1, <4>2 DEF ScriptAt
    <3>5. QED
      BY <3>3, <3>4
  <2>4. \A p \in Procs : Len(posted[p]) >= Len(posted[r])
    <3>1. \A p \in Procs : Len(posted[p]) \in Nat
      BY DEF Shaped
    <3>2. QED
      BY <2>2, <2>3, <3>1
  <2>5. QED
    BY <2>2, <2>4 DEF Returns, Entered
<1>2. QED
  BY <1>1, OneScript, PTL

-----------------------------------------------------------------------------
(* Induction up to a number, FlattenSeq and concatenation.                  *)

\* what holds of 0 and passes from each number to the next holds up to n
LEMMA UpTo ==
    ASSUME NEW n \in Nat, NEW T, 0 \in T, \A k \in 0 .. n - 1 : k \in T => k + 1 \in T
    PROVE  0 .. n \subseteq T
<1> DEFINE Bad == (0 .. n) \ T
<1>1. SUFFICES ASSUME Bad # {} PROVE FALSE
  OBVIOUS
<1>2. Bad \subseteq Nat
  OBVIOUS
<1>3. PICK k \in Bad : \A j \in Bad : ~(<<j, k>> \in OpToRel(<, Nat))
  <2> HIDE DEF Bad
  <2>1. QED
    BY <1>1, <1>2, WFMin, NatLessThanWellFounded
<1>4. k \in 0 .. n /\ k \notin T /\ k # 0
  BY <1>3
<1>5. k - 1 \in 0 .. n - 1 /\ (k - 1) + 1 = k /\ k - 1 \in Nat
  BY <1>4
<1>6. <<k - 1, k>> \in OpToRel(<, Nat)
  BY <1>4, <1>5 DEF OpToRel
<1>7. k - 1 \in T
  <2>1. k - 1 \notin Bad
    BY <1>3, <1>6
  <2>2. k - 1 \in 0 .. n
    BY <1>5
  <2>3. QED
    BY <2>1, <2>2
<1>8. QED
  BY <1>4, <1>5, <1>7

\* the recursion of FlattenSeq: g[i] is the first i sequences, one behind the other
Flat(g, s, n) == g = [i \in 1 .. n |-> IF i = 1 THEN s[i] ELSE g[i - 1] \o s[i]]

LEMMA FlatExists ==
    ASSUME NEW n \in Nat, NEW s
    PROVE  \E g : Flat(g, s, n)
<1> DEFINE T == {m \in 0 .. n : \E g : Flat(g, s, m)}
<1>1. 0 \in T
  <2>1. Flat(<<>>, s, 0)
    BY DEF Flat
  <2>2. QED
    BY <2>1
<1>2. ASSUME NEW m \in 0 .. n - 1, m \in T
      PROVE  m + 1 \in T
  <2>1. PICK g : Flat(g, s, m)
    BY <1>2
  <2> DEFINE h == [i \in 1 .. m + 1 |-> IF i = 1 THEN s[i] ELSE g[i - 1] \o s[i]]
  <2>2. ASSUME NEW i \in 1 .. m
        PROVE  h[i] = g[i]
    <3>1. g[i] = IF i = 1 THEN s[i] ELSE g[i - 1] \o s[i]
      BY <2>1 DEF Flat
    <3>2. i \in 1 .. m + 1
      BY <2>2
    <3>3. QED
      BY <3>1, <3>2
  <2>3. \A i \in 1 .. m + 1 : i # 1 => i - 1 \in 1 .. m
    OBVIOUS
  <2>4. \A i \in 1 .. m + 1 : i # 1 => h[i - 1] = g[i - 1]
    BY <2>2, <2>3
  <2>5. Flat(h, s, m + 1)
    BY <2>4 DEF Flat
  <2>6. QED
    BY <2>5
<1>3. n \in T
  <2> HIDE DEF T
  <2>1. QED
    BY <1>1, <1>2, UpTo
<1>4. QED
  BY <1>3

\* FlattenSeq is what its recursion ends in, and the recursion goes from one sequence
\* to the next
LEMMA FlattenIs ==
    ASSUME NEW n \in Nat \ {0}, NEW s, Len(s) = n
    PROVE  \E g : Flat(g, s, n) /\ FlattenSeq(s) = g[n]
<1>1. FlattenSeq(s) = (CHOOSE g : Flat(g, s, n))[n]
  BY DEF FlattenSeq, Flat
<1>2. Flat((CHOOSE g : Flat(g, s, n)), s, n)
  BY FlatExists
<1>3. QED
  BY <1>1, <1>2

LEMMA FlatSteps ==
    ASSUME NEW n \in Nat \ {0}, NEW s, NEW g, Flat(g, s, n)
    PROVE  g[1] = s[1] /\ \A m \in 1 .. n - 1 : g[m + 1] = g[m] \o s[m + 1]
<1>1. ASSUME NEW m \in 1 .. n - 1
      PROVE  g[m + 1] = g[m] \o s[m + 1]
  <2>1. m + 1 \in 1 .. n /\ m + 1 # 1 /\ (m + 1) - 1 = m
    OBVIOUS
  <2>2. PICK i : i = m + 1
    OBVIOUS
  <2>3. g[i] = g[i - 1] \o s[i]
    BY <2>1, <2>2 DEF Flat
  <2>4. QED
    BY <2>1, <2>2, <2>3
<1>2. g[1] = s[1]
  <2>1. 1 \in 1 .. n
    OBVIOUS
  <2>2. QED
    BY <2>1 DEF Flat
<1>3. QED
  BY <1>1, <1>2

LEMMA ConcatAt ==
    ASSUME NEW S, NEW s \in Seq(S), NEW t \in Seq(S)
    PROVE  /\ s \o t \in Seq(S) /\ Len(s \o t) = Len(s) + Len(t)
           /\ \A i \in 1 .. Len(s) : (s \o t)[i] = s[i]
           /\ \A j \in 1 .. Len(t) : (s \o t)[Len(s) + j] = t[j]
OBVIOUS

\* z is s with t behind it
Joined(S, s, t, z) ==
    /\ z \in Seq(S) /\ Len(z) = Len(s) + Len(t)
    /\ \A i \in 1 .. Len(s) : z[i] = s[i]
    /\ \A j \in 1 .. Len(t) : z[Len(s) + j] = t[j]
LEMMA JoinedByConcat ==
    ASSUME NEW S, NEW s, NEW t, NEW z, s \in Seq(S), t \in Seq(S), z = s \o t
    PROVE  Joined(S, s, t, z)
<1>1. Joined(S, s, t, s \o t)
  BY ConcatAt DEF Joined
<1>2. QED
  BY <1>1

\* Three lists of sequences, the second like the first and the third twice as long,
\* stay aligned when they are put together: Q[i] and the pair X[2i-1], X[2i] come
\* from the place that A[i] comes from.
Aligned(a, q, x, A, Q, X, m) ==
    /\ Len(Q) = Len(A) /\ Len(X) = 2 * Len(A)
    /\ \A i \in 1 .. Len(A) : \E k \in 1 .. m : \E j \in 1 .. Len(a[k]) :
          /\ A[i] = a[k][j] /\ Q[i] = q[k][j]
          /\ X[2 * i - 1] = x[k][2 * j - 1] /\ X[2 * i] = x[k][2 * j]

\* the lists are as long as one another, and their sequences are aligned
Alike(S, a, q, x, n) ==
    /\ Len(a) = n /\ Len(q) = n /\ Len(x) = n
    /\ \A k \in 1 .. n : /\ a[k] \in Seq(S) /\ q[k] \in Seq(S) /\ x[k] \in Seq(S)
                         /\ Len(q[k]) = Len(a[k]) /\ Len(x[k]) = 2 * Len(a[k])

\* A, Q and X are the first m sequences of each list, put together, and A2, Q2 and X2
\* are they with the next ones
Together(S, a, q, x, A, Q, X, m) ==
    A \in Seq(S) /\ Q \in Seq(S) /\ X \in Seq(S) /\ Aligned(a, q, x, A, Q, X, m)
Longer(a, q, x, A, Q, X, A2, Q2, X2, m) ==
    A2 = A \o a[m + 1] /\ Q2 = Q \o q[m + 1] /\ X2 = X \o x[m + 1]

LEMMA AlignedGrows ==
    ASSUME NEW S, NEW n \in Nat \ {0}, NEW a, NEW q, NEW x, Alike(S, a, q, x, n),
           NEW m \in 1 .. n - 1, NEW A, NEW Q, NEW X, Together(S, a, q, x, A, Q, X, m),
           NEW A2, NEW Q2, NEW X2, Longer(a, q, x, A, Q, X, A2, Q2, X2, m)
    PROVE  Together(S, a, q, x, A2, Q2, X2, m + 1)
<1>1. PICK k : k = m + 1
  OBVIOUS
<1>2. k \in 1 .. n /\ k \in 1 .. m + 1
  BY <1>1
<1>3. PICK b, r, y : b = a[k] /\ r = q[k] /\ y = x[k]
  OBVIOUS
<1>4. b \in Seq(S) /\ r \in Seq(S) /\ y \in Seq(S) /\ Len(r) = Len(b) /\ Len(y) = 2 * Len(b)
  BY <1>2, <1>3 DEF Alike
<1>5. A2 = A \o b
  BY <1>1, <1>3 DEF Longer
<1>6. Q2 = Q \o r
  BY <1>1, <1>3 DEF Longer
<1>7. X2 = X \o y
  BY <1>1, <1>3 DEF Longer
<1>8. Len(A) \in Nat /\ Len(b) \in Nat /\ Len(Q) = Len(A) /\ Len(X) = 2 * Len(A)
  BY <1>4 DEF Together, Aligned
<1>9. /\ A2 \in Seq(S) /\ Len(A2) = Len(A) + Len(b)
      /\ \A i \in 1 .. Len(A) : A2[i] = A[i]
      /\ \A j \in 1 .. Len(b) : A2[Len(A) + j] = b[j]
  <2>1. A \in Seq(S) /\ b \in Seq(S) /\ A2 = A \o b
    BY <1>4, <1>5 DEF Together
  <2>2. Joined(S, A, b, A2)
    BY ONLY <2>1, JoinedByConcat
  <2>3. QED
    BY <2>2 DEF Joined
<1>10. /\ Q2 \in Seq(S) /\ Len(Q2) = Len(Q) + Len(r)
       /\ \A i \in 1 .. Len(Q) : Q2[i] = Q[i]
       /\ \A j \in 1 .. Len(r) : Q2[Len(Q) + j] = r[j]
  <2>1. Q \in Seq(S) /\ r \in Seq(S) /\ Q2 = Q \o r
    BY <1>4, <1>6 DEF Together
  <2>2. Joined(S, Q, r, Q2)
    BY ONLY <2>1, JoinedByConcat
  <2>3. QED
    BY <2>2 DEF Joined
<1>11. /\ X2 \in Seq(S) /\ Len(X2) = Len(X) + Len(y)
       /\ \A i \in 1 .. Len(X) : X2[i] = X[i]
       /\ \A j \in 1 .. Len(y) : X2[Len(X) + j] = y[j]
  <2>1. X \in Seq(S) /\ y \in Seq(S) /\ X2 = X \o y
    BY <1>4, <1>7 DEF Together
  <2>2. Joined(S, X, y, X2)
    BY ONLY <2>1, JoinedByConcat
  <2>3. QED
    BY <2>2 DEF Joined
<1>12. Len(Q2) = Len(A2) /\ Len(X2) = 2 * Len(A2)
  BY <1>4, <1>8, <1>9, <1>10, <1>11
<1>13. ASSUME NEW i \in 1 .. Len(A2)
       PROVE  \E l \in 1 .. m + 1 : \E j \in 1 .. Len(a[l]) :
                 /\ A2[i] = a[l][j] /\ Q2[i] = q[l][j]
                 /\ X2[2 * i - 1] = x[l][2 * j - 1] /\ X2[2 * i] = x[l][2 * j]
  <2>1. CASE i \in 1 .. Len(A)
    <3>1. 2 * i - 1 \in 1 .. Len(X) /\ 2 * i \in 1 .. Len(X)
      BY <1>8, <2>1
    <3>2. A2[i] = A[i] /\ Q2[i] = Q[i] /\ X2[2 * i - 1] = X[2 * i - 1] /\ X2[2 * i] = X[2 * i]
      BY <1>8, <1>9, <1>10, <1>11, <2>1, <3>1
    <3>3. PICK l \in 1 .. m : \E j \in 1 .. Len(a[l]) :
                 /\ A[i] = a[l][j] /\ Q[i] = q[l][j]
                 /\ X[2 * i - 1] = x[l][2 * j - 1] /\ X[2 * i] = x[l][2 * j]
      BY <2>1 DEF Together, Aligned
    <3>4. l \in 1 .. m + 1
      OBVIOUS
    <3>5. QED
      BY <3>2, <3>3, <3>4
  <2>2. CASE i \notin 1 .. Len(A)
    <3>1. PICK j \in 1 .. Len(b) : i = Len(A) + j
      <4>1. i - Len(A) \in 1 .. Len(b) /\ i = Len(A) + (i - Len(A))
        BY <1>8, <1>9, <2>2
      <4>2. QED
        BY <4>1
    <3>2. 2 * j - 1 \in 1 .. Len(y) /\ 2 * j \in 1 .. Len(y) /\ j \in 1 .. Len(r)
      BY <1>4, <1>8, <3>1
    <3>3. 2 * i - 1 = Len(X) + (2 * j - 1) /\ 2 * i = Len(X) + 2 * j /\ i = Len(Q) + j
      BY <1>8, <3>1
    <3>4. A2[i] = b[j] /\ Q2[i] = r[j]
      BY <1>9, <1>10, <3>1, <3>2, <3>3
    <3>5. X2[2 * i - 1] = y[2 * j - 1]
      BY <1>11, <3>2, <3>3
    <3>6. X2[2 * i] = y[2 * j]
      BY <1>11, <3>2, <3>3
    <3>7. QED
      BY <1>2, <1>3, <3>1, <3>4, <3>5, <3>6
  <2>3. QED
    BY <2>1, <2>2
<1>14. QED
  BY <1>9, <1>10, <1>11, <1>12, <1>13 DEF Together, Aligned

LEMMA FlattenTogether ==
    ASSUME NEW S, NEW n \in Nat \ {0}, NEW a, NEW q, NEW x, Alike(S, a, q, x, n)
    PROVE  /\ FlattenSeq(a) \in Seq(S)
           /\ Aligned(a, q, x, FlattenSeq(a), FlattenSeq(q), FlattenSeq(x), n)
<1>1. Len(a) = n /\ Len(q) = n /\ Len(x) = n
  BY DEF Alike
<1>2. PICK f : Flat(f, a, n) /\ FlattenSeq(a) = f[n]
  BY <1>1, FlattenIs
<1>3. PICK g : Flat(g, q, n) /\ FlattenSeq(q) = g[n]
  BY <1>1, FlattenIs
<1>4. PICK h : Flat(h, x, n) /\ FlattenSeq(x) = h[n]
  BY <1>1, FlattenIs
<1> DEFINE Good(m) == Together(S, a, q, x, f[m], g[m], h[m], m)
           T == {m \in 0 .. n : m = 0 \/ Good(m)}
<1>5. Good(1)
  <2>1. f[1] = a[1] /\ g[1] = q[1] /\ h[1] = x[1]
    BY <1>2, <1>3, <1>4, FlatSteps
  <2>2. 1 \in 1 .. n
    OBVIOUS
  <2>3. QED
    BY <2>1, <2>2 DEF Alike, Together, Aligned
<1>6. ASSUME NEW m \in 1 .. n - 1, Good(m)
      PROVE  Good(m + 1)
  <2>1. f[m + 1] = f[m] \o a[m + 1] /\ g[m + 1] = g[m] \o q[m + 1]
        /\ h[m + 1] = h[m] \o x[m + 1]
    BY <1>2, <1>3, <1>4, FlatSteps
  <2>2. PICK A2, Q2, X2 : A2 = f[m + 1] /\ Q2 = g[m + 1] /\ X2 = h[m + 1]
    OBVIOUS
  <2>3. PICK A, Q, X : A = f[m] /\ Q = g[m] /\ X = h[m]
    OBVIOUS
  <2>4. Together(S, a, q, x, A, Q, X, m)
    BY <1>6, <2>3
  <2>5. Longer(a, q, x, A, Q, X, A2, Q2, X2, m)
    BY <2>1, <2>2, <2>3 DEF Longer
  <2>6. m \in 1 .. n - 1 /\ n \in Nat \ {0} /\ Alike(S, a, q, x, n)
    BY <1>6
  <2>7. Together(S, a, q, x, A2, Q2, X2, m + 1)
    BY ONLY <2>4, <2>5, <2>6, AlignedGrows
  <2>8. QED
    BY <2>2, <2>7
<1> HIDE DEF Good
<1>7. n \in T
  <2>1. 0 \in T
    OBVIOUS
  <2>2. ASSUME NEW m \in 0 .. n - 1, m \in T
        PROVE  m + 1 \in T
    <3>1. m + 1 \in 0 .. n
      OBVIOUS
    <3>2. CASE m = 0
      BY <1>5, <3>1, <3>2
    <3>3. CASE m # 0
      <4>1. m \in 1 .. n - 1 /\ Good(m)
        BY <2>2, <3>3
      <4>2. Good(m + 1)
        BY <1>6, <4>1
      <4>3. QED
        BY <3>1, <4>2
    <3>4. QED
      BY <3>2, <3>3
  <2> HIDE DEF T
  <2>3. 0 .. n \subseteq T
    BY <2>1, <2>2, UpTo
  <2>4. QED
    BY <2>3
<1>8. Good(n)
  BY <1>7
<1>9. QED
  BY <1>2, <1>3, <1>4, <1>8 DEF Good, Together

\* p[i] is the pair of u[i] and v[i]
Pairs(S, p, u, v, n) ==
    /\ p = [i \in 1 .. n |-> <<u[i], v[i]>>]
    /\ \A i \in 1 .. n : u[i] \in S /\ v[i] \in S

\* s is a list of pairs, u[i] and v[i], one pair behind the other
InPairs(S, s, u, v, n) ==
    /\ s \in Seq(S) /\ Len(s) = 2 * n
    /\ \A i \in 1 .. n : s[2 * i - 1] = u[i] /\ s[2 * i] = v[i]

LEMMA FlattenPairs ==
    ASSUME NEW S, NEW n \in Nat, NEW u, NEW v, NEW p, Pairs(S, p, u, v, n),
           NEW s, s = FlattenSeq(p)
    PROVE  InPairs(S, s, u, v, n)
<1>1. Len(p) = n
  BY DEF Pairs
<1>2. CASE n = 0
  <2>1. p = <<>> /\ s = FlattenSeq(p)
    BY <1>2 DEF Pairs
  <2>2. FlattenSeq(p) = p
    BY <1>1, <1>2 DEF FlattenSeq
  <2>3. s = <<>>
    BY <2>1, <2>2
  <2>4. <<>> \in Seq(S) /\ Len(<<>>) = 2 * n
    BY ONLY <1>2
  <2>5. s \in Seq(S) /\ Len(s) = 2 * n
    BY ONLY <2>3, <2>4
  <2>6. QED
    BY <1>2, <2>5 DEF InPairs
<1>3. CASE n # 0
  <2>1. n \in Nat \ {0} /\ \A i \in 1 .. n : p[i] = <<u[i], v[i]>> /\ p[i] \in Seq(S)
    BY <1>3 DEF Pairs
  <2>2. PICK g : Flat(g, p, n) /\ FlattenSeq(p) = g[n]
    BY <1>1, <2>1, FlattenIs
  <2>3. g[1] = p[1] /\ \A m \in 1 .. n - 1 : g[m + 1] = g[m] \o p[m + 1]
    BY <2>1, <2>2, FlatSteps
  <2> DEFINE Good(m) == /\ g[m] \in Seq(S) /\ Len(g[m]) = 2 * m
                        /\ \A i \in 1 .. m : g[m][2 * i - 1] = u[i] /\ g[m][2 * i] = v[i]
             T == {m \in 0 .. n : m = 0 \/ Good(m)}
  <2>4. Good(1)
    <3>1. PICK w : w = g[1]
      OBVIOUS
    <3>2. 1 \in 1 .. n
      BY <2>1
    <3>3. w = <<u[1], v[1]>> /\ w \in Seq(S)
      BY <2>1, <2>3, <3>1, <3>2
    <3>4. Len(w) = 2 /\ w[1] = u[1] /\ w[2] = v[1]
      BY <3>3
    <3>5. \A i \in 1 .. 1 : w[2 * i - 1] = u[i] /\ w[2 * i] = v[i]
      BY <3>4
    <3>6. QED
      BY <3>1, <3>3, <3>4, <3>5
  <2>5. ASSUME NEW m \in 1 .. n - 1, Good(m)
        PROVE  Good(m + 1)
    <3>1. PICK t, w, k : t = g[m] /\ k = m + 1 /\ w = p[k]
      OBVIOUS
    <3>2. /\ t \in Seq(S) /\ Len(t) = 2 * m /\ w \in Seq(S) /\ w = <<u[k], v[k]>>
          /\ \A i \in 1 .. m : t[2 * i - 1] = u[i] /\ t[2 * i] = v[i]
          /\ k \in 1 .. n
      BY <2>1, <2>5, <3>1
    <3>3. Len(w) = 2 /\ w[1] = u[k] /\ w[2] = v[k]
      BY <3>2
    <3>4. /\ t \o w \in Seq(S) /\ Len(t \o w) = Len(t) + Len(w)
          /\ \A i \in 1 .. Len(t) : (t \o w)[i] = t[i]
          /\ \A j \in 1 .. Len(w) : (t \o w)[Len(t) + j] = w[j]
      BY <3>2, ConcatAt
    <3>5. PICK z : z = t \o w
      OBVIOUS
    <3>6. z \in Seq(S) /\ Len(z) = 2 * k
      BY <3>1, <3>2, <3>3, <3>4, <3>5
    <3>7. \A i \in 1 .. m : z[2 * i - 1] = u[i] /\ z[2 * i] = v[i]
      <4>1. \A i \in 1 .. m : 2 * i - 1 \in 1 .. Len(t) /\ 2 * i \in 1 .. Len(t)
        BY <3>2
      <4>2. QED
        BY <3>2, <3>4, <3>5, <4>1
    <3>8. z[2 * k - 1] = u[k] /\ z[2 * k] = v[k]
      <4>1. 2 * k - 1 = Len(t) + 1 /\ 2 * k = Len(t) + 2 /\ 1 \in 1 .. Len(w) /\ 2 \in 1 .. Len(w)
        BY <3>1, <3>2, <3>3
      <4>2. QED
        BY <3>3, <3>4, <3>5, <4>1
    <3>9. \A i \in 1 .. k : i \in 1 .. m \/ i = k
      BY <3>1
    <3>10. z = g[m + 1]
      BY <2>3, <3>1, <3>5
    <3>11. QED
      BY <3>1, <3>6, <3>7, <3>8, <3>9, <3>10
  <2> HIDE DEF Good
  <2>6. n \in T
    <3>1. 0 \in T
      OBVIOUS
    <3>2. ASSUME NEW m \in 0 .. n - 1, m \in T
          PROVE  m + 1 \in T
      <4>1. m + 1 \in 0 .. n
        OBVIOUS
      <4>2. CASE m = 0
        BY <2>4, <4>1, <4>2
      <4>3. CASE m # 0
        <5>1. m \in 1 .. n - 1 /\ Good(m)
          BY <3>2, <4>3
        <5>2. Good(m + 1)
          BY <2>5, <5>1
        <5>3. QED
          BY <4>1, <5>2
      <4>4. QED
        BY <4>2, <4>3
    <3> HIDE DEF T
    <3>3. 0 .. n \subseteq T
      BY <3>1, <3>2, UpTo
    <3>4. QED
      BY <3>3
  <2>7. Good(n) /\ s = g[n]
    BY <2>1, <2>2, <2>6
  <2>8. QED
    BY <2>7 DEF Good, InPairs
<1>4. QED
  BY <1>2, <1>3

-----------------------------------------------------------------------------
(* The residual histories.                                                  *)

\* the steps go up along the script, and there is one residual to each
Before(e, f) ==
    /\ e.count <= f.count
    /\ e.call = "residual_norm" /\ f.call \in {"residual_norm", "Q_cell"} => e.count < f.count

LEMMA NextKeyCounts ==
    ASSUME NEW opt, NEW e, NEW norm, NEW f, f = NextKey(opt, e, norm)
    PROVE  /\ f.count = e.count \/ (f.call = "Q_cell" /\ f.count = e.count + 1)
           /\ f.call = "Q_cell" => f.count = e.count + 1
           /\ f.call = "residual_norm" => e.call = "Q_cell" /\ f.count = e.count
<1>1. CASE e.call \in DOMAIN After
  <2>1. f = Key(After[e.call], e.count, e.iter)
    BY <1>1 DEF NextKey
  <2>2. f.call = After[e.call] /\ f.count = e.count
    BY <2>1 DEF Key
  <2>3. f.call # "Q_cell" /\ (f.call = "residual_norm" => e.call = "Q_cell")
    BY <1>1, <2>2, AfterEach
  <2>4. QED
    BY <2>2, <2>3
<1>2. CASE e.call \notin DOMAIN After
  <2>1. \/ f.call \in {"recv_count", "dQ_old", "dQ", "r.r0"} /\ f.count = e.count
        \/ f.call = "Q_cell" /\ f.count = e.count + 1
    BY <1>2 DEF NextKey, Key
  <2>2. QED
    BY <2>1
<1>3. QED
  BY <1>1, <1>2

LEMMA InOrder ==
    ASSUME NEW script, NEW opt, NEW P, NEW n \in Nat,
           \A i \in 1 .. n : ScriptAt(script, opt, P, i)
    PROVE  \A i \in 1 .. n : /\ script[i].count \in Nat
                             /\ \A j \in 1 .. i - 1 : Before(script[j], script[i])
<1> DEFINE Good(i) == /\ script[i].count \in Nat
                      /\ \A j \in 1 .. i - 1 : Before(script[j], script[i])
           T == {m \in 0 .. n : \A i \in 1 .. m : Good(i)}
<1>1. 0 \in T
  OBVIOUS
<1>2. ASSUME NEW m \in 0 .. n - 1, m \in T
      PROVE  m + 1 \in T
  <2>1. PICK k : k = m + 1
    OBVIOUS
  <2>2. k \in 1 .. n /\ k - 1 = m
    BY <2>1
  <2>3. ScriptAt(script, opt, P, k)
    BY <2>2
  <2>4. Good(k)
    <3>1. CASE m = 0
      BY <2>2, <2>3, <3>1 DEF ScriptAt, Begin, Key
    <3>2. CASE m # 0
      <4>1. script[k] = NextKey(opt, script[m], Sum(P, m))
        BY <2>2, <2>3, <3>2 DEF ScriptAt
      <4>2. PICK e, f : e = script[m] /\ f = script[k]
        OBVIOUS
      <4>3. /\ f.count = e.count \/ (f.call = "Q_cell" /\ f.count = e.count + 1)
            /\ f.call = "Q_cell" => f.count = e.count + 1
            /\ f.call = "residual_norm" => e.call = "Q_cell" /\ f.count = e.count
        BY <4>1, <4>2, NextKeyCounts
      <4>4. Good(m) /\ \A i \in 1 .. m : Good(i)
        BY <1>2, <3>2
      <4>5. e.count \in Nat /\ f.count \in Nat
        BY <4>2, <4>3, <4>4
      <4>6. ASSUME NEW j \in 1 .. k - 1
            PROVE  Before(script[j], f)
        <5>1. CASE j = m
          BY <4>2, <4>3, <4>5, <5>1 DEF Before
        <5>2. CASE j # m
          <6>1. j \in 1 .. m - 1 /\ j \in 1 .. m
            BY <2>2, <5>2
          <6>2. Before(script[j], e) /\ script[j].count \in Nat
            BY <4>2, <4>4, <6>1
          <6>3. QED
            BY <4>3, <4>5, <6>2 DEF Before
        <5>3. QED
          BY <5>1, <5>2
      <4>7. QED
        BY <4>2, <4>5, <4>6
    <3>3. QED
      BY <3>1, <3>2
  <2>5. \A i \in 1 .. k : i \in 1 .. m \/ i = k
    BY <2>1
  <2> HIDE DEF Good
  <2>6. QED
    BY <1>2, <2>1, <2>2, <2>4, <2>5
<1>3. n \in T
  <2> HIDE DEF T
  <2>1. QED
    BY <1>1, <1>2, UpTo
<1>4. QED
  BY <1>3

\* there is one call of a residual to each step
LEMMA OneNorm ==
    ASSUME NEW script, NEW opt, NEW P, NEW n \in Nat,
           \A i \in 1 .. n : ScriptAt(script, opt, P, i),
           NEW i \in 1 .. n, NEW j \in 1 .. n, script[i].count = script[j].count,
           script[i].call = "residual_norm", script[j].call = "residual_norm"
    PROVE  i = j
<1>1. ASSUME NEW k \in 1 .. n, NEW l \in 1 .. n, k < l, script[k].count = script[l].count,
             script[k].call = "residual_norm", script[l].call = "residual_norm"
      PROVE  FALSE
  <2>1. k \in 1 .. l - 1
    BY <1>1
  <2>2. script[k].count \in Nat /\ script[l].count \in Nat /\ Before(script[k], script[l])
    BY <2>1, InOrder
  <2>3. QED
    BY <1>1, <2>2 DEF Before
<1>2. i < j \/ j < i \/ i = j
  OBVIOUS
<1>3. QED
  BY <1>1, <1>2

Lists(N) == \A r \in Procs : N[r] \in Seq(Range(N[r]))
Agreeing(N) ==
    \A p, q \in Procs : \A k \in 1 .. Len(N[p]) : k <= Len(N[q]) => N[p][k] = N[q][k]
Leads(N, r) == r \in Procs /\ \A p \in Procs : Len(N[p]) <= Len(N[r])
LongestOf(N) ==
    LET r == CHOOSE r \in Procs : \A p \in Procs : Len(N[p]) <= Len(N[r])
    IN  N[r]

\* the k-th residual is the same on all ranks that have it
LEMMA HistoriesAgree ==
    ASSUME Shaped, Lockstep
    PROVE  Lists(residual_norm) /\ Agreeing(residual_norm)
<1>1. PICK script : OnScript(script, infile, posted) /\ Recorded(script, posted, residual_norm)
  BY DEF Lockstep
<1>2. ASSUME NEW p \in Procs, NEW q \in Procs, NEW k \in 1 .. Len(residual_norm[p]),
             k <= Len(residual_norm[q])
      PROVE  residual_norm[p][k] = residual_norm[q][k]
  <2>1. posted[p] \in Seq(Range(posted[p])) /\ residual_norm[q] \in Seq(Range(residual_norm[q]))
    BY DEF Shaped
  <2>2. PICK n \in Nat : n = Len(posted[p])
    BY <2>1
  <2>3. k \in 1 .. Len(residual_norm[q])
    BY <1>2, <2>1
  <2>4. PICK i \in 1 .. Len(posted[p]) : NormAt(script, posted, i, k, residual_norm[p][k])
    BY <1>1 DEF Recorded
  <2>5. PICK j \in 1 .. Len(posted[q]) : NormAt(script, posted, j, k, residual_norm[q][k])
    BY <1>1, <2>3 DEF Recorded
  <2>6. i \in 1 .. n /\ j \in 1 .. n
    BY <2>2, <2>4, <2>5 DEF NormAt, AllPosted
  <2>7. \A l \in 1 .. n : ScriptAt(script, infile, posted, l)
    BY <1>1, <2>2 DEF OnScript
  <2>8. /\ script[i].count = script[j].count
        /\ script[i].call = "residual_norm" /\ script[j].call = "residual_norm"
    BY <2>4, <2>5 DEF NormAt
  <2>9. i = j
    BY <2>6, <2>7, <2>8, OneNorm
  <2>10. QED
    BY <2>4, <2>5, <2>9 DEF NormAt
<1>3. QED
  BY <1>2 DEF Shaped, Lists, Agreeing

LEMMA OneLeads ==
    ASSUME NEW N, Lists(N)
    PROVE  \E r \in Procs : Leads(N, r)
<1>1. PICK n \in Nat : n = numprocs - 1
  BY TimeLoopAssumption
<1> DEFINE Best(r, m) == r \in 0 .. m /\ \A p \in 0 .. m : Len(N[p]) <= Len(N[r])
           T == {m \in 0 .. n : \E r \in Procs : Best(r, m)}
<1>2. Procs = 0 .. n /\ 0 \in Procs /\ \A p \in Procs : Len(N[p]) \in Nat
  BY <1>1, TimeLoopAssumption DEF Procs, Lists
<1>3. 0 \in T
  <2>1. Best(0, 0)
    BY <1>2
  <2>2. QED
    BY <1>2, <2>1
<1>4. ASSUME NEW m \in 0 .. n - 1, m \in T
      PROVE  m + 1 \in T
  <2>1. PICK r \in Procs : Best(r, m)
    BY <1>4
  <2>2. PICK k : k = m + 1
    OBVIOUS
  <2>3. k \in Procs /\ k \in 0 .. k /\ (\A p \in 0 .. k : p \in 0 .. m \/ p = k)
        /\ 0 .. m \subseteq Procs
    BY <1>2, <1>4, <2>2
  <2>4. CASE Len(N[r]) <= Len(N[k])
    <3>1. \A p \in 0 .. m : Len(N[p]) <= Len(N[k])
      BY <1>2, <2>1, <2>3, <2>4
    <3>2. Best(k, k)
      BY <1>2, <2>3, <3>1
    <3>3. QED
      BY <1>2, <1>4, <2>2, <2>3, <3>2
  <2>5. CASE ~(Len(N[r]) <= Len(N[k]))
    <3>1. Best(r, k)
      BY <1>2, <1>4, <2>1, <2>2, <2>3, <2>5
    <3>2. QED
      BY <1>2, <1>4, <2>2, <2>3, <3>1
  <2>6. QED
    BY <2>4, <2>5
<1>5. n \in T
  <2> HIDE DEF T
  <2>1. QED
    BY <1>3, <1>4, UpTo
<1>6. QED
  BY <1>2, <1>5 DEF Leads

LEMMA LongestIs ==
    ASSUME NEW N, Lists(N), Agreeing(N), NEW r, Leads(N, r)
    PROVE  LongestOf(N) = N[r]
<1>1. PICK c : c = CHOOSE l \in Procs : \A p \in Procs : Len(N[p]) <= Len(N[l])
  OBVIOUS
<1>2. LongestOf(N) = N[c]
  BY <1>1 DEF LongestOf
<1>3. c \in Procs /\ (\A p \in Procs : Len(N[p]) <= Len(N[c])) /\ r \in Procs
  BY <1>1 DEF Leads
<1>4. PICK s, t : s = N[c] /\ t = N[r]
  OBVIOUS
<1>5. s \in Seq(Range(s)) /\ t \in Seq(Range(t)) /\ Len(s) <= Len(t) /\ Len(t) <= Len(s)
  BY <1>3, <1>4 DEF Lists, Leads
<1>6. Len(s) = Len(t) /\ Len(s) \in Nat
  BY <1>5
<1>7. \A k \in 1 .. Len(s) : s[k] = t[k]
  BY <1>3, <1>4, <1>6 DEF Agreeing
<1>8. s = t
  BY <1>5, <1>6, <1>7
<1>9. QED
  BY <1>2, <1>4, <1>8

\* one rank gets one more residual
LEMMA LongestGrows ==
    ASSUME NEW N, Lists(N), Agreeing(N), NEW N2, Lists(N2), Agreeing(N2),
           NEW r \in Procs, NEW norm, N2[r] = Append(N[r], norm),
           \A q \in Procs \ {r} : N2[q] = N[q]
    PROVE  \/ LongestOf(N2) = LongestOf(N)
           \/ LongestOf(N) = N[r] /\ LongestOf(N2) = Append(N[r], norm)
<1>1. PICK l \in Procs : Leads(N, l)
  BY OneLeads
<1>2. \A p \in Procs : Len(N[p]) \in Nat
  BY DEF Lists
<1>3. Len(N2[r]) = Len(N[r]) + 1
  BY AppendFacts DEF Lists
<1>4. CASE Len(N[r]) = Len(N[l])
  <2>1. Leads(N, r)
    BY <1>1, <1>4 DEF Leads
  <2>2. Leads(N2, r)
    BY <1>2, <1>3, <2>1 DEF Leads
  <2>3. QED
    BY <2>1, <2>2, LongestIs
<1>5. CASE Len(N[r]) # Len(N[l])
  <2>1. l # r /\ Len(N2[r]) <= Len(N[l])
    BY <1>1, <1>2, <1>3, <1>5 DEF Leads
  <2>2. Leads(N2, l) /\ N2[l] = N[l]
    BY <1>1, <2>1 DEF Leads
  <2>3. LongestOf(N) = N[l] /\ LongestOf(N2) = N2[l]
    BY <1>1, <2>2, LongestIs
  <2>4. QED
    BY <2>2, <2>3
<1>6. QED
  BY <1>4, <1>5

-----------------------------------------------------------------------------
(* The solution file.                                                       *)

\* what can be put in one list: the cells, and a cell with its value or its centre
Items(c) ==
    LET Cells == {<<r, i>> : r \in Procs, i \in Nat}
    IN  Cells \union {<<cell, z>> : cell \in Cells, z \in {c, "x", "y"}}

LEMMA ItemsHas ==
    ASSUME NEW c, NEW r \in Procs, NEW i \in Nat
    PROVE  /\ <<r, i>> \in Items(c) /\ <<<<r, i>>, c>> \in Items(c)
           /\ <<<<r, i>>, "x">> \in Items(c) /\ <<<<r, i>>, "y">> \in Items(c)
<1> DEFINE Cells == {<<p, j>> : p \in Procs, j \in Nat}
<1>1. <<r, i>> \in Cells
  OBVIOUS
<1>2. PICK cell : cell = <<r, i>>
  OBVIOUS
<1>3. Items(c) = Cells \union {<<e, z>> : e \in Cells, z \in {c, "x", "y"}}
  BY DEF Items
<1> HIDE DEF Cells
<1>4. QED
  BY <1>1, <1>2, <1>3

LEMMA CentresAt ==
    ASSUME NEW c, NEW r \in Procs
    PROVE  /\ NumSolved[r] \in Nat
           /\ Centres(r) \in Seq(Items(c)) /\ Len(Centres(r)) = 2 * NumSolved[r]
           /\ \A i \in 1 .. NumSolved[r] : /\ Centres(r)[2 * i - 1] = <<<<r, i>>, "x">>
                                           /\ Centres(r)[2 * i] = <<<<r, i>>, "y">>
<1>1. PICK n \in Nat : n = NumSolved[r]
  BY TimeLoopAssumption DEF Procs
<1>2. PICK u, v, S : /\ u = [i \in 1 .. n |-> <<<<r, i>>, "x">>]
                     /\ v = [i \in 1 .. n |-> <<<<r, i>>, "y">>]
                     /\ S = Items(c)
  OBVIOUS
<1>3. \A i \in 1 .. n : u[i] \in S /\ v[i] \in S
  <2>1. ASSUME NEW i \in 1 .. n
        PROVE  <<<<r, i>>, "x">> \in S /\ <<<<r, i>>, "y">> \in S
    <3>1. i \in Nat
      OBVIOUS
    <3>2. QED
      BY <1>2, <3>1, ItemsHas
  <2>2. QED
    BY <1>2, <2>1
<1>4. [i \in 1 .. n |-> <<u[i], v[i]>>]
        = [i \in 1 .. n |-> <<<<<<r, i>>, "x">>, <<<<r, i>>, "y">>>>]
  BY <1>2
<1>5. PICK s : s = Centres(r)
  OBVIOUS
<1>6. PICK p : p = [i \in 1 .. n |-> <<u[i], v[i]>>] /\ s = FlattenSeq(p)
  BY <1>1, <1>4, <1>5 DEF Centres
<1>7. Pairs(S, p, u, v, n)
  BY <1>3, <1>6 DEF Pairs
<1>8. s = FlattenSeq(p)
  BY <1>6
<1>9. InPairs(S, s, u, v, n)
  BY ONLY n \in Nat, <1>7, <1>8, FlattenPairs
<1>10. QED
  BY <1>1, <1>2, <1>5, <1>9 DEF InPairs

LEMMA SolutionAt ==
    ASSUME NEW c, NEW r \in Procs
    PROVE  /\ Solution(r, c) \in Seq(Items(c)) /\ Len(Solution(r, c)) = NumSolved[r]
           /\ \A i \in 1 .. NumSolved[r] : Solution(r, c)[i] = <<<<r, i>>, c>>
<1>1. PICK n \in Nat : n = NumSolved[r]
  BY TimeLoopAssumption DEF Procs
<1>2. ASSUME NEW i \in 1 .. n
      PROVE  <<<<r, i>>, c>> \in Items(c)
  <2>1. i \in Nat
    OBVIOUS
  <2>2. QED
    BY <2>1, ItemsHas
<1>3. Solution(r, c) = [i \in 1 .. n |-> <<<<r, i>>, c>>]
  BY <1>1 DEF Solution
<1>4. PICK S : S = Items(c)
  OBVIOUS
<1>5. PICK s : s = [i \in 1 .. n |-> <<<<r, i>>, c>>]
  OBVIOUS
<1>6. s \in [1 .. n -> S]
  BY <1>2, <1>4, <1>5
<1>7. s \in Seq(S) /\ Len(s) = n
  BY <1>6
<1>8. \A i \in 1 .. n : s[i] = <<<<r, i>>, c>>
  BY <1>5
<1>9. QED
  BY <1>1, <1>3, <1>4, <1>5, <1>7, <1>8

LEMMA WholeSubSeq ==
    ASSUME NEW S, NEW s \in Seq(S), NEW n, n = Len(s)
    PROVE  SubSeq(s, 1, n) = s
OBVIOUS

\* a row of the file is that of its cell
RowIs(cell, c, x, y, q) == x = <<cell, "x">> /\ y = <<cell, "y">> /\ q = <<cell, c>>

\* every cell stands once in the file, in the order of the mesh, with the value and
\* the centre that its owner gave
LEMMA FileInOrder ==
    ASSUME NEW c, NEW total, total = Placed([p \in Procs |-> Solution(p, c)], NumSolved),
           NEW centres, centres = Placed([p \in Procs |-> Centres(p)], Doubled(NumSolved))
    PROVE  /\ DOMAIN CellsInOrder = 1 .. num_cells
           /\ \A i \in 1 .. num_cells :
                 RowIs(CellsInOrder[i], c, centres[2 * i - 1], centres[2 * i], total[i])
<1>1. PICK S : S = Items(c)
  OBVIOUS
<1>2. PICK n \in Nat \ {0} : n = numprocs
  BY TimeLoopAssumption
<1>3. PICK a : a = [k \in 1 .. n |-> [i \in 1 .. NumSolved[k - 1] |-> <<k - 1, i>>]]
  OBVIOUS
<1>4. PICK q : q = [k \in 1 .. n |->
                       SubSeq([p \in Procs |-> Solution(p, c)][k - 1], 1, NumSolved[k - 1])]
  OBVIOUS
<1>5. PICK x : x = [k \in 1 .. n |->
                       SubSeq([p \in Procs |-> Centres(p)][k - 1], 1, Doubled(NumSolved)[k - 1])]
  OBVIOUS
<1>6. ASSUME NEW k \in 1 .. n
      PROVE  \E r \in Procs : /\ a[k] = [i \in 1 .. NumSolved[r] |-> <<r, i>>]
                              /\ q[k] = Solution(r, c) /\ x[k] = Centres(r)
  <2>1. PICK r : r = k - 1
    OBVIOUS
  <2>2. r \in Procs
    BY <1>2, <2>1 DEF Procs
  <2>3. a[k] = [i \in 1 .. NumSolved[r] |-> <<r, i>>]
    BY <1>3, <2>1
  <2>4. q[k] = SubSeq(Solution(r, c), 1, NumSolved[r])
    BY <1>4, <2>1, <2>2
  <2>5. x[k] = SubSeq(Centres(r), 1, 2 * NumSolved[r])
    BY <1>5, <2>1, <2>2 DEF Doubled
  <2>6. q[k] = Solution(r, c)
    BY <2>2, <2>4, SolutionAt, WholeSubSeq
  <2>7. x[k] = Centres(r)
    BY <2>2, <2>5, CentresAt, WholeSubSeq
  <2>8. QED
    BY <2>2, <2>3, <2>6, <2>7
<1>7. ASSUME NEW k \in 1 .. n
      PROVE  /\ a[k] \in Seq(S) /\ q[k] \in Seq(S) /\ x[k] \in Seq(S)
             /\ Len(q[k]) = Len(a[k]) /\ Len(x[k]) = 2 * Len(a[k])
             /\ \A j \in 1 .. Len(a[k]) :
                   RowIs(a[k][j], c, x[k][2 * j - 1], x[k][2 * j], q[k][j])
  <2>1. PICK r \in Procs : /\ a[k] = [i \in 1 .. NumSolved[r] |-> <<r, i>>]
                           /\ q[k] = Solution(r, c) /\ x[k] = Centres(r)
    BY <1>6
  <2>2. PICK m \in Nat : m = NumSolved[r]
    BY TimeLoopAssumption DEF Procs
  <2>3. PICK b : b = [i \in 1 .. m |-> <<r, i>>]
    OBVIOUS
  <2>4. b \in [1 .. m -> S]
    <3>1. ASSUME NEW i \in 1 .. m
          PROVE  <<r, i>> \in S
      <4>1. i \in Nat
        OBVIOUS
      <4>2. QED
        BY <1>1, <4>1, ItemsHas
    <3>2. QED
      BY <2>3, <3>1
  <2>5. b \in Seq(S) /\ Len(b) = m /\ \A j \in 1 .. m : b[j] = <<r, j>>
    BY <2>3, <2>4
  <2>6. /\ Solution(r, c) \in Seq(S) /\ Len(Solution(r, c)) = m
        /\ \A i \in 1 .. m : Solution(r, c)[i] = <<<<r, i>>, c>>
    BY <1>1, <2>2, SolutionAt
  <2>7. /\ Centres(r) \in Seq(S) /\ Len(Centres(r)) = 2 * m
        /\ \A i \in 1 .. m : /\ Centres(r)[2 * i - 1] = <<<<r, i>>, "x">>
                             /\ Centres(r)[2 * i] = <<<<r, i>>, "y">>
    BY <1>1, <2>2, CentresAt
  <2>8. a[k] = b
    BY <2>1, <2>2, <2>3
  <2>9. /\ a[k] \in Seq(S) /\ Len(a[k]) = m
        /\ \A j \in 1 .. m : a[k][j] = <<r, j>>
    BY <2>5, <2>8
  <2>10. /\ q[k] \in Seq(S) /\ Len(q[k]) = m
         /\ \A j \in 1 .. m : q[k][j] = <<<<r, j>>, c>>
    BY <2>1, <2>6
  <2>11. /\ x[k] \in Seq(S) /\ Len(x[k]) = 2 * m
         /\ \A j \in 1 .. m : /\ x[k][2 * j - 1] = <<<<r, j>>, "x">>
                               /\ x[k][2 * j] = <<<<r, j>>, "y">>
    BY <2>1, <2>7
  <2>12. ASSUME NEW j \in 1 .. m
         PROVE  RowIs(a[k][j], c, x[k][2 * j - 1], x[k][2 * j], q[k][j])
    <3>1. a[k][j] = <<r, j>> /\ q[k][j] = <<<<r, j>>, c>>
      BY <2>9, <2>10
    <3>2. x[k][2 * j - 1] = <<<<r, j>>, "x">> /\ x[k][2 * j] = <<<<r, j>>, "y">>
      BY <2>11
    <3>3. QED
      BY <3>1, <3>2 DEF RowIs
  <2>13. QED
    BY <2>9, <2>10, <2>11, <2>12
<1>8. Alike(S, a, q, x, n)
  <2>1. Len(a) = n /\ Len(q) = n /\ Len(x) = n
    BY <1>2, <1>3, <1>4, <1>5
  <2>2. QED
    BY <1>7, <2>1 DEF Alike
<1>9. CellsInOrder = FlattenSeq(a) /\ total = FlattenSeq(q) /\ centres = FlattenSeq(x)
  BY <1>2, <1>3, <1>4, <1>5 DEF CellsInOrder, Placed
<1>10. /\ CellsInOrder \in Seq(S)
       /\ Aligned(a, q, x, CellsInOrder, total, centres, n)
  BY <1>8, <1>9, FlattenTogether
<1>11. DOMAIN CellsInOrder = 1 .. num_cells /\ num_cells = Len(CellsInOrder)
  BY <1>10 DEF num_cells
<1>12. ASSUME NEW i \in 1 .. num_cells
       PROVE  RowIs(CellsInOrder[i], c, centres[2 * i - 1], centres[2 * i], total[i])
  <2>1. PICK k \in 1 .. n : \E j \in 1 .. Len(a[k]) :
           /\ CellsInOrder[i] = a[k][j] /\ total[i] = q[k][j]
           /\ centres[2 * i - 1] = x[k][2 * j - 1] /\ centres[2 * i] = x[k][2 * j]
    BY <1>10, <1>11 DEF Aligned
  <2>2. QED
    BY <1>7, <2>1 DEF RowIs
<1>13. QED
  BY <1>11, <1>12

-----------------------------------------------------------------------------
(* What rank 0 has gathered.                                                *)

RootHas ==
    /\ DOMAIN gathered = {"recv_count", "Q_cell_total"}
    /\ pc[Root] = "Q_cell_total" => gathered.recv_count = NumSolved
    /\ pc[Root] = "xcen_total" =>
          /\ gathered.recv_count = Doubled(NumSolved)
          /\ gathered.Q_cell_total = Placed([p \in Procs |-> Solution(p, count[Root])], NumSolved)
    /\ pc[Root] \notin {"mpi_finalize", "done"} => file = <<>>

\* what a rank finds in a call that all have entered is what the script asks for
LEMMA RootReceives ==
    ASSUME Shaped, Lockstep, NEW call, call \in {"recv_count", "Q_cell_total", "xcen_total"},
           Collected(Root, call)
    PROVE  \E e : /\ e.call = call /\ e.count = count[Root] /\ Root \in Procs
                  /\ DOMAIN Received(Root, Procs) = Procs
                  /\ \A p \in Procs : Gives(p, e, Received(Root, Procs)[p])
<1>1. PICK script : OnScript(script, infile, posted) /\ InStep(script)
  BY DEF Lockstep
<1>2. Root \in Procs /\ pc[Root] = call /\ Entered(Root, Procs)
  BY TimeLoopAssumption DEF Root, Procs, Collected
<1>3. PICK n : n = Len(posted[Root])
  OBVIOUS
<1>4. posted[Root] # <<>> /\ script[n] = Key(call, count[Root], iter[Root])
  BY <1>1, <1>2, <1>3 DEF InStep, IsAt, InCall, Key
<1>5. n \in Nat \ {0}
  BY <1>2, <1>3, <1>4 DEF Shaped
<1>6. ASSUME NEW p \in Procs
      PROVE  Gives(p, script[n], Received(Root, Procs)[p])
  <2>1. posted[p] \in Seq(Range(posted[p])) /\ Len(posted[p]) >= n
    BY <1>2, <1>3 DEF Shaped, Entered
  <2>2. n \in 1 .. Len(posted[p])
    BY <1>5, <2>1
  <2>3. Gives(p, script[n], posted[p][n].data)
    BY <1>1, <2>2 DEF OnScript, IsOf
  <2>4. QED
    BY <1>3, <2>3 DEF Received
<1>7. script[n].call = call /\ script[n].count = count[Root]
  BY <1>4 DEF Key
<1>8. DOMAIN Received(Root, Procs) = Procs
  BY DEF Received
<1>9. QED
  BY <1>2, <1>6, <1>7, <1>8

\* a step that gathers nothing and ends nothing
GathersNothing(r) ==
    /\ gathered' = gathered /\ file' = file
    /\ pc[r] \notin {"mpi_finalize", "done"}
    /\ pc'[r] \notin {"Q_cell_total", "xcen_total"}

LEMMA MostGatherNothing ==
    ASSUME Shaped, NEW r \in Procs, Step(r)
    PROVE  \/ GathersNothing(r)
           \/ GatherSolution(r) \/ GatherCentres(r) \/ WriteFile(r) \/ Finish(r)
<1> USE DEF GathersNothing, Enter, Shaped
<1>1. CASE Start(r) \/ NormReduced(r) \/ ExplicitUpdate(r) \/ SolutionReceived(r)
  BY <1>1 DEF Start, NormReduced, ExplicitUpdate, SolutionReceived, EnterResidual, SendSolution
<1>2. CASE StartJacobi(r) \/ NoJacobiIteration(r) \/ JacobiIteration(r) \/ JacobiUpdate(r)
  BY <1>2 DEF StartJacobi, NoJacobiIteration, JacobiIteration, JacobiUpdate, SendSolution
<1>3. CASE \/ StartBicgstab(r) \/ NoBicgstabIteration(r) \/ Ax(r)
           \/ Alpha1(r) \/ Ap(r) \/ Alpha(r) \/ As(r)
  BY <1>3 DEF StartBicgstab, NoBicgstabIteration, Ax, Alpha1, Ap, Alpha, As,
              SendSolution, SendOperand, AfterProduct, DotDone
<1>4. CASE Omega1(r) \/ Correct(r) \/ BicgstabIteration(r) \/ BicgstabUpdate(r)
  BY <1>4 DEF Omega1, Correct, BicgstabIteration, BicgstabUpdate, DotDone, SendSolution
<1>5. CASE StartWriting(r)
  BY <1>5 DEF StartWriting
<1>6. QED
  BY <1>1, <1>2, <1>3, <1>4, <1>5 DEF Step

\* and of the others only those of rank 0 gather
LEMMA OnlyRootGathers ==
    ASSUME Shaped, NEW r \in Procs, Step(r), r # Root
    PROVE  gathered' = gathered /\ file' = file
BY MostGatherNothing DEF GathersNothing, GatherSolution, GatherCentres, WriteFile, Finish

LEMMA StepRootHas ==
    ASSUME Shaped, Lockstep, RootHas, NEW r \in Procs, Step(r)
    PROVE  RootHas'
<1>1. Root \in Procs
  BY TimeLoopAssumption DEF Root, Procs
<1>2. CASE r # Root
  <2>1. pc'[Root] = pc[Root] /\ count'[Root] = count[Root]
    <3>1. CASE Posted(r)
      BY <1>1, <1>2, <3>1 DEF Posted, Posts
    <3>2. CASE NormReduced(r) \/ Finish(r)
      BY <1>1, <1>2, <3>2 DEF NormReduced, Finish, Shaped
    <3>3. QED
      BY <3>1, <3>2, StepPosts
  <2>2. QED
    BY <1>2, <2>1, OnlyRootGathers DEF RootHas
<1>3. CASE r = Root
  <2>1. CASE GathersNothing(r)
    BY <1>3, <2>1 DEF GathersNothing, RootHas
  <2>2. CASE GatherSolution(r)
    <3>1. PICK e : /\ e.call = "recv_count" /\ DOMAIN Received(Root, Procs) = Procs
                   /\ \A p \in Procs : Gives(p, e, Received(Root, Procs)[p])
      BY <1>3, <2>2, RootReceives DEF GatherSolution
    <3>2. \A p \in Procs : Received(Root, Procs)[p] = NumSolved[p]
      BY <3>1 DEF Gives
    <3>3. Received(Root, Procs) = NumSolved
      BY <3>2, TimeLoopAssumption DEF Received, Procs
    <3>4. /\ gathered' = [gathered EXCEPT !.recv_count = NumSolved]
          /\ pc'[Root] = "Q_cell_total" /\ pc[Root] = "recv_count" /\ file' = file
      BY <1>3, <2>2, <3>3 DEF GatherSolution, Collected, Enter, Shaped
    <3>5. QED
      BY <3>4 DEF RootHas
  <2>3. CASE GatherCentres(r)
    <3>1. PICK e : /\ e.call = "Q_cell_total" /\ e.count = count[Root]
                   /\ DOMAIN Received(Root, Procs) = Procs
                   /\ \A p \in Procs : Gives(p, e, Received(Root, Procs)[p])
      BY <1>3, <2>3, RootReceives DEF GatherCentres
    <3>2. \A p \in Procs : Received(Root, Procs)[p] = Solution(p, count[Root])
      BY <3>1 DEF Gives
    <3>3. Received(Root, Procs) = [p \in Procs |-> Solution(p, count[Root])]
      BY <3>2 DEF Received
    <3>4. pc[Root] = "Q_cell_total" /\ gathered.recv_count = NumSolved /\ file = <<>>
      BY <1>3, <2>3 DEF GatherCentres, Collected, RootHas
    <3>5. /\ gathered' = [recv_count   |-> Doubled(gathered.recv_count),
                          Q_cell_total |-> Placed(Received(Root, Procs), gathered.recv_count)]
          /\ pc'[Root] = "xcen_total" /\ file' = file /\ count' = count
      BY <1>3, <2>3 DEF GatherCentres, Enter, Shaped
    <3>6. /\ gathered' = [recv_count   |-> Doubled(NumSolved),
                          Q_cell_total |-> Placed([p \in Procs |-> Solution(p, count[Root])],
                                                  NumSolved)]
      BY <3>3, <3>4, <3>5
    <3>7. QED
      BY <3>4, <3>5, <3>6 DEF RootHas
  <2>4. CASE WriteFile(r) \/ Finish(r)
    <3>1. gathered' = gathered /\ pc'[Root] \in {"mpi_finalize", "done"}
      BY <1>3, <2>4 DEF WriteFile, Finish, Enter, Shaped
    <3>2. QED
      BY <3>1 DEF RootHas
  <2>5. QED
    BY <2>1, <2>2, <2>3, <2>4, MostGatherNothing
<1>4. QED
  BY <1>2, <1>3

\* what rank 0 writes
LEMMA FileIs ==
    ASSUME Shaped, Lockstep, RootHas, WriteFile(Root)
    PROVE  file' = [k \in DOMAIN CellsInOrder |->
                       [x |-> <<CellsInOrder[k], "x">>, y |-> <<CellsInOrder[k], "y">>,
                        Q |-> <<CellsInOrder[k], count[Root]>>]]
<1>1. PICK e : /\ e.call = "xcen_total" /\ DOMAIN Received(Root, Procs) = Procs
               /\ \A p \in Procs : Gives(p, e, Received(Root, Procs)[p])
  BY RootReceives DEF WriteFile
<1>2. \A p \in Procs : Received(Root, Procs)[p] = Centres(p)
  BY <1>1 DEF Gives
<1>3. Received(Root, Procs) = [p \in Procs |-> Centres(p)]
  BY <1>2 DEF Received
<1>4. /\ gathered.recv_count = Doubled(NumSolved)
      /\ gathered.Q_cell_total = Placed([p \in Procs |-> Solution(p, count[Root])], NumSolved)
  BY DEF WriteFile, Collected, RootHas
<1>5. PICK centres, total, c :
        /\ centres = Placed([p \in Procs |-> Centres(p)], Doubled(NumSolved))
        /\ total = Placed([p \in Procs |-> Solution(p, c)], NumSolved)
        /\ c = count[Root]
  OBVIOUS
<1>6. file' = [i \in 1 .. num_cells |->
                  [x |-> centres[2 * i - 1], y |-> centres[2 * i], Q |-> total[i]]]
  BY <1>3, <1>4, <1>5 DEF WriteFile
<1>7. /\ DOMAIN CellsInOrder = 1 .. num_cells
      /\ \A i \in 1 .. num_cells :
            RowIs(CellsInOrder[i], c, centres[2 * i - 1], centres[2 * i], total[i])
  BY <1>5, FileInOrder
<1>8. QED
  BY <1>5, <1>6, <1>7 DEF RowIs

-----------------------------------------------------------------------------
(* The ranks and the one program.                                           *)

Everything == Shaped /\ Decided /\ Lockstep /\ RootHas

LEMMA EverythingHolds == Spec => []Everything
<1>1. Init => Everything
  <2>1. SUFFICES ASSUME Init PROVE Everything
    OBVIOUS
  <2>2. Decided
    BY <2>1 DEF Init, Decided, HasDecided, Unsummed, Writing
  <2>3. RootHas
    BY <2>1, TimeLoopAssumption DEF Init, RootHas, Root, Procs
  <2>4. QED
    BY <2>1, <2>2, <2>3, InitShaped, InitLockstep DEF Everything
<1>2. Everything /\ [Next]_vars => Everything'
  <2>1. SUFFICES ASSUME Everything, [Next]_vars
                 PROVE  Everything'
    OBVIOUS
  <2>2. Shaped' /\ Decided' /\ Lockstep'
    BY <2>1, NextKeeps DEF Everything
  <2>3. CASE Next
    BY <2>1, <2>2, <2>3, StepRootHas DEF Next, Everything
  <2>4. CASE UNCHANGED vars
    BY <2>1, <2>2, <2>4 DEF vars, Everything, RootHas
  <2>5. QED
    BY <2>1, <2>3, <2>4
<1>3. QED
  BY <1>1, <1>2, PTL DEF Spec

LEMMA AgreeAlways == Everything => Lists(residual_norm) /\ Agreeing(residual_norm)
BY HistoriesAgree DEF Everything

LEMMA LongestNow == Longest = LongestOf(residual_norm)
BY DEF Longest, LongestOf

\* the sum that MPI_Allreduce returns is one of the sums there may be
LEMMA SumIsNorm ==
    ASSUME Shaped, Lockstep, NEW r \in Procs, NormReduced(r)
    PROVE  Allreduced(r) \in {SumFunction(given) : given \in [Procs -> Shares]}
<1>1. PICK script : OnScript(script, infile, posted) /\ InStep(script)
  BY DEF Lockstep
<1>2. PICK n : n = Len(posted[r])
  OBVIOUS
<1>3. posted[r] # <<>> /\ script[n] = Key("residual_norm", count[r], iter[r])
  BY <1>1, <1>2 DEF NormReduced, InStep, IsAt, InCall, Key
<1>4. n \in Nat \ {0}
  BY <1>2, <1>3 DEF Shaped
<1>5. ASSUME NEW p \in Procs
      PROVE  posted[p][n].data \in Shares
  <2>1. posted[p] \in Seq(Range(posted[p])) /\ Len(posted[p]) >= n
    BY <1>2 DEF Shaped, NormReduced, Entered
  <2>2. n \in 1 .. Len(posted[p])
    BY <1>4, <2>1
  <2>3. Gives(p, script[n], posted[p][n].data)
    BY <1>1, <2>2 DEF OnScript, IsOf
  <2>4. QED
    BY <1>3, <2>3 DEF Gives, Key
<1>6. PICK given : given = [p \in Procs |-> posted[p][n].data]
  OBVIOUS
<1>7. given \in [Procs -> Shares]
  BY <1>5, <1>6
<1>8. Allreduced(r) = SumFunction(given)
  BY <1>2, <1>6 DEF Allreduced, Received
<1>9. QED
  BY <1>7, <1>8

\* rank 0 writes when no rank is ahead of it
LEMMA RootLeads ==
    ASSUME Shaped, Decided, Lockstep, WriteFile(Root)
    PROVE  /\ Leads(residual_norm, Root) /\ Len(residual_norm[Root]) = count[Root] + 1
           /\ count[Root] \in Nat /\ ~Above(Root)
<1>1. PICK script : /\ OnScript(script, infile, posted) /\ InStep(script)
                    /\ Recorded(script, posted, residual_norm)
  BY DEF Lockstep
<1>2. Root \in Procs /\ pc[Root] = "xcen_total" /\ Entered(Root, Procs)
  BY TimeLoopAssumption DEF Root, Procs, WriteFile, Collected
<1>3. PICK n : n = Len(posted[Root])
  OBVIOUS
<1>4. posted[Root] # <<>> /\ script[n] = Key("xcen_total", count[Root], iter[Root])
  BY <1>1, <1>2, <1>3 DEF InStep, IsAt, InCall, Key
<1>5. n \in Nat \ {0} /\ count[Root] \in Nat
  BY <1>2, <1>3, <1>4 DEF Shaped
<1>6. Len(residual_norm[Root]) = count[Root] + 1 /\ ~Above(Root)
  BY <1>2 DEF Decided, HasDecided, Unsummed, Writing
<1>7. ASSUME NEW p \in Procs
      PROVE  Len(residual_norm[p]) <= Len(residual_norm[Root])
  <2>1. Len(residual_norm[p]) \in Nat
    BY DEF Shaped
  <2>2. SUFFICES ASSUME Len(residual_norm[p]) > count[Root] + 1
                 PROVE  FALSE
    BY <1>5, <1>6, <2>1
  <2>3. PICK k : k = count[Root] + 2
    OBVIOUS
  <2>4. k \in 1 .. Len(residual_norm[p]) /\ k - 1 = count[Root] + 1
    BY <1>5, <2>1, <2>2, <2>3
  <2>5. PICK i \in 1 .. Len(posted[p]) : NormAt(script, posted, i, k, residual_norm[p][k])
    BY <1>1, <2>4 DEF Recorded
  <2>6. script[i].count = count[Root] + 1 /\ script[n].count = count[Root]
    BY <1>4, <2>4, <2>5 DEF NormAt, Key
  <2>7. i \in 1 .. n
    BY <1>2, <1>3, <2>5 DEF NormAt, AllPosted
  <2>8. \A l \in 1 .. n : ScriptAt(script, infile, posted, l)
    BY <1>1, <1>2, <1>3 DEF OnScript
  <2>9. i # n
    BY <1>5, <2>6
  <2>10. i \in 1 .. n - 1 /\ n \in 1 .. n /\ n \in Nat
    BY <1>5, <2>7, <2>9
  <2>11. Before(script[i], script[n])
    BY <2>8, <2>10, InOrder
  <2>12. QED
    BY <1>5, <2>6, <2>11 DEF Before
<1>8. QED
  BY <1>2, <1>5, <1>6, <1>7 DEF Leads

\* the last of a history, which is what both tests of the time loop look at
LEMMA TestsAgree ==
    ASSUME Shaped, NEW r \in Procs
    PROVE  March!Above(residual_norm[r]) <=> residual_norm[r] = <<>> \/ Above(r)
BY DEF March!Above, Above, Last

\* a rank that has a new residual makes the one program march, unless another has
\* had it before
LEMMA NormMarches ==
    ASSUME Everything, Everything', NEW r \in Procs, NormReduced(r)
    PROVE  March!March \/ Longest' = Longest
<1>1. PICK N, N2, norm : N = residual_norm /\ N2 = residual_norm' /\ norm = Allreduced(r)
  OBVIOUS
<1>2. Lists(N) /\ Agreeing(N)
  BY <1>1, HistoriesAgree DEF Everything
<1>3. Lists(N2) /\ Agreeing(N2)
  <2>1. (Everything => Lists(residual_norm) /\ Agreeing(residual_norm))'
    BY AgreeAlways, PTL
  <2>2. Lists(residual_norm') /\ Agreeing(residual_norm')
    BY <2>1 DEF Lists, Agreeing
  <2>3. QED
    BY <1>1, <2>2
<1>4. N2[r] = Append(N[r], norm) /\ \A q \in Procs \ {r} : N2[q] = N[q]
  BY <1>1 DEF NormReduced, Everything, Shaped
<1>5. \/ LongestOf(N2) = LongestOf(N)
      \/ LongestOf(N) = N[r] /\ LongestOf(N2) = Append(N[r], norm)
  BY <1>2, <1>3, <1>4, LongestGrows
<1>6. Longest = LongestOf(N) /\ Longest' = LongestOf(N2)
  BY <1>1 DEF Longest, LongestOf
<1>7. CASE LongestOf(N) = N[r] /\ LongestOf(N2) = Append(N[r], norm)
  <2>1. norm \in {SumFunction(given) : given \in [Procs -> Shares]}
    BY <1>1, SumIsNorm DEF Everything
  <2>2. Longest = residual_norm[r] /\ Longest' = Append(Longest, norm)
    BY <1>1, <1>6, <1>7
  <2>3. residual_norm[r] = <<>> \/ Above(r)
    BY DEF Everything, Decided, HasDecided, NormReduced, Writing
  <2>4. March!Above(Longest)
    BY <2>2, <2>3, TestsAgree DEF Everything
  <2>5. UNCHANGED <<infile.tol, file>>
    BY DEF NormReduced
  <2>6. March!March
    BY <2>1, <2>2, <2>4, <2>5 DEF March!March
  <2>7. QED
    BY <2>6
<1>8. QED
  BY <1>5, <1>6, <1>7

\* the file of rank 0 is the one that the one program writes
LEMMA RootWrites ==
    ASSUME Everything, WriteFile(Root)
    PROVE  March!Write
<1>1. Shaped /\ Decided /\ Lockstep /\ RootHas /\ Root \in Procs
  BY TimeLoopAssumption DEF Everything, Root, Procs
<1>2. Lists(residual_norm) /\ Agreeing(residual_norm)
  BY <1>1, HistoriesAgree
<1>3. /\ Leads(residual_norm, Root) /\ Len(residual_norm[Root]) = count[Root] + 1
      /\ count[Root] \in Nat /\ ~Above(Root)
  BY <1>1, RootLeads
<1>4. Longest = residual_norm[Root]
  BY <1>2, <1>3, LongestIs, LongestNow
<1>5. ~March!Above(Longest)
  <2>1. residual_norm[Root] # <<>>
    BY <1>3
  <2>2. QED
    BY <1>1, <1>3, <1>4, <2>1, TestsAgree
<1>6. file = <<>> /\ UNCHANGED <<infile.tol, Longest>>
  BY <1>1 DEF WriteFile, Collected, RootHas, Longest
<1>7. Len(Longest) - 1 = count[Root]
  BY <1>3, <1>4
<1>8. file' = [k \in DOMAIN CellsInOrder |->
                  [x |-> <<CellsInOrder[k], "x">>, y |-> <<CellsInOrder[k], "y">>,
                   Q |-> <<CellsInOrder[k], Len(Longest) - 1>>]]
  BY <1>1, <1>7, FileIs
<1>9. QED
  BY <1>5, <1>6, <1>8 DEF March!Write

LEMMA StepMarches ==
    ASSUME Everything, Everything', [Next]_vars
    PROVE  [March!Next]_(March!marchVars)
<1>1. CASE UNCHANGED vars
  BY <1>1 DEF vars, March!marchVars, Longest
<1>2. CASE Next
  <2>1. PICK r \in Procs : Step(r)
    BY <1>2 DEF Next
  <2>2. infile' = infile
    BY <2>1, StepPosts DEF Everything, Posted, Posts, NormReduced, Finish
  <2>3. CASE NormReduced(r)
    <3>1. file' = file
      BY <2>3 DEF NormReduced
    <3>2. QED
      BY <2>2, <2>3, <3>1, NormMarches DEF March!Next, March!marchVars
  <2>4. CASE ~NormReduced(r)
    <3>1. residual_norm' = residual_norm
      BY <2>1, <2>4, StepPosts DEF Everything, Posted, Posts, Finish
    <3>2. Longest' = Longest
      BY <3>1 DEF Longest
    <3>3. CASE WriteFile(r) /\ r = Root
      BY <3>3, RootWrites DEF March!Next
    <3>4. CASE ~(WriteFile(r) /\ r = Root)
      <4>1. file' = file
        BY <2>1, <3>4, MostGatherNothing
           DEF Everything, GathersNothing, GatherSolution, GatherCentres, WriteFile, Finish
      <4>2. QED
        BY <2>2, <3>2, <4>1 DEF March!marchVars
    <3>5. QED
      BY <3>3, <3>4
  <2>5. QED
    BY <2>3, <2>4
<1>3. QED
  BY <1>1, <1>2

\* Together the ranks do what one program does that has the whole mesh, for any
\* number of ranks and of cells: it goes on while the residual is above the
\* tolerance, and its file has every cell once, with its own centre and its value
\* after the last step.
THEOREM MarchesAsOneProgram == Spec => MarchesAsOne
<1>1. Init => March!Init
  <2>1. SUFFICES ASSUME Init PROVE March!Init
    OBVIOUS
  <2>2. infile.tol \in Int
    BY <2>1, TimeLoopAssumption DEF Init
  <2>3. Longest = <<>>
    <3>1. Lists(residual_norm)
      BY <2>1 DEF Init, Lists
    <3>2. PICK r \in Procs : Leads(residual_norm, r)
      BY <3>1, OneLeads
    <3>3. Agreeing(residual_norm)
      BY <2>1 DEF Init, Agreeing
    <3>4. QED
      BY <2>1, <3>1, <3>2, <3>3, LongestIs, LongestNow DEF Init
  <2>4. QED
    BY <2>1, <2>2, <2>3 DEF Init, March!Init
<1>2. Everything /\ Everything' /\ [Next]_vars => [March!Next]_(March!marchVars)
  BY StepMarches
<1>3. QED
  BY <1>1, <1>2, EverythingHolds, PTL DEF Spec, MarchesAsOne, March!Spec
=============================================================================
