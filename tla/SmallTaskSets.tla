--------------------------- MODULE SmallTaskSets ---------------------------
(***************************************************************************)
(* The task sets the model-checking configurations range over: every       *)
(* assignment of a period, a duration that fits it and a constraint to     *)
(* each task, with the hyperperiod calculateHiperperiod computes.          *)
(***************************************************************************)
EXTENDS Integers, FiniteSetsExt

CONSTANTS Tasks, Periods, Constraints

Parameters ==
  {p \in [period : Periods, duration : 1..Max(Periods), constraint : Constraints] :
     p.duration <= p.period}

Lcm(S) == Min({n \in 1..ProductSet(S) : \A m \in S : n % m = 0})

TaskSetOf(f) ==
  [period |-> [t \in Tasks |-> f[t].period],
   duration |-> [t \in Tasks |-> f[t].duration],
   constraint |-> [t \in Tasks |-> f[t].constraint],
   hiperperiod |-> Lcm({f[t].period : t \in Tasks})]

(* The demand of a hyperperiod, in percent of its length.                  *)
Utilization(ts) ==
  (100 * MapThenSumSet(LAMBDA t : ts.duration[t] * (ts.hiperperiod \div ts.period[t]), Tasks))
    \div ts.hiperperiod

AllTaskSets == {TaskSetOf(f) : f \in [Tasks -> Parameters]}

(* One of each class of task sets that differ by the names of the tasks.   *)
Rank(p) == (p.period * 100 + p.duration) * 100 + p.constraint
UnnamedTaskSets ==
  {TaskSetOf(f) : f \in {g \in [Tasks -> Parameters] :
                           \A t, u \in Tasks : t < u => Rank(g[t]) <= Rank(g[u])}}
=============================================================================
