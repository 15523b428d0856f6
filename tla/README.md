# Verification of the parallel-machine branch-and-price solver

The program (`src/src`, `src/include`) minimises the total weighted tardiness of
jobs on identical parallel machines by branch and price: columns are schedules of
one machine, priced over a decision diagram, and branching splits the completion
times of a job. This directory holds TLA+ models of it, TLC configurations and
TLAPS proofs. Paths below are relative to the repository root.

## 1. Inventory

| component | state | operations | correct when |
|---|---|---|---|
| Instance preprocessing (`Instance.cpp`, `Interval.cpp`) | jobs, off, H_max, H_min, intervals, layers | constructor, calculate_H_max_H_min, find_division | intervals partition the horizon; some optimal schedule survives every order and bound |
| Diagram specification (`PricerConstruct.hpp`) | time per layer | getRoot, getChild, min_job | its paths are the schedules preprocessing keeps |
| Decision diagram pricer (`PricerSolverBdd*.cpp`) | nodes, arcs, labels, lp_sol | pricing, evaluate_nodes, filters, split_job_time, check_schedule_set, construct_lp_sol_from_rmp | only arcs of dispensable schedules go |
| Column generation (`Lowerbound.cpp`, `StabilizationWrappers.cpp`) | status, bounds, iterations | build_rmp, compute_lower_bound, solve_pricing | bounds and verdicts hold for the schedules still to be found |
| Stabilisation (`PricingStabilization.cpp`) | eta_in/out/sep, duals, flags | solve, fixing, clone | converges; the Lagrangian bound is a bound |
| Column pool (`Model.cpp`, `Scheduleset.cpp`, `wct.cpp`) | localColPool, columns, age, del | add, grow_ages, delete_*, prune, clone | position i of the pool is column i |
| Branch and bound (`BranchNode.cpp`, `BranchBoundTree.cpp`) | open nodes, bounds, candidates | branch, strong branching, compute_bounds, is_terminal_state | no improving schedule is lost; ends with the optimum |
| Local search (`LocalSearch.cpp`, `Solution.cpp`) | machines, completion times, tables | RVND moves, perturbation, canonical_order | an accepted move has its computed cost |
| Time-indexed and arc-time pricers (`PricerSolverSimpleDP.cpp`, `PricerSolverArcTimeDP.cpp`) | tables over time, arcs between jobs | pricing, evaluate_nodes, LP solution, build_mip | what is priced is best, whatever earlier calls left in the tables; dropped arcs are dispensable |
| ZDD pricers (`PricerSolverZdd*.cpp`) | as the diagram | pricing, fixing | as the diagram |
| Zero-half cuts | cuts | separation | not called |
| Diagram library (`NodeBdd*.hpp`), containers (`util/`) | tables of nodes | build, reduce, sweep | structure is that of the specification |
| Driver, options, statistics, output | parameters, counters | main, parse, print | sequencing |
| Branch-and-bound library, LP solver | external | explore, optimize | modelled as used |

How they interact: `Problem` reads the `Instance`, runs the heuristic (which fills
the root's pool and `opt_sol`), builds the pricer and its diagram, and hands the root
`NodeData` to `BranchBoundTree`. The tree calls `BranchNodeBase::branch`, which clones
`NodeData` (diagram copied, schedules shared), restricts the clones with
`split_job_time` and lets `compute_lower_bound` bound them. `compute_lower_bound`
alternates the linear program, `solve_pricing` (stabilisation, pricing, fixing) and the
clean-up of pool and master. Everything runs in one thread; what is hard is the order of
steps, state shared by nodes or kept across iterations, positions in two containers that
must agree, bounds that are stale when used, and rounding.

`PROJECT.json` lists each hazard at its line with the properties that cover it.

## 2. Plan

1. `NodeBound` (abstract), `ColumnGeneration` (implements it), proofs. *Done.*
2. `ColumnPool`: positions, sharing, ageing. *Done.*
3. `BranchAndBound` over what `NodeBound` allows, proofs. *Done.*
4. `Instance` and `PricerConstruct`: preprocessing against brute force. *Done.*
5. `DecisionDiagram`: the pricer's diagram under its four solvers, and the mixed-integer
   model over its arcs. *Done.*
6. `CanonicalOrder` and `LocalSearch`: the heuristic. *Done.*
7. `Stabilisation`: all four techniques, implementing `NodeBound` as well. *Done.*
8. `TimeIndexed`, `ArcTime` and `TimePricers`: the dynamic programs over time. *Done.*
9. `DiagramTables`: builder, sweeper, reducer and numbering of the diagram library, shown
   to keep the paths and labels that `DecisionDiagram` takes as given. *Done.*
10. Proofs: `Stabilisation`, `ColumnPool`, that the loops end, and of `DecisionDiagram` what
    fixing, filters, branching and `check_schedule_set` keep, and that pricing is exact
    (`PricedIsBest`). *Done.*
11. Proofs: the offset of preprocessing, that its intervals part the horizon, and that it
    yields what the diagram's theorems assume (`Instance`). *Done.*
12. Proofs: the LP solution that is branched on, the mixed-integer model, integrality
    (`DecisionDiagram`). *Done.*
13. Proofs: that the tables' `PendingIsRight` is inductive (`DiagramTables`), the canonical
    order of solutions. *To do.*

Abstract specifications: `NodeBound` (what a bounded node promises the tree) is what
`ColumnGeneration` and `Stabilisation` implement and what `BranchAndBound` assumes of its
nodes.

## 3. Modules

| module | models | state and code |
|---|---|---|
| `NodeBound` | what `compute_lower_bound` promises | `wanted`, `bound`, `verdict`, `value` |
| `ColumnGeneration` | `build_rmp`, `compute_lower_bound`, `solve_pricing`, `PricingStabilizationStat` | `dd` is the diagram as the set of its paths, `pool` = localColPool, `rmp` = the master's columns, `etaIn`, `etaOut`, `continueLP`, `prevFix` as in the code; one action per stretch of code between two calls of the linear program or the pricer |
| `Stabilisation` | the classes of `PricingStabilization.cpp`, within the loop above | points `piOut`, `piIn`, `piSep`, bounds `etaOut`, `etaIn`, factors `alpha`, `alphabar`, `k`, flags `hasCenter`, `center`, `misprice`, `continueLP`; one action per turn of a mispricing loop |
| `ColumnPool` | pool and master by position, ages, flags, clones | `pool[n]`, `master[n]`, `zero[n]` per node; `age`, `del` per shared ScheduleSet |
| `BranchAndBound` | `BranchNodeBase`, and the library's tree as it is used | `open`, `cur`, `cands`, `best`, `gain`, `queue`; a node is the completion times its diagram leaves each job |
| `Interval` | `compare_edd` | the order of jobs within an interval |
| `Instance` | reading, horizon, least load, intervals, layers | `jobs`, `off`, `hmax`, `hmin`, `intervals`; an action per job read and per cut |
| `PricerConstruct` | the specification the diagram is built from, and costs of schedules | getRoot, getChild, min_job |
| `DiagramTables` | `NodeTableEntity`, `DdBuilder`, `DdSweeper`, `DdReducer`, `compressBdd`, `init_table`, `remove_edges` | `table` = rows of nodes, `pending` = the branches a level still waits for, `sweeper`, `reducer`; one action per level constructed or reduced |
| `DecisionDiagram` | `PricerSolverBdd` and the solvers simple, cycle, backward_simple, backward_cycle | `dd` = root and the 0- and 1-arcs of the nodes; `labels` = the forward labels the nodes keep; `UB`, `sol`, `lp` as in the solver; `targets` is history |
| `TimeIndexed`, `ArcTime` | the recursions, graphs and models of `PricerSolverSimpleDp` and `PricerSolverArcTimeDp` | operators over tables indexed by time, or job and time |
| `TimePricers` | a node's sequence of calls of either | `table`, `after` = what the calls before left in the two tables; `sol`, `bounds`, `lp`, `model` = the last results |
| `CanonicalOrder` | `Sol::canonical_order` | the queues Q and Q_in, the interval `u_it`, the completion times |
| `LocalSearch` | `Problem::heuristic`, `LocalSearchData`, the moves of `Sol` | `sol`, the tables `W` and `g`, `cur` and `best` = sol and best_sol of the heuristic |
| `Preprocessed` | instances as `Instance` leaves them | for the MC modules |

`MC*` modules give the constants their values; `*Proofs` modules and `FiniteSums` hold the
theorems and lemmas.

Composition: `CanonicalOrder`, `DecisionDiagram` and the time pricers use the operators of
`Interval`, `PricerConstruct` and (through `Preprocessed`) `Instance`; `LocalSearch`
instantiates `CanonicalOrder`, `TimePricers` instantiates `TimeIndexed` and `ArcTime`, and
the specifications `DiagramTables` builds are, among others, those of `PricerConstruct`.
`BranchAndBound` uses of a bounded node what `NodeBound` states and `ColumnGeneration` and
`Stabilisation` are shown to implement.

What the models abstract from:

* In `ColumnGeneration` the linear program is the set of its basic solutions (`Basic`):
  over a set of columns the solver returns one of the cheapest it supports. Costs are
  integers in ticks, with a unit of cost and the tolerance ETA_DIFF as numbers of ticks,
  so that rounding and the stopping tests are those of the code. Doubles are otherwise
  exact.
* In `ColumnGeneration` fixing and the filters may remove any paths as long as those of
  better schedules stay; that the real ones do so is what `DecisionDiagram` checks and
  `PricingProofs` proves, on the arcs.
* `Stabilisation` has numbers where `ColumnGeneration` has sets: the rows of the master
  are taken together, so that there is one dual, the Lagrangian function is piecewise
  linear in it, and points, bounds, subgradients and smoothing factors (in tenths,
  rounded either way) are computed as the code computes them. In one dimension the
  direction of the hybrid step is forward or backward; either is allowed.
* In `BranchAndBound` column generation may return anything `NodeBound` allows, and branching
  may derive any candidates from a fractional solution, at most one of each job, in any
  ranking; costs are integers, so that a child's LP above tw - 1 is a bound of tw (`Fathom`).
* `DecisionDiagram` names a node by its layer and time and keeps only nodes with a 1-arc:
  rows, positions and renumbering are in `DiagramTables`. A node's list of states,
  the hash table that finds equal ones and the memory pools are a sequence without
  duplicates there.
* `Mutant` operators are variants of a definition with a plausible mistake; nothing in a
  specification uses them.

## 4. Runs

| run | question | bounds |
|---|---|---|
| `cg` | does a node end by its stopping tests with a sound bound or verdict, master and pool in step, as `NodeBound` promises? `TypeOK`, `MasterMatchesPool`, `InfeasibleIsSound`, `ObjectiveIsBound`, `ConvergesBeforeLimit`, `ImplementsNodeBound` | four columns, six basic solutions; every non-empty pool and every diagram over them; `MaxIter` 12, which the run shows is never reached; `RcRate` 2 |
| `cg_empty_pool` | ... and if the pool is empty? *Violated.* `MasterMatchesPool` | as `cg` |
| `stab` | does every technique give up only at the optimum, keep what is wanted, end, and keep the promise of `NodeBound`? `FixingKeepsWanted`, `GivesUpOnlyAtOptimum`, `ConvergesBeforeLimit`, `ImplementsNodeBound` | five columns for three jobs on two machines, duals 0..24; every non-empty pool and diagram; `MaxIter` 12, never reached; nodes below the root with cloned techniques |
| `pool` | do positions stay aligned, and paths in the pool, whatever is deleted in root or child? `PositionsAligned`, `PathsAreKept` | a root and a child, three paths, five schedule objects, retirement age 1 |
| `bb` | is no improving schedule lost, with and without strong branching? `TypeOK`, `ImprovementIsLive`, `NodeBoundsAreStale`, `FindsOptimum` | two jobs, three times, three schedules, `MaxCand` 2: up to one candidate of each job is probed, in any order; every answer of column generation, every order of exploration |
| `instance` | do horizon, least load, intervals and layers keep an optimal schedule? `OffsetIsExact`, `OptimumHasPaths` | every instance of two jobs with small data, families of three and four jobs, one and two machines, against brute force |
| `dd` | are only dispensable arcs removed, does the mixed-integer model keep every better schedule, is pricing exact, does branching make progress? `ImprovingSchedulesStay`, `ModelAdmitsImproving`, `GivenUpOnlyIfNothingLeft`, `PricedIsBest`, `CheckIsExact`, `FractionalHasCandidate`, `IntegerHasSchedule`, `BranchingIsRespected`, `BranchingCutsSolution` | three preprocessed instances, four solvers, two dual values a job, every order of pricing, fixing, improving, branching; LP solutions in halves |
| `tables` | do building, sweeping, numbering and reducing keep the paths, jobs and times? `LanguageIsKept`, `LabelsAreStates`, `TableIsCompact`, `PendingIsRight` | two instances, the empty one, and some thousand specifications of four and five levels with up to two dead states and arcs that skip a level; two rounds of reduction |
| `dp` | is pricing over time exact, are LP solutions schedules, does the arc model admit an optimum? `PricedIsBest`, `RecursionsAgree`, `LpIsSchedule`, `ArcModelAdmitsOptimum` | four instances of three jobs on one and two machines, two dual values a job, two calls in every order |
| `canonical` | does reordering keep the jobs, the cost and end? `QueuesAreRight`, `NotWorse`, `Terminates` | four jobs, some sixty data sets on one and two machines, every sequence of every subset of the jobs |
| `ls` | are moves priced as they turn out, and are jobs kept? `PricesAreReal`, `JobsAreKept` | six jobs on two machines, nine on three; all fifteen moves in every order, one perturbation a round of two of the four kinds, one round |
| `ls_lost` | does the heuristic's solution contain every job? *Violated.* `BestSolutionIsComplete` | six jobs on two machines |

Why these bounds reach the interesting cases: each property has a mutant in
`PROJECT.json`, a plausible mistake in one definition, that the same run finds. In `cg`
the tolerance is smaller than the unit and the master may stop above the bound; one
column runs a job twice, so that the filters may take a priced column; pools start with
columns the diagram lacks. In `stab` the best dual lies inside the grid, mispricing goes
on to the master's duals, and the LP bound is not always the cost of a solution. In `pool`
two pairs of objects are the same schedule, and one deletion with several gaps is enough to
shift positions. In `instance`, families of four jobs have special pairs, whose intervals
are cut. The instances of the runs after it have none (`IsUncut`), so that these runs do not
exercise cut intervals. In `bb` the second probe's pair replaces the first one or is thrown
away, by score or because a child is fathomed; the mutant `Keep_Half`, which replaces one node
of the two only, loses a schedule there. `NumStrBrCandidates` is larger than `MaxCand`, but
probes differ only in whether they come first, replace a pair or do not. In `tables` the
sweeper's ratio is 6 instead of 20: these tables have fewer than 20 nodes, so that with 20 they
would be swept as soon as a node dies, and with 6 dead nodes also gather first. With `PricerConstruct` no branch leads to the 0-terminal, and
nothing is ever swept; the library is checked for specifications whose branches do, and
what the solver reads off the rows (`LabelsAreStates`) for those whose branches do not. In
`dp` the second call starts from the tables the first one left; that is where the arc-time
pricer reads entries it has not computed.

What the violated runs show:

* `cg_empty_pool`: with an empty pool (`--no_heuristic`) `compute_lower_bound` adds the
  schedules of `opt_sol` to the pool after the master was built; `if(!RMP)` is never
  true. The assertions that compare the two counts fail, and positions address the wrong
  columns.
* `ls_lost`: the local search may fill a machine past the horizon; `canonical_order` then
  takes a job out of the last interval and finds no interval to put it in. The heuristic's
  solution, and with it the first upper bound, lacks a job.

Fairness. The program is one thread and its loops do not block: weak fairness of the
whole next-state relation is what running it means. `FindsOptimum`,
`ConvergesBeforeLimit` (an invariant) and `Terminates` rest on nothing more. In
particular no fairness chooses among pricing outcomes or open nodes. Deadlock is checked
but in `dd`, `pool` and `tables`, whose callers may stop: with a diagram that is given up,
after the bounded number of relaxations, or of reductions.

## 5. Proofs

| module | theorem | for every ... |
|---|---|---|
| `ColumnGenerationProofs` | `TypeCorrect` (`TypeOK`), `InfeasibleSound` (`InfeasibleIsSound`), `ObjectiveBound` (`ObjectiveIsBound`), `MasterAligned` (`MasterMatchesPool`), `Refinement` (`ImplementsNodeBound`), `LoopIsBounded`, `Converges` (`ConvergesBeforeLimit`) | set of columns, of basic solutions, tolerance |
| `StabilisationProofs` | `TypeCorrect`, `FixingIsSafe` (`FixingKeepsWanted`), `GivingUpIsRight` (`GivesUpOnlyAtOptimum`), `Refinement` (`ImplementsNodeBound`), `LoopIsBounded`, `Converges` (`ConvergesBeforeLimit`) | technique, set of columns, number of jobs and machines, grid of duals |
| `ColumnPoolProofs` | `TypeCorrect`, `Aligned` (`PositionsAligned`), `PathsKept` (`PathsAreKept`) | number of nodes, paths, schedule objects and rounds |
| `BranchAndBoundProofs` | `TypeCorrect` (`TypeOK`), `NothingIsLost` (`ImprovementIsLive`), `OptimalWhenDone`, `StaleBounds` (`NodeBoundsAreStale`), `Improves` | set of jobs, times and schedules |
| `DiagramProofs` | `DiagramCorrect`, `BranchingRespected` (`BranchingIsRespected`) | preprocessed instance, dual, order of calls |
| `PreprocessingProofs` | `PreprocessingCorrect`, `OffsetIsAlwaysExact` (`OffsetIsExact`), `HorizonIsParted`, `InstanceIsLeft` | file of jobs with positive lengths and weights, number of machines |
| `PricingProofs` | `PricingCorrect`, `ImprovingSchedulesKept` (`ImprovingSchedulesStay`), `CheckIsAlwaysExact` (`CheckIsExact`), `GivenUpForNothing` (`GivenUpOnlyIfNothingLeft`), `LabelsAlwaysFit`, `PricedIsAlwaysBest` (`PricedIsBest`), `SolutionCorrect`, `BranchingFound` (`FractionalHasCandidate`), `BranchingCuts` (`BranchingCutsSolution`), `ModelAdmitsAll` (`ModelAdmitsImproving`), `IntegerIsSchedule` (`IntegerHasSchedule`) | as before, and solver, and LP solution in halves |

`FiniteSums` holds the lemmas about finite sets, folds and recursive functions all of them
use. A definition by `f[n \in N] == ... f[D.lo[n]] ...` or by a fold is a CHOOSE; that a
function as described exists is proved once, by induction over the rank of the argument
(`RecursionIsDefined`, `FoldIsDefined`, `PassIsDefined`, `IterationIsDefined`), and what it
computes follows by a second one. Either induction is brought down to the least element of
a set of numbers (`LeastElement`), since the library's induction theorems, which take an
operator, cannot be used here.

**Column generation.** The inductive invariant `IInv` adds to the type invariant

* `BoundInv`: the columns of every wanted schedule are still in the diagram, and eta_in is
  a bound on its cost. Fixing keeps the first by what it may remove, given that the
  bound the tree will prune by is the one it was fixed by; a Lagrangian bound over the
  diagram keeps the second because of the first (`LagrangianBound`).
* `MasterInv`: the LP solution is over the master's columns and eta_out is its cost, which
  ties the stopping test to the value reported.
* `VerdictInv`: the status while the loop runs, without which the last step cannot tell
  what it overwrites.

When the loop ends, either the bound has reached the incumbent or the diagram is empty
(`NothingAboveUB`, `NothingInEmptyDiagram`), and nothing is wanted; or the master is
within the tolerance of the bound. The assumptions are `ColAssumption`,
`NumberAssumption` and `BasicAssumption` of the module: integral solutions have integral
cost and the artificial columns of `build_rmp` cost more than the incumbent. `MasterAligned`
supposes that no pool is empty at the start: with one it is false, see `cg_empty_pool`.

**That the loops end.** `LoopIsBounded` bounds the number of rounds by
(c + 1)(c + 3) for c columns: in each round a path leaves the diagram for good, or a
column joins the master, or the tolerance test is one round away (`WorkOf`: what is left
of the diagram counts c + 3 times, what is missing from the master once). A column that has
lost its path and joins the master all the same is cleaned away in the round after and
could come back; it cannot, since it is no path any more. For column generation this
supposes `NoCoincidence`: no master costs exactly the tolerance more than an integer. At
equality `has_cols` goes on while `continueLP` adds nothing; for the doubles of the program
that is a coincidence. `Converges` says that an iteration limit above the bound is not met.
It is a result about termination and no practical limit: with as many columns as there are
paths the bound is far above `NB_CG_ITERATIONS` (1 000 000).

**Stabilisation.** `IInv` has the same parts, with numbers for sets, and says in addition
that a technique has given up only where no path has negative reduced cost at the master's
own duals: a turn of the mispricing loop that finds nothing is the last one only if the
factor it priced with, `alpha` or `alphabar` by what `misprice` was before, is 0, and then
the point priced is the master's.

**Column pool.** `PositionsAligned` is inductive once pools are known to be sequences and
once it is known that a node that is not there yet has no schedules (`NoneYet`).
`remove_if` on the pool and `delete_cols_array` on the master are two passes over two
sequences; that they drop the same positions is shown for the positions kept (`KeysType`,
`CleaningAligned`). `PathsAreKept` holds because ages never lead to a deletion: the loop's
status is never the `GRB_OPTIMAL` it is compared with.

**Branch and bound.** The invariant says of each node whose bounds are known that they rule
out nothing better than the tree's incumbent (`Sound`), of the candidate pair strong
branching keeps that it covers the node (`Covers`), and of the incumbent a node carries
that it is not ahead of the tree's. The theorems assume `ScorePositive`, which the product
and the weighted scores have by their EPS; the minimum has not: with two children that do
not improve no pair is kept.

**Preprocessing.** `FileAssumption` says that the file's processing times and weights are
positive and its due dates not negative. The invariant has a part for each phase. While
the file is read the offset is the sum of what the raised due dates cost (`ReadFits`);
`OffsetIsAlwaysExact` adds that sum to that of the tardiness, job by job
(`RaisedDueDate`, `SumOfAdded`). While the horizon is divided the intervals found and those
still to be divided are one chain from 0 to H_max (`DivisionFits`), and a job fits in the
first; that is so because no due date is below a processing time, H_max is not below the
longest job, and a cut lies a job's length behind the one before (`CuttingFits`,
`CutFacts`). So the intervals part the horizon (`HorizonIsParted`), and the layers of a job
are for disjoint intervals, in order, which is the hypothesis `DiagramAssumption` of the
next two modules (`InstanceIsLeft`). The jobs are sorted by insertion; that the result has each job
once, whatever the comparison, is `SortingIsOrder`. That the intervals and their orders
keep an optimal schedule (`OptimumHasPaths`) is not proved: it is an exchange argument over
schedules of any length.

**Decision diagram.** Everything is for every set of `Instances` that satisfies
`DiagramAssumption`: jobs have a length, the first layer's job can run at time 0, and the
layers of one job are for one interval after the other; preprocessing makes them so
(`InstanceIsLeft`). `IsDiagram` says
that 0-arcs keep the time and 1-arcs add the job's length, towards later layers, and that
every node's job completes in its interval. It is kept by building (`BuiltFacts`) and by
`Compress`, of which all filters consist (`CompressFacts`). On it rest

* `DiagramInduction`, induction from the terminal upwards, and `PathInduction`, along one
  path downwards;
* what the filters keep. A filter removes a set of 1-arcs; a path that uses none of them is
  still one (`AvoidingPathStays`), and no path is new (`CompressAddsNoPath`). A path that
  runs each job once and at least for H_min uses no arc `cleanup_arcs`, `topdown_filtering`
  or `bottum_up_filtering` takes (`CleanupKeeps`, `TopdownKeeps`, `BottomUpKeeps`): below
  an arc that cannot reach H_min none ends, and a job that is on every path above or below a
  node cannot be repeated there;
* `BranchingRespected`. Its invariant (`DiagramInv`) adds that no arc skips a node that
  could be used at its end (`Skips`): a 1-arc ends at the first later node of the time it
  leads to and of another job. Building gives it and `Compress` keeps it (`CompressSkips`); the walks
  below need it.

**Pricing and fixing** (`PricingProofs`). Labels are the two best ones for different jobs,
or a single one. `Serves(P, v, j)` says that a pair P has a label of at most v, and one for
another job than j besides; it is what a path of value v that goes on with job j needs. The
proof shows, for a path that runs each job once,

* that the pairs of every node it passes serve the value it has there, in a pass from the
  root (`ForwardServes`: a row is folded over times and rows are folded over layers, and
  a node's labels are complete once all nodes before it are done, `PassedRows`) as from the
  terminal (`BackwardServes`), whatever old labels the pass started from;
* hence that the best label is at most the value of every such path (`BestIsLeast`) and the
  bound through a node's 1-arc at most the value of each that uses it (`ThroughIsLess`);
* that the values of a schedule's machines add up to its cost less the duals (`PlanValue`,
  by `SumOfParts`), so that an arc one of them uses is removed only if the schedule costs at
  least the incumbent (`FixingSpares`), also with the last bit `Exceeds` leaves to
  backward_cycle.

`PricingInv` adds to `DiagramInv` that labels are stored for the nodes that are left, that
duals are those of the jobs, that the schedules still to be found are ones, and the
property itself. `HugeAssumption` says that no path's value comes near the value that stands
for infinity. With stale labels the forward pass still serves every path: the old labels it
starts from make its values smaller and fixing weaker, never wrong.

`CheckIsAlwaysExact` shows that the walk of `check_schedule_set`, which takes the 1-arc
wherever the next job can start, misses no path: the intervals in which a job fits at a time
are disjoint (`JobIsTaken`). `GivenUpForNothing`: a better schedule still has a node for
each job, and nodes of different jobs are in different rows (`RowsForJobs`).

**The column priced** (`PricedIsAlwaysBest`). That no path of a machine is better follows
from what the labels serve. That the label priced is one of a path, and worth what it says,
needs the converse: what every label is. `RealIn(P, S)` says that the labels of a pair that
are for a path at all are in S, and that there is no second one without a first. S is

* `Partial` for a forward pass: the label's jobs are the beginning of a path of the diagram
  whatever path from the node completes it, its value is what that path has there, its
  job is the last one, and for the cyclic solvers no job follows itself. `ForwardPartial`
  shows this for passes that start from no old labels. The difficulty is in the cyclic solver's
  0-arcs: `JoinLow` compares some of the jobs of the four labels that meet, not all, and is
  right because what is at a node before the 0-arc to it is followed came by 1-arcs that
  passed the parent by, and those are of the parent's job alone (`IsTold`, `StepIsTold`).
* `Ending` for the backward recursions: the jobs are a path from the node, and the value is
  what any path that ends with them adds there (`BackwardEnding`).

Both need that no label is given up for one that stands for no path: `Bounded` limits a
label at a node by the number of layers above it (`ForwardBounded`, for stale labels too), and
`HugeAssumption` keeps that limit below infinity. `BestInv` adds to `PricingInv` that the
labels stored keep to it, so that a second label is of no path when the first is not, and
labels that are not stale are none.

**The solution branched on** (`SolutionCorrect`). `SolutionInv` says what the tree knows of
an LP solution: its columns are paths of the diagram it is branched on with, they have at
most `Unit` a machine between them, and each job is covered by at least one. Time by time and
path by path are two ways to add up the same units (`SumOfPairs`), so each job has a whole
unit over its completion times.

* `BranchingFound`: where a node carries some of its job but less than a unit, the job
  has a second completion time, and by the last of them all of it is done, which is
  more than the 80% that `branch()` asks for. So a middle time exists, and "no branching
  found" is never reached.
* `BranchingCuts`: the middle time lies between two completion times of columns in the
  solution, and either child excludes one of them.

The values of the LP solution are multiples of 1/`Unit`, and `Unit` is 2: these theorems
are about solutions in halves, over any instance, diagram and number of columns.

**The mixed-integer model** (`ModelAdmitsAll`). While nothing is branched, the machines of a
schedule better than the incumbent are paths (`ImprovingSchedulesKept`); those without
jobs take 0-arcs all the way. A path's arcs are one route from the root to the terminal,
so that what enters a node leaves it, each job has one 1-arc among all of them, and the
costs of the arcs are those of the jobs at their completion times.

**Integrality** (`IntegerIsSchedule`). `construct_lp_sol_from_rmp` calls a solution integer
when no 1-arc carries some flow below one. Columns may be fractional nevertheless, and three
of one half each may share an arc, which then carries one and a half. Among such columns
there need not be m that do all jobs. What there always is, is a schedule over the same
1-arcs that costs no more, and that is what `IntegerHasSchedule` says; it may do a job
twice, as the master's rows allow. The argument is that

* padded with idle machines, the columns are a flow of twice m through the diagram
  (`PaddedFlow`), at the cost of the solution (`PaddedCost`);
* the arcs that carry an odd number form a graph in which every node has an even degree, so
  they can be turned such that each node has as many in as out (`OrientationExists`, by making
  one edge of two that meet). Rounded up where an arc was left as it is and down where
  it was turned, half of the flow is a flow of m, and so is the rest (`FlowHalves`); the
  cheaper of the two costs at most half (`HalfTheFlow`);
* an arc that carried one or more carries something in either, so that every job is still
  done, and a flow of m is m paths (`FlowIsPaths`, one path at a time).

Invariants were checked by TLC on the runs before they were proved.

## 6. What is only model-checked, and what is not modelled

Only model-checked: everything under fairness (`FindsOptimum`, `Terminates`), since liveness
and ENABLED are out of the prover's reach; of `Instance` that an optimal schedule is kept (`OptimumHasPaths`); and the modules
`DiagramTables`, `TimePricers`, `CanonicalOrder` and `LocalSearch`.
Whether the local search ends is not checked: it follows from `PricesAreReal` as long as
the tables are those of the sequences at hand.

Not modelled:

* Moves of the local search that read outside a machine's jobs, or lists built for
  another move: the model stops in the state `beyond`. The hazards name the lines.
* What a forward solver returns when it starts from stale labels (below): `PricedIsBest`
  excepts it, the other properties of `dd` do not.
* The ZDD pricers. What they return is undefined: nodes index the LP solution by keys that
  stay -1, labels are given no job and no node, `BackwardZddSimple` ignores the duals, and
  `init_table` reads `ordered_jobs_new` out of range. They are not the default.
* `build_mip` of the time-indexed pricer: its variables are bounded by `take`, which is
  never set (line 67), its rows count p + 1 starts and their first index wraps below zero.
  No schedule satisfies it, and nothing reads its result.
* `generate_cuts` and with it the zero-half cuts, `delete_unused_rows`,
  `grab_integer_solution`, `estimate_lower_bound`, `update_duals`, `remove_constraints`,
  `check_infeasible_arcs`, `equivalent_paths_filtering`, `make_schedule_set_feasible`; of
  the diagram library subsets, ZDD and QDD reductions, merging states and `stretchBottom`:
  no callers. The body of `remove_layers` is commented out.
* The hash table, pool and list classes of `util/`, but for what the builder relies on.
* Farkas pricing: the artificial columns keep every master feasible.
* The branch-and-bound library and the linear program solver, whose sources are not in
  the repository, beyond what their callers rely on.
* Printing, statistics, option parsing, graph output, time limits.

Met while modelling, without a run of their own:

* Columns past retirement age are never deleted: the test at `Lowerbound.cpp:500` compares
  the node's status with a constant of the solver.
* `solve_pricing` fixes arcs at the new stability centre and adds the column priced before
  without checking it. If its path is gone, `construct_lp_sol_from_rmp` walks it to the
  terminal along other arcs and leaves its value there.
* The tables of the local search are those of a rejected solution when the next
  perturbation leaves a machine alone; a move is taken that makes the solution worse.
* `evaluate_forward` resets the labels of all rows but the root's. Nodes that share it after
  reductions keep old labels, and the solvers simple and cycle may price wrongly.
* `check_schedule_set` of the arc-time pricer accepts every schedule.
* `-R`, "Don't apply reduce cost fixing." (`src/include/Parms.h:44`), does not reach the
  second half of `solve_pricing`.
* The root reports a bound above the incumbent when fixing has removed the incumbent's
  columns.
* Insertions into another machine are priced from the wrong suffix (`LocalSearch.cpp`,
  `B3_1_`) and improving ones may be missed, and they never go behind the last but one
  place.
