------------------------ MODULE AdvancedMinimizerProofs ------------------------
(***************************************************************************)
(* Proofs about AdvancedMinimizer: for every call, what is returned is the *)
(* function, none of its terms can be left out, and it is never worse than *)
(* the minterms or the exact cover.  The satisfiability search of Dpll,    *)
(* which prunes the cover, comes first.                                    *)
(***************************************************************************)
EXTENDS AdvancedMinimizer, ExactCoverProofs

----------------------------------------------------------------------------
(* The satisfiability search of Dpll: its types, and that it never loses a *)
(* model.  The steps are stated for any formula whose literals are about   *)
(* its variables, so that callers that build their own formulas can use    *)
(* them.                                                                   *)

\* The literals of a clause are pairs of a variable and a sign.
LEMMA ClauseLiterals ==
    ASSUME SatTypeOK, NEW i \in 1..Len(formula.clauses), NEW l \in formula.clauses[i]
    PROVE  /\ l[1] \in 1..formula.vars
           /\ l[2] \in Signs
           /\ assigned[l[1]] \in Values
           /\ l = <<l[1], l[2]>>
BY DEF SatTypeOK, WellFormed, LiteralsOf

\* is_satisfiable starts with types right and no model lost, and decides a formula
\* without variables by its clauses alone.
LEMMA SolveInv ==
    ASSUME NEW f, WellFormed(f), Solve(f)
    PROVE  SatInv'
<1>1. SatTypeOK'
  <2>1. /\ formula' = f /\ f.vars \in Nat /\ f.clauses \in Seq(SUBSET LiteralsOf(f.vars))
        /\ f = [vars |-> f.vars, clauses |-> f.clauses]
        /\ assigned' = [v \in 1..f.vars |-> 0]
        /\ clauseNo' = 1 /\ changed' = FALSE /\ untried' = <<>>
        /\ sat' \in {"propagate", "sat", "unsat"}
    BY DEF Solve, WellFormed, Unassigned
  <2>2. formula' \in [vars : Nat, clauses : Seq(SUBSET LiteralsOf(formula'.vars))]
    BY <2>1
  <2>3. assigned' \in [1..formula'.vars -> Values]
    BY <2>1 DEF Values
  <2>4. clauseNo' \in 1..(Len(formula'.clauses) + 1)
    BY <2>1
  <2>5. untried' \in Seq([1..formula'.vars -> Values])
    BY <2>1
  <2>6. QED
    BY <2>1, <2>2, <2>3, <2>4, <2>5 DEF SatTypeOK, WellFormed
<1>2. PassSettles'
  BY DEF Solve, PassSettles
<1>3. SearchKeepsAModel'
  <2>1. ASSUME sat' = "propagate", NEW m \in [1..formula'.vars -> Signs]
        PROVE  \E a \in Trials' : Extends(m, a)'
    <3>1. assigned' = [v \in 1..f.vars |-> 0] /\ formula' = f
      BY DEF Solve, Unassigned
    <3>2. Extends(m, assigned)'
      BY <3>1 DEF Extends
    <3>3. QED
      BY <3>2 DEF Trials
  <2>2. ASSUME sat' = "sat" PROVE IsModel(assigned)'
    <3>1. f.vars = 0 /\ \A i \in DOMAIN f.clauses : f.clauses[i] # {}
      BY <2>2 DEF Solve, WellFormed
    <3>2. \A i \in DOMAIN f.clauses : FALSE
      BY <3>1 DEF WellFormed, LiteralsOf
    <3>3. assigned' \in [1..0 -> Signs]
      BY <3>1 DEF Solve, Unassigned
    <3>4. QED
      BY <3>1, <3>2, <3>3 DEF IsModel, Solve
  <2>3. ASSUME sat' = "unsat", NEW m \in [1..formula'.vars -> Signs]
        PROVE  ~IsModel(m)'
    BY <2>3 DEF Solve, IsModel
  <2>4. QED
    BY <2>1, <2>2, <2>3 DEF SearchKeepsAModel
<1>4. QED
  BY <1>1, <1>2, <1>3 DEF SatInv

\* Under no clause a model can be lost: one that makes a clause true makes one of its
\* literals true, and that is not false in an assignment the model agrees with.
LEMMA ModelNeedsALiteral ==
    ASSUME SatTypeOK, NEW m \in [1..formula.vars -> Signs], IsModel(m), Extends(m, assigned),
           NEW i \in 1..Len(formula.clauses), ~Satisfied(formula.clauses[i])
    PROVE  \E l \in Open(formula.clauses[i]) : m[l[1]] = l[2]
<1>1. PICK l \in formula.clauses[i] : m[l[1]] = l[2]
  BY DEF IsModel, SatTypeOK, WellFormed
<1>2. l[1] \in 1..formula.vars /\ l[2] \in Signs /\ assigned[l[1]] \in Values
  BY ClauseLiterals
<1>3. assigned[l[1]] # l[2]
  BY DEF Satisfied, IsTrue
<1>4. assigned[l[1]] = 0
  BY <1>1, <1>2, <1>3 DEF Extends
<1>5. QED
  BY <1>1, <1>4 DEF Open

LEMMA SkipClauseInv ==
    ASSUME SatInv, SkipClause
    PROVE  SatInv'
<1>1. SatTypeOK'
  BY DEF SatInv, SkipClause, SatTypeOK, InPass
<1>2. PassSettles'
  <2>1. SUFFICES ASSUME sat' = "propagate", ~changed', NEW i \in 1..(clauseNo' - 1)
                 PROVE  Settled(formula.clauses[i])'
    BY DEF PassSettles
  <2>2. CASE i = clauseNo
    BY <2>2 DEF SkipClause, Settled, Satisfied, Open, IsTrue, Clause
  <2>3. CASE i # clauseNo
    <3>1. i \in 1..(clauseNo - 1)
      BY <2>3 DEF SatInv, SatTypeOK, WellFormed, SkipClause
    <3>2. Settled(formula.clauses[i])
      BY <2>1, <3>1 DEF SatInv, PassSettles, SkipClause
    <3>3. QED
      BY <3>2 DEF SkipClause, Settled, Satisfied, Open, IsTrue
  <2>4. QED
    BY <2>2, <2>3
<1>3. SearchKeepsAModel'
  BY DEF SatInv, SearchKeepsAModel, SkipClause, InPass, Trials, Extends, IsModel
<1>4. QED
  BY <1>1, <1>2, <1>3 DEF SatInv

LEMMA AssignUnitInv ==
    ASSUME SatInv, AssignUnit
    PROVE  SatInv'
<1>1. PICK l \in Open(Clause) : /\ Open(Clause) = {l}
                               /\ assigned' = [assigned EXCEPT ![l[1]] = l[2]]
  BY DEF AssignUnit
<1>2. clauseNo \in 1..Len(formula.clauses) /\ l \in formula.clauses[clauseNo]
  BY DEF AssignUnit, InPass, SatInv, SatTypeOK, WellFormed, Open, Clause
<1>3. l[1] \in 1..formula.vars /\ l[2] \in Signs /\ assigned[l[1]] = 0
  BY <1>2, ClauseLiterals DEF SatInv, Open
<1>4. SatTypeOK'
  <2>1. assigned' \in [1..formula.vars -> Values]
    BY <1>1, <1>3 DEF SatInv, SatTypeOK, WellFormed, Values, Signs
  <2>2. QED
    BY <1>2, <2>1 DEF SatInv, AssignUnit, SatTypeOK
<1>5. PassSettles'
  BY DEF AssignUnit, PassSettles
<1>6. SearchKeepsAModel'
  <2>1. sat = "propagate" /\ sat' = "propagate" /\ UNCHANGED <<formula, untried>>
    BY DEF AssignUnit, InPass
  <2>2. SUFFICES ASSUME NEW m \in [1..formula.vars -> Signs], IsModel(m)
                 PROVE  \E a \in Trials' : Extends(m, a)
    BY <2>1 DEF SearchKeepsAModel, Extends, IsModel
  <2>3. PICK a \in Trials : Extends(m, a)
    BY <2>1, <2>2 DEF SatInv, SearchKeepsAModel
  <2>4. CASE a = assigned
    <3>1. m[l[1]] = l[2]
      <4>1. ~Satisfied(formula.clauses[clauseNo]) /\ Open(formula.clauses[clauseNo]) = {l}
        BY <1>1 DEF AssignUnit, Clause
      <4>2. \E k \in Open(formula.clauses[clauseNo]) : m[k[1]] = k[2]
        BY <1>2, <2>2, <2>3, <2>4, <4>1, ModelNeedsALiteral DEF SatInv
      <4>3. QED
        BY <4>1, <4>2
    <3>2. Extends(m, assigned')
      BY <1>1, <1>3, <2>3, <2>4, <3>1 DEF Extends, SatInv, SatTypeOK, WellFormed
    <3>3. QED
      BY <3>2 DEF Trials
  <2>5. CASE a # assigned
    BY <2>1, <2>3, <2>5 DEF Trials
  <2>6. QED
    BY <2>4, <2>5
<1>7. QED
  BY <1>4, <1>5, <1>6 DEF SatInv

LEMMA BacktrackInv ==
    ASSUME SatInv, Backtrack
    PROVE  SatInv'
<1>1. clauseNo \in 1..Len(formula.clauses) /\ sat = "propagate" /\ formula' = formula
  BY DEF Backtrack, InPass, SatInv, SatTypeOK, WellFormed
<1>2. ASSUME NEW m \in [1..formula.vars -> Signs], IsModel(m)
      PROVE  ~Extends(m, assigned)
  BY <1>1, <1>2, ModelNeedsALiteral DEF SatInv, Backtrack, Clause
<1>3. CASE untried = <<>>
  <2>1. sat' = "unsat" /\ UNCHANGED <<assigned, clauseNo, changed, untried>>
    BY <1>3 DEF Backtrack
  <2>2. SatTypeOK' /\ PassSettles'
    BY <1>1, <2>1 DEF SatInv, SatTypeOK, WellFormed, PassSettles
  <2>3. \A m \in [1..formula.vars -> Signs] : ~IsModel(m)
    BY <1>1, <1>2, <1>3 DEF SatInv, SearchKeepsAModel, Trials
  <2>4. QED
    BY <1>1, <2>1, <2>2, <2>3 DEF SatInv, SearchKeepsAModel, IsModel
<1>4. CASE untried # <<>>
  <2>1. /\ assigned' = untried[Len(untried)]
        /\ untried' = SubSeq(untried, 1, Len(untried) - 1)
        /\ clauseNo' = 1 /\ changed' = FALSE /\ sat' = sat
    BY <1>4 DEF Backtrack
  <2>2. Len(untried) \in 1..Len(untried)
    BY <1>4 DEF SatInv, SatTypeOK, WellFormed
  <2>3. SatTypeOK'
    <3>1. untried' \in Seq([1..formula.vars -> Values]) /\ assigned' \in [1..formula.vars -> Values]
      BY <2>1, <2>2 DEF SatInv, SatTypeOK
    <3>2. clauseNo' \in 1..(Len(formula.clauses) + 1)
      BY <2>1 DEF SatInv, SatTypeOK, WellFormed
    <3>3. QED
      BY <1>1, <2>1, <3>1, <3>2 DEF SatInv, SatTypeOK, WellFormed
  <2>4. PassSettles'
    BY <2>1 DEF PassSettles
  <2>5. \A i \in DOMAIN untried : untried[i] \in Trials'
    <3>1. DOMAIN untried = 1..Len(untried) /\ DOMAIN untried' = 1..(Len(untried) - 1)
          /\ \A i \in 1..(Len(untried) - 1) : untried'[i] = untried[i]
      BY <2>1, <2>2 DEF SatInv, SatTypeOK
    <3>2. ASSUME NEW i \in 1..Len(untried) PROVE untried[i] \in Trials'
      <4>1. CASE i = Len(untried)
        BY <2>1, <4>1 DEF Trials
      <4>2. CASE i # Len(untried)
        <5>1. i \in 1..(Len(untried) - 1)
          BY <4>2 DEF SatInv, SatTypeOK
        <5>2. QED
          BY <3>1, <5>1 DEF Trials
      <4>3. QED
        BY <4>1, <4>2
    <3>3. QED
      BY <3>1, <3>2
  <2>6. SearchKeepsAModel'
    <3>1. SUFFICES ASSUME NEW m \in [1..formula.vars -> Signs], IsModel(m)
                   PROVE  \E a \in Trials' : Extends(m, a)
      BY <1>1, <2>1 DEF SearchKeepsAModel, Extends, IsModel
    <3>2. PICK a \in Trials : Extends(m, a)
      BY <1>1, <3>1 DEF SatInv, SearchKeepsAModel
    <3>3. a # assigned
      BY <1>2, <3>1, <3>2
    <3>4. QED
      BY <2>5, <3>2, <3>3 DEF Trials
  <2>7. QED
    BY <2>3, <2>4, <2>6 DEF SatInv
<1>5. QED
  BY <1>3, <1>4

LEMMA NextPassInv ==
    ASSUME SatInv, NextPass
    PROVE  SatInv'
<1>1. SatTypeOK'
  <2>1. 1 \in 1..(Len(formula.clauses) + 1)
    BY DEF SatInv, SatTypeOK, WellFormed
  <2>2. QED
    BY <2>1 DEF SatInv, SatTypeOK, WellFormed, NextPass
<1>3. PassSettles'
  BY DEF NextPass, PassSettles
<1>2. SearchKeepsAModel'
  BY DEF SatInv, SearchKeepsAModel, NextPass, Trials, Extends, IsModel
<1>4. QED
  BY <1>1, <1>2, <1>3 DEF SatInv

LEMMA DecideInv ==
    ASSUME SatInv, Decide
    PROVE  SatInv'
<1>1. PICK v \in FreeVars : /\ assigned' = [assigned EXCEPT ![v] = 1]
                           /\ untried' = Append(untried, [assigned EXCEPT ![v] = -1])
  BY DEF Decide
<1>2. v \in 1..formula.vars /\ assigned[v] = 0
  BY DEF FreeVars
<1>3. /\ [assigned EXCEPT ![v] = 1] \in [1..formula.vars -> Values]
      /\ [assigned EXCEPT ![v] = -1] \in [1..formula.vars -> Values]
  BY <1>2 DEF SatInv, SatTypeOK, WellFormed, Values
<1>4. SatTypeOK'
  BY <1>1, <1>3 DEF SatInv, SatTypeOK, WellFormed, Decide
<1>5. PassSettles'
  BY DEF Decide, PassSettles
<1>6. SearchKeepsAModel'
  <2>1. sat = "propagate" /\ sat' = "propagate" /\ formula' = formula
    BY DEF Decide
  <2>2. SUFFICES ASSUME NEW m \in [1..formula.vars -> Signs], IsModel(m)
                 PROVE  \E a \in Trials' : Extends(m, a)
    BY <2>1 DEF SearchKeepsAModel, Extends, IsModel
  <2>3. PICK a \in Trials : Extends(m, a)
    BY <2>1, <2>2 DEF SatInv, SearchKeepsAModel
  <2>4. /\ [assigned EXCEPT ![v] = -1] \in Trials' /\ assigned' \in Trials'
        /\ \A i \in DOMAIN untried : untried[i] \in Trials'
    <3>1. /\ Len(untried) + 1 \in DOMAIN untried'
          /\ untried'[Len(untried) + 1] = [assigned EXCEPT ![v] = -1]
          /\ \A i \in DOMAIN untried : i \in DOMAIN untried' /\ untried'[i] = untried[i]
      BY <1>1, <1>3 DEF SatInv, SatTypeOK, WellFormed
    <3>2. QED
      BY <3>1 DEF Trials
  <2>5. CASE a = assigned
    <3>1. m[v] = 1 \/ m[v] = -1
      BY <1>2 DEF Signs
    <3>2. CASE m[v] = 1
      BY <1>1, <1>2, <2>3, <2>4, <2>5, <3>2 DEF Extends, SatInv, SatTypeOK, WellFormed
    <3>3. CASE m[v] = -1
      BY <1>1, <1>2, <2>3, <2>4, <2>5, <3>3 DEF Extends, SatInv, SatTypeOK, WellFormed
    <3>4. QED
      BY <3>1, <3>2, <3>3
  <2>6. CASE a # assigned
    BY <2>3, <2>4, <2>6 DEF Trials
  <2>7. QED
    BY <2>5, <2>6
<1>7. QED
  BY <1>4, <1>5, <1>6 DEF SatInv

LEMMA SatisfyInv ==
    ASSUME SatInv, Satisfy
    PROVE  SatInv'
<1>1. SatTypeOK' /\ PassSettles'
  BY DEF SatInv, SatTypeOK, WellFormed, Satisfy, PassSettles
<1>2. IsModel(assigned)
  <2>1. \A v \in 1..formula.vars : assigned[v] # 0
    BY DEF Satisfy, FreeVars
  <2>2. assigned \in [1..formula.vars -> Signs]
    BY <2>1 DEF SatInv, SatTypeOK, WellFormed, Values, Signs
  <2>3. ASSUME NEW i \in 1..Len(formula.clauses)
        PROVE  \E l \in formula.clauses[i] : assigned[l[1]] = l[2]
    <3>1. i \in 1..(clauseNo - 1)
      BY DEF Satisfy, SatInv, SatTypeOK, WellFormed
    <3>2. Settled(formula.clauses[i])
      BY <3>1 DEF SatInv, PassSettles, Satisfy
    <3>3. Open(formula.clauses[i]) = {}
      BY <2>1, ClauseLiterals DEF Open, SatInv
    <3>4. QED
      BY <3>2, <3>3 DEF Settled, Satisfied, IsTrue
  <2>4. QED
    BY <2>2, <2>3 DEF IsModel, SatInv, SatTypeOK, WellFormed
<1>3. SearchKeepsAModel'
  BY <1>2 DEF SearchKeepsAModel, Satisfy, IsModel
<1>4. QED
  BY <1>1, <1>3 DEF SatInv

\* No step of the search loses a model.
LEMMA SatStepInv ==
    ASSUME SatInv, SatStep
    PROVE  SatInv'
BY SkipClauseInv, AssignUnitInv, BacktrackInv, NextPassInv, DecideInv, SatisfyInv DEF SatStep

LEMMA SatStutterInv ==
    ASSUME SatInv, UNCHANGED satVars
    PROVE  SatInv'
<1>1. UNCHANGED <<sat, formula, assigned, clauseNo, changed, untried>>
  BY DEF satVars
<1>2. SatTypeOK'
  BY <1>1 DEF SatInv, SatTypeOK, WellFormed
<1>3. PassSettles'
  BY <1>1 DEF SatInv, PassSettles, Settled, Satisfied, Open, IsTrue
<1>4. SearchKeepsAModel'
  BY <1>1 DEF SatInv, SearchKeepsAModel, Trials, Extends, IsModel
<1>5. QED
  BY <1>2, <1>3, <1>4 DEF SatInv

LEMMA SatInitInv ==
    ASSUME SatInit
    PROVE  SatInv
<1>1. /\ sat = "idle" /\ formula = NoFormula /\ assigned = [v \in 1..0 |-> 0]
      /\ clauseNo = 1 /\ changed = FALSE /\ untried = <<>>
  BY DEF SatInit, Unassigned
<1>2. WellFormed(formula) /\ formula.vars = 0 /\ Len(formula.clauses) = 0
  BY <1>1 DEF NoFormula, WellFormed
<1>3. SatTypeOK
  <2>1. assigned \in [1..formula.vars -> Values]
    BY <1>1, <1>2 DEF Values
  <2>2. untried \in Seq([1..formula.vars -> Values])
    BY <1>1
  <2>3. clauseNo \in 1..(Len(formula.clauses) + 1)
    BY <1>1, <1>2
  <2>4. QED
    BY <1>1, <1>2, <2>1, <2>2, <2>3 DEF SatTypeOK
<1>4. QED
  BY <1>1, <1>3 DEF SatInv, PassSettles, SearchKeepsAModel

\* Whatever formulas is_satisfiable is called for, no model is lost on the way and the
\* answer is right.
THEOREM SatisfiabilityCorrect == SatSpec => []SearchKeepsAModel
<1>1. SatInit => SatInv
  BY SatInitInv
<1>2. SatInv /\ [(sat # "propagate" /\ \E f \in Formulas : Solve(f)) \/ SatStep]_satVars => SatInv'
  <2>1. ASSUME NEW f \in Formulas, Solve(f)
        PROVE  SatInv'
    <3>1. WellFormed(f)
      BY FormulaAssumption
    <3>2. QED
      BY <2>1, <3>1, SolveInv
  <2>2. QED
    BY <2>1, SatStepInv, SatStutterInv
<1>3. SatInv => SearchKeepsAModel
  BY DEF SatInv
<1>4. QED
  BY <1>1, <1>2, <1>3, PTL DEF SatSpec

(***************************************************************************)
(* The inductive invariant.  Its parts are about a request and a cover, so *)
(* that they can be asked of the covers a step is about to take as well.   *)
(***************************************************************************)

RequestOK(r) ==
    /\ r.n \in Nat /\ r.options \in Options_
    /\ r.on \subseteq SUBSET (0..(r.n - 1)) /\ r.dc \subseteq SUBSET (0..(r.n - 1))
    /\ r.on \cap r.dc = {}
    /\ r.n <= r.options.exactInputs => Cardinality(r.on) < Unbounded

ImplicantsFor(r) == ImplicantsOf(0..(r.n - 1), r.on \cup r.dc)
MintermsFor(r) == {Minterm(m, 0..(r.n - 1)) : m \in r.on}

Complete(c, minterms) == \A m \in minterms : \E p \in c : Covers(p, m)
Irredundant(c, minterms) == \A p \in c : ~Complete(c \ {p}, minterms)

\* A cover of the function of which no term can be left out.
GoodCover(r, c) ==
    c \subseteq ImplicantsFor(r) /\ Complete(c, r.on) /\ Irredundant(c, r.on)

NotWorse(c, d, r) == ~IsBetter(d, c, r.options)

\* The picks of greedy_cover: those before the one that may be dropped next are needed.
OtherPicks(s, i) == {s[j] : j \in (DOMAIN s) \ {i}}
PicksOK(r, from, s) ==
    /\ from \subseteq ImplicantsFor(r) /\ Complete(from, r.on)
    /\ s \in Seq(from) /\ \A i, j \in DOMAIN s : s[i] = s[j] => i = j
TrimOK(r, s, next) ==
    /\ next \in Nat \ {0} /\ Complete({s[j] : j \in DOMAIN s}, r.on)
    /\ \A i \in DOMAIN s : i < next => ~Complete(OtherPicks(s, i), r.on)

\* The formula has a model: a check that is under way will not find its term redundant.
ModelFor(f, m) ==
    /\ m \in [1..f.vars -> Signs]
    /\ \A i \in DOMAIN f.clauses : \E l \in f.clauses[i] : m[l[1]] = l[2]

StageOK ==
    /\ stage \in {"idle", "espresso", "pick", "trim", "rewrite", "prune", "check", "exact", "done"}
    /\ caller \in {"espresso", "rewrite"}
    /\ RequestOK(request)
    /\ stage \notin {"idle", "done"} => request.on # {}
    /\ unchecked \subseteq cover /\ (stage \notin {"prune", "check"} => unchecked = {})

GreedyOK ==
    /\ stage \in {"pick", "trim"} => PicksOK(request, pool, picks)
    /\ stage = "pick" => trimNo = 1
    /\ stage = "trim" => TrimOK(request, picks, trimNo)

CheckOK == stage = "check" => unchecked # {} /\ \E m : ModelFor(formula, m)

\* The exact cover is under way in its stage only, and done after it.
SeedOK ==
    /\ stage = "exact" => ExactStarted
    /\ ExactStarted =>
          /\ CoverInv(Inputs, on, dc) /\ n <= options.exactInputs
          /\ stage \notin {"idle", "espresso"}
          /\ stage \in {"pick", "trim"} => caller = "rewrite"
          /\ stage # "exact" => phase = "done"
          /\ GoodCover(request, heuristic)

CostOK ==
    /\ stage # "idle" /\ (~ExactStarted \/ stage = "done") =>
          NotWorse(cover, MintermsFor(request), request)
    /\ ExactStarted =>
          /\ NotWorse(heuristic, MintermsFor(request), request)
          /\ stage # "exact" => NotWorse(cover, best.selected, request)

AdvancedInv ==
    /\ StageOK /\ GoodCover(request, cover) /\ GreedyOK /\ CheckOK /\ SeedOK /\ CostOK
    /\ SatInv

(***************************************************************************)
(* Covers.                                                                 *)
(***************************************************************************)

LEMMA InputsAreFinite ==
    ASSUME NEW r, RequestOK(r)
    PROVE  /\ IsFiniteSet(0..(r.n - 1)) /\ IsFiniteSet(SUBSET (0..(r.n - 1)))
           /\ IsFiniteSet(r.on) /\ Cardinality(r.on) \in Nat
           /\ IsFiniteSet(ImplicantsFor(r))
<1>1. 0 \in Int /\ r.n - 1 \in Int
  BY DEF RequestOK
<1>2. IsFiniteSet(0..(r.n - 1))
  BY <1>1, FS_Interval
<1>3. IsFiniteSet(SUBSET (0..(r.n - 1)))
  BY <1>2, FS_SUBSET
<1>4. IsFiniteSet(r.on) /\ Cardinality(r.on) \in Nat
  BY <1>3, FS_Subset, FS_CardinalityType DEF RequestOK
<1>5. IsFiniteSet(CubesOver(0..(r.n - 1)))
  BY <1>2, CubesAreFinite
<1>6. ImplicantsFor(r) \in SUBSET CubesOver(0..(r.n - 1))
  BY DEF ImplicantsFor, ImplicantsOf
<1>7. IsFiniteSet(ImplicantsFor(r))
  BY <1>5, <1>6, FS_Subset
<1> QED BY <1>2, <1>3, <1>4, <1>7

\* What covers every minterm but for some misses only those.
LEMMA MissedMeans ==
    ASSUME NEW c
    PROVE  /\ Missed(c) = {} <=> Complete(c, request.on)
           /\ Missed(c) \subseteq request.on
           /\ \A m \in Missed(c) : m \in request.on /\ \A p \in c : ~Covers(p, m)
BY DEF Missed, Complete, on

LEMMA CompleteGrows ==
    ASSUME NEW c, NEW d, NEW S, c \subseteq d, Complete(c, S)
    PROVE  Complete(d, S)
BY DEF Complete

\* A term that another one covers is dropped only if that one or a larger one stays.
LEMMA UnabsorbedIsComplete ==
    ASSUME NEW inputs, IsFiniteSet(inputs), NEW c \in SUBSET CubesOver(inputs), NEW S,
           Complete(c, S)
    PROVE  Complete(Unabsorbed(c), S)
<1> SUFFICES ASSUME NEW m \in S PROVE \E p \in Unabsorbed(c) : Covers(p, m)
  BY DEF Complete
<1> DEFINE A == {p \in c : Covers(p, m)}
           N == {LiteralCount(p) : p \in A}
<1>1. A # {} /\ A \subseteq c
  BY DEF Complete
<1>2. \A p \in c : IsFiniteSet(p.mask) /\ LiteralCount(p) \in Nat
  BY CubesAreFinite
<1>3. N \in SUBSET Nat /\ N # {}
  BY <1>1, <1>2
<1> HIDE DEF N
<1>4. PICK k \in N : \A l \in N : k <= l
  BY <1>3, LeastNat
<1>5. PICK q \in A : \A p \in A : LiteralCount(q) <= LiteralCount(p)
  BY <1>4 DEF N
<1>6. ASSUME NEW p \in c \ {q}, CubeCovers(p, q)
      PROVE  FALSE
  <2>1. p.mask \subseteq q.mask /\ q.value \cap p.mask = p.value /\ m \cap q.mask = q.value
    BY <1>5, <1>6 DEF CubeCovers, Covers
  <2>2. p \in A
    BY <2>1 DEF Covers
  <2>3. LiteralCount(q) <= LiteralCount(p)
    BY <1>5, <2>2
  <2>4. Cardinality(p.mask) <= Cardinality(q.mask)
    BY <1>1, <1>2, <1>5, <2>1, FS_Subset
  <2>5. Cardinality(p.mask) = Cardinality(q.mask)
    BY <1>1, <1>2, <1>5, <2>3, <2>4 DEF LiteralCount
  <2>6. p.mask = q.mask
    BY <1>1, <1>2, <1>5, <2>1, <2>5, FS_Subset
  <2>7. p.value = q.value
    BY <1>5, <2>1, <2>6, CubeType
  <2> QED BY <1>1, <1>5, <1>6, <2>6, <2>7, CubesEqual
<1>7. q \in Unabsorbed(c)
  BY <1>1, <1>5, <1>6 DEF Unabsorbed
<1> QED BY <1>5, <1>7

\* Nothing is absorbed where no term can be left out.
LEMMA IrredundantIsUnabsorbed ==
    ASSUME NEW inputs, NEW c \in SUBSET CubesOver(inputs), NEW S,
           Complete(c, S), Irredundant(c, S)
    PROVE  Unabsorbed(c) = c
<1> SUFFICES ASSUME NEW p \in c, NEW q \in c \ {p}, CubeCovers(q, p) PROVE FALSE
  BY DEF Unabsorbed
<1>1. ASSUME NEW m \in S PROVE \E r \in c \ {p} : Covers(r, m)
  <2>1. PICK r \in c : Covers(r, m)
    BY DEF Complete
  <2>2. CASE r = p
    <3>1. Covers(q, m)
      BY <2>1, <2>2 DEF CubeCovers, Covers
    <3> QED BY <3>1
  <2> QED BY <2>1, <2>2
<1> QED BY <1>1 DEF Irredundant, Complete

LEMMA WithoutAbsorbedIs ==
    ASSUME NEW r, RequestOK(r), NEW c \in SUBSET ImplicantsFor(r), Complete(c, r.on)
    PROVE  /\ WithoutAbsorbed(c) \subseteq c /\ Complete(WithoutAbsorbed(c), r.on)
           /\ GoodCover(r, c) => WithoutAbsorbed(c) = c
<1>1. c \in SUBSET CubesOver(0..(r.n - 1)) /\ IsFiniteSet(0..(r.n - 1))
  BY InputsAreFinite DEF ImplicantsFor, ImplicantsOf
<1>2. Unabsorbed(c) \subseteq c
  BY DEF Unabsorbed
<1>3. Complete(Unabsorbed(c), r.on)
  BY <1>1, UnabsorbedIsComplete
<1>4. GoodCover(r, c) => Unabsorbed(c) = c
  BY <1>1, IrredundantIsUnabsorbed DEF GoodCover
<1> QED BY <1>2, <1>3, <1>4 DEF WithoutAbsorbed

\* The cover a call starts from.
LEMMA MintermsAreGood ==
    ASSUME NEW r, RequestOK(r)
    PROVE  GoodCover(r, MintermsFor(r))
<1> DEFINE I == 0..(r.n - 1)
<1>1. ASSUME NEW m \in r.on
      PROVE  /\ Minterm(m, I) \in ImplicantsFor(r)
             /\ \A x \in SUBSET I : Covers(Minterm(m, I), x) <=> x = m
  <2>1. m \in SUBSET I /\ m \in r.on \cup r.dc
    BY DEF RequestOK
  <2>2. ImplicantsFor(r) = ImplicantsOf(I, r.on \cup r.dc)
    BY DEF ImplicantsFor
  <2> HIDE DEF I
  <2>3. /\ Minterm(m, I) \in ImplicantsOf(I, r.on \cup r.dc)
        /\ \A x \in SUBSET I : Covers(Minterm(m, I), x) <=> x = m
    BY <2>1, MintermIsImplicant
  <2> QED BY <2>2, <2>3
<1>2. \A m \in r.on : m \in SUBSET I
  BY DEF RequestOK
<1>3. MintermsFor(r) \subseteq ImplicantsFor(r)
  BY <1>1 DEF MintermsFor
<1>4. Complete(MintermsFor(r), r.on)
  BY <1>1, <1>2 DEF MintermsFor, Complete
<1>5. ASSUME NEW p \in MintermsFor(r), Complete(MintermsFor(r) \ {p}, r.on)
      PROVE  FALSE
  <2>1. PICK m \in r.on : p = Minterm(m, I)
    BY DEF MintermsFor
  <2>2. PICK q \in MintermsFor(r) \ {p} : Covers(q, m)
    BY <1>5 DEF Complete
  <2>3. PICK x \in r.on : q = Minterm(x, I)
    BY DEF MintermsFor
  <2>4. x = m
    BY <1>1, <1>2, <2>2, <2>3
  <2> QED BY <2>1, <2>2, <2>3, <2>4
<1> QED BY <1>3, <1>4, <1>5 DEF GoodCover, Irredundant

(***************************************************************************)
(* What the heuristic makes of the terms are implicants.                   *)
(***************************************************************************)

LEMMA HitsAllowedIsImplicant ==
    ASSUME NEW p \in CubesOver(Inputs), OnlyHitsAllowed(p)
    PROVE  p \in ImplicantsFor(request)
<1>1. ASSUME NEW m \in SUBSET Inputs, Covers(p, m) PROVE m \in on \cup dc
  <2>1. m \ p.mask \in SUBSET (Inputs \ p.mask)
    OBVIOUS
  <2>2. p.value \cup (m \ p.mask) = m
    BY <1>1 DEF Covers
  <2>3. p.value \cup (m \ p.mask) \in on \cup dc
    BY <2>1 DEF OnlyHitsAllowed
  <2> QED BY <2>2, <2>3
<1>2. p \in ImplicantsOf(Inputs, on \cup dc)
  BY <1>1 DEF ImplicantsOf
<1> QED BY <1>2 DEF ImplicantsFor, Inputs, n, on, dc

LEMMA ImplicantsAreOverInputs ==
    /\ ImplicantsFor(request) = ImplicantsOf(Inputs, on \cup dc)
    /\ ImplicantsFor(request) \subseteq CubesOver(Inputs)
BY DEF ImplicantsFor, ImplicantsOf, Inputs, n, on, dc

LEMMA MergesAreImplicants ==
    ASSUME RequestOK(request), NEW c \in SUBSET ImplicantsFor(request)
    PROVE  WithMerges(c) \subseteq ImplicantsFor(request) /\ c \subseteq WithMerges(c)
<1>1. IsFiniteSet(Inputs)
  BY InputsAreFinite DEF Inputs, n
<1>2. ASSUME NEW q \in ConsensusMerges(c) PROVE q \in ImplicantsFor(request)
  <2>1. /\ OnlyHitsAllowed(q)
        /\ \E u \in {w \in c \X c : Mergeable(w[1], w[2])} : q = Merged(u[1], u[2])
    BY DEF ConsensusMerges
  <2>2. PICK u \in c \X c : Mergeable(u[1], u[2]) /\ q = Merged(u[1], u[2])
    BY <2>1
  <2>3. u[1] \in CubesOver(Inputs) /\ u[2] \in CubesOver(Inputs)
    BY <2>2, ImplicantsAreOverInputs
  <2>4. q \in CubesOver(Inputs)
    BY <1>1, <2>2, <2>3, MergeableMeans
  <2> QED BY <2>1, <2>4, HitsAllowedIsImplicant
<1> QED BY <1>2 DEF WithMerges

LEMMA RequestInputs ==
    ASSUME RequestOK(request)
    PROVE  /\ IsFiniteSet(Inputs) /\ Inputs \subseteq Nat
           /\ Inputs = 0..(request.n - 1) /\ n = request.n /\ on = request.on
           /\ dc = request.dc /\ options = request.options
<1>1. /\ Inputs = 0..(request.n - 1) /\ n = request.n /\ on = request.on
      /\ dc = request.dc /\ options = request.options
  BY DEF Inputs, n, on, dc, options
<1>2. Inputs \subseteq Nat
  BY <1>1
<1> QED BY <1>1, <1>2, InputsAreFinite

\* The literals that an expansion may drop next.
Removable(p) == {v \in p.mask : OnlyHitsAllowed(Without(p, v))}
Shrunk(f, p) == IF Removable(p) = {} THEN p ELSE f[Without(p, Min(Removable(p)))]

LEMMA DropALiteral ==
    ASSUME IsFiniteSet(Inputs), Inputs \subseteq Nat, NEW p \in Cubes, Removable(p) # {}
    PROVE  /\ Min(Removable(p)) \in Removable(p)
           /\ Without(p, Min(Removable(p))) \in Cubes
           /\ LiteralCount(p) \in Nat /\ LiteralCount(Without(p, Min(Removable(p)))) \in Nat
           /\ LiteralCount(p) = LiteralCount(Without(p, Min(Removable(p)))) + 1
<1> DEFINE v == Min(Removable(p))
<1>1. Removable(p) \in SUBSET Nat
  BY DEF Removable, Cubes
<1>2. v \in Removable(p)
  BY <1>1, MinProperty
<1> HIDE DEF v
<1>3. v \in p.mask /\ p.mask \subseteq Inputs /\ p.value \subseteq Inputs
  BY <1>2 DEF Removable, Cubes
<1>4. Without(p, v) \in Cubes /\ Without(p, v).mask = p.mask \ {v}
  BY <1>3 DEF Without, Cubes
<1>5. IsFiniteSet(p.mask)
  BY <1>3, FS_Subset
<1>6. /\ IsFiniteSet(p.mask \ {v}) /\ Cardinality(p.mask) \in Nat
      /\ Cardinality(p.mask \ {v}) = Cardinality(p.mask) - 1
  BY <1>3, <1>5, FS_RemoveElement, FS_CardinalityType
<1>7. Cardinality(p.mask \ {v}) \in Nat
  BY <1>6, FS_CardinalityType
<1> QED BY <1>2, <1>4, <1>6, <1>7 DEF v, LiteralCount

\* The recursion of Expansion ends, as a literal goes at every step.
LEMMA ExpansionIs ==
    ASSUME IsFiniteSet(Inputs), Inputs \subseteq Nat
    PROVE  \A p \in Cubes : Expansion[p] = Shrunk(Expansion, p)
<1> DEFINE D(k) == {p \in Cubes : LiteralCount(p) <= k}
           Table(f, k) == \A p \in D(k) : f[p] = Shrunk(f, p)
           Q == {k \in Nat : \E f : Table(f, k)}
<1>1. \A p \in Cubes : LiteralCount(p) \in Nat /\ LiteralCount(p) <= Cardinality(Inputs)
  BY FS_Subset, FS_CardinalityType DEF Cubes, LiteralCount
<1>2. 0 \in Q
  <2> DEFINE f == [p \in Cubes |-> p]
  <2>1. ASSUME NEW p \in D(0) PROVE Removable(p) = {}
    <3>1. LiteralCount(p) \in Nat /\ LiteralCount(p) <= 0
      BY <1>1
    <3>2. ASSUME Removable(p) # {} PROVE FALSE
      BY <3>1, <3>2, DropALiteral
    <3> QED BY <3>2
  <2>2. Table(f, 0)
    BY <2>1 DEF Shrunk
  <2> QED BY <2>2
<1>3. ASSUME NEW k \in Q PROVE k + 1 \in Q
  <2>1. PICK f : Table(f, k)
    OBVIOUS
  <2> DEFINE g == [p \in Cubes |-> IF p \in D(k) THEN f[p] ELSE Shrunk(f, p)]
  <2>2. k \in Nat
    OBVIOUS
  <2>3. ASSUME NEW p \in D(k + 1) PROVE g[p] = Shrunk(g, p)
    <3>1. g[p] = Shrunk(f, p)
      BY <2>1
    <3>2. CASE Removable(p) = {}
      BY <3>1, <3>2 DEF Shrunk
    <3>3. CASE Removable(p) # {}
      <4> DEFINE q == Without(p, Min(Removable(p)))
      <4>1. q \in Cubes /\ LiteralCount(q) \in Nat /\ LiteralCount(p) = LiteralCount(q) + 1
        BY <3>3, DropALiteral
      <4>2. LiteralCount(p) <= k + 1
        OBVIOUS
      <4> HIDE DEF q
      <4>3. LiteralCount(q) <= k
        BY <2>2, <4>1, <4>2
      <4>4. q \in D(k)
        BY <4>1, <4>3
      <4>5. g[q] = f[q]
        BY <4>1, <4>4
      <4>6. Shrunk(f, p) = f[q] /\ Shrunk(g, p) = g[q]
        BY <3>3 DEF Shrunk, q
      <4> QED BY <3>1, <4>5, <4>6
    <3> QED BY <3>2, <3>3
  <2> HIDE DEF g
  <2>4. Table(g, k + 1)
    BY <2>3
  <2> QED BY <2>2, <2>4
<1>4. Q \in SUBSET Nat
  OBVIOUS
<1> HIDE DEF Q
<1>5. \A k \in Nat : k \in Q
  BY <1>2, <1>3, <1>4, NatSetInduction
<1>6. Cardinality(Inputs) \in Nat
  BY FS_CardinalityType
<1>7. PICK f : Table(f, Cardinality(Inputs))
  BY <1>5, <1>6 DEF Q
<1> DEFINE h == [p \in Cubes |-> f[p]]
<1>8. \A p \in Cubes : f[p] = Shrunk(f, p)
  BY <1>1, <1>7
<1>9. \A p \in Cubes : Shrunk(h, p) = Shrunk(f, p)
  BY DropALiteral DEF Shrunk
<1>10. h = [p \in Cubes |-> Shrunk(h, p)]
  BY <1>8, <1>9
<1> HIDE DEF h
<1>11. Expansion = CHOOSE e : e = [p \in Cubes |-> Shrunk(e, p)]
  BY Zenon DEF Expansion, Shrunk, Removable
<1>12. Expansion = [p \in Cubes |-> Shrunk(Expansion, p)]
  BY <1>10, <1>11, Zenon
<1>13. ASSUME NEW p \in Cubes PROVE Expansion[p] = Shrunk(Expansion, p)
  BY <1>12, Zenon
<1> QED BY <1>13

\* A term expands to an implicant.
LEMMA ExpansionIsImplicant ==
    ASSUME RequestOK(request), NEW p \in ImplicantsFor(request)
    PROVE  Expansion[p] \in ImplicantsFor(request)
<1> DEFINE Q == {k \in Nat : \A q \in ImplicantsFor(request) :
                     LiteralCount(q) <= k => Expansion[q] \in ImplicantsFor(request)}
<1>1. IsFiniteSet(Inputs) /\ Inputs \subseteq Nat
  BY RequestInputs
<1>2. ASSUME NEW q \in ImplicantsFor(request)
      PROVE  /\ q \in Cubes /\ q \in CubesOver(Inputs)
             /\ LiteralCount(q) \in Nat
             /\ Expansion[q] = Shrunk(Expansion, q)
  <2>1. q \in CubesOver(Inputs)
    BY ImplicantsAreOverInputs
  <2>2. q \in Cubes
    BY <2>1 DEF CubesOver, Cubes
  <2> QED BY <1>1, <2>1, <2>2, CubesAreFinite, ExpansionIs
<1>3. ASSUME NEW q \in ImplicantsFor(request), Removable(q) # {}
      PROVE  Without(q, Min(Removable(q))) \in ImplicantsFor(request)
  <2> DEFINE v == Min(Removable(q))
  <2>1. v \in Removable(q)
    BY <1>1, <1>2, <1>3, DropALiteral
  <2> HIDE DEF v
  <2>2. OnlyHitsAllowed(Without(q, v))
    BY <2>1 DEF Removable
  <2>3. Without(q, v) \in CubesOver(Inputs)
    BY <1>2 DEF Without, CubesOver
  <2>4. Without(q, v) \in ImplicantsFor(request)
    BY <2>2, <2>3, HitsAllowedIsImplicant
  <2> QED BY <2>4 DEF v
<1>4. 0 \in Q
  <2> SUFFICES ASSUME NEW q \in ImplicantsFor(request), LiteralCount(q) <= 0
               PROVE  Expansion[q] \in ImplicantsFor(request)
    OBVIOUS
  <2>1. Removable(q) = {}
    <3> SUFFICES ASSUME Removable(q) # {} PROVE FALSE
      OBVIOUS
    <3> QED BY <1>1, <1>2, DropALiteral
  <2> QED BY <1>2, <2>1 DEF Shrunk
<1>5. ASSUME NEW k \in Q PROVE k + 1 \in Q
  <2>1. k \in Nat /\ \A q \in ImplicantsFor(request) :
                         LiteralCount(q) <= k => Expansion[q] \in ImplicantsFor(request)
    OBVIOUS
  <2> SUFFICES ASSUME NEW q \in ImplicantsFor(request), LiteralCount(q) <= k + 1
               PROVE  Expansion[q] \in ImplicantsFor(request)
    BY <2>1
  <2>2. CASE Removable(q) = {}
    BY <1>2, <2>2 DEF Shrunk
  <2>3. CASE Removable(q) # {}
    <3> DEFINE s == Without(q, Min(Removable(q)))
    <3>1. s \in ImplicantsFor(request)
      BY <1>3, <2>3
    <3>2. LiteralCount(s) \in Nat /\ LiteralCount(q) = LiteralCount(s) + 1
      BY <1>1, <1>2, <2>3, DropALiteral
    <3>3. Expansion[q] = Expansion[s]
      BY <1>2, <2>3 DEF Shrunk
    <3> HIDE DEF s
    <3>4. LiteralCount(s) <= k
      BY <2>1, <3>2
    <3> QED BY <2>1, <3>1, <3>3, <3>4
  <2> QED BY <2>2, <2>3
<1>6. Q \in SUBSET Nat
  OBVIOUS
<1> HIDE DEF Q
<1>7. \A k \in Nat : k \in Q
  BY <1>4, <1>5, <1>6, NatSetInduction
<1>8. LiteralCount(p) \in Nat /\ LiteralCount(p) <= LiteralCount(p)
  BY <1>2
<1> QED BY <1>7, <1>8 DEF Q

(***************************************************************************)
(* The orders of the clauses.                                              *)
(***************************************************************************)

\* Finitely many numbers have a bound.
LEMMA FiniteIsBounded ==
    ASSUME NEW I \in SUBSET Nat, IsFiniteSet(I)
    PROVE  \E bound \in Nat : \A u \in I : u <= bound
<1> DEFINE Q == {S \in SUBSET I : \E bound \in Nat : \A u \in S : u <= bound}
<1>1. {} \in Q
  <2>1. 0 \in Nat /\ \A u \in {} : u <= 0
    OBVIOUS
  <2> QED BY <2>1
<1>2. ASSUME NEW T \in SUBSET I, NEW x \in I, T \in Q PROVE T \cup {x} \in Q
  <2>1. PICK bound \in Nat : \A u \in T : u <= bound
    BY <1>2
  <2>2. x \in Nat /\ bound + x \in Nat /\ \A u \in T : u \in Nat
    OBVIOUS
  <2>3. \A u \in T \cup {x} : u <= bound + x
    BY <2>1, <2>2
  <2> QED BY <2>2, <2>3
<1> HIDE DEF Q
<1>3. I \in Q
  BY <1>1, <1>2, SetInduction
<1> QED BY <1>3 DEF Q

\* Below orders the minterms as numbers.
LEMMA BelowIsAnOrder ==
    ASSUME NEW I \in SUBSET Nat, IsFiniteSet(I)
    PROVE  /\ \A a \in SUBSET I : ~Below(a, a)
           /\ \A a, b, c \in SUBSET I : Below(a, b) /\ Below(b, c) => Below(a, c)
           /\ \A a, b \in SUBSET I : a # b => Below(a, b) \/ Below(b, a)
<1>1. \A a \in SUBSET I : ~Below(a, a)
  BY DEF Below
<1>2. ASSUME NEW a \in SUBSET I, NEW b \in SUBSET I, NEW c \in SUBSET I, Below(a, b), Below(b, c)
      PROVE  Below(a, c)
  <2>1. PICK v \in b \ a : \A u \in a \ b : u < v
    BY <1>2 DEF Below
  <2>2. PICK w \in c \ b : \A u \in b \ c : u < w
    BY <1>2 DEF Below
  <2>3. v \in Nat /\ w \in Nat /\ v # w
    BY <2>1, <2>2
  <2>4. CASE v < w
    <3>1. w \in c \ a
      BY <2>1, <2>2, <2>3, <2>4
    <3>2. \A u \in a \ c : u \in Nat /\ u < w
      BY <2>1, <2>2, <2>3, <2>4
    <3> QED BY <3>1, <3>2 DEF Below
  <2>5. CASE w < v
    <3>1. v \in c \ a
      BY <2>1, <2>2, <2>3, <2>5
    <3>2. \A u \in a \ c : u \in Nat /\ u < v
      BY <2>1, <2>2, <2>3, <2>5
    <3> QED BY <3>1, <3>2 DEF Below
  <2> QED BY <2>3, <2>4, <2>5
<1>3. ASSUME NEW a \in SUBSET I, NEW b \in SUBSET I, a # b
      PROVE  Below(a, b) \/ Below(b, a)
  <2> DEFINE D == (a \ b) \cup (b \ a)
  <2>1. D \in SUBSET Nat /\ D # {} /\ D \in SUBSET I
    BY <1>3
  <2> HIDE DEF D
  <2>2. PICK k \in D : \A u \in D : u <= k
    <3>1. PICK bound \in Nat : \A u \in I : u <= bound
      BY FiniteIsBounded
    <3>2. \A u \in D : u <= bound
      BY <2>1, <3>1
    <3> QED BY <2>1, <3>2, GreatestNat
  <2>3. k \in Nat /\ \A u \in D : u \in Nat
    BY <2>1
  <2>4. CASE k \in b
    <3>1. k \in b \ a /\ \A u \in a \ b : u < k
      BY <2>2, <2>3, <2>4 DEF D
    <3> QED BY <3>1 DEF Below
  <2>5. CASE k \notin b
    <3>1. k \in a \ b /\ \A u \in b \ a : u < k
      BY <2>2, <2>3, <2>5 DEF D
    <3> QED BY <3>1 DEF Below
  <2> QED BY <2>4, <2>5
<1> QED BY <1>1, <1>2, <1>3

\* Earlier orders the cubes.
LEMMA EarlierIsAnOrder ==
    ASSUME NEW I \in SUBSET Nat, IsFiniteSet(I)
    PROVE  /\ \A p \in CubesOver(I) : ~Earlier(p, p)
           /\ \A p, q, r \in CubesOver(I) : Earlier(p, q) /\ Earlier(q, r) => Earlier(p, r)
           /\ \A p, q \in CubesOver(I) : p # q => Earlier(p, q) \/ Earlier(q, p)
<1>1. \A p \in CubesOver(I) : p.mask \in SUBSET I /\ p.value \in SUBSET I
  BY CubeType
<1>2. \A p, q \in CubesOver(I) : p # q => p.mask # q.mask \/ p.value # q.value
  BY CubesEqual
<1> QED BY <1>1, <1>2, BelowIsAnOrder DEF Earlier

LEMMA CoverOrderIs ==
    ASSUME NEW I \in SUBSET Nat, IsFiniteSet(I), NEW c \in SUBSET CubesOver(I)
    PROVE  CoverOrder(c) \in Seq(c)
<1> DEFINE R == {u \in c \X c : Earlier(u[1], u[2])}
           f == [i \in 1..Cardinality(c) |-> CHOOSE x \in c : Cardinality({y \in c : Earlier(y, x)}) = i - 1]
<1>1. IsFiniteSet(c) /\ Cardinality(c) \in Nat
  BY LiteralsType
<1>2. \A x, y \in c : <<x, y>> \in R <=> Earlier(x, y)
  OBVIOUS
<1> HIDE DEF R
<1>3. /\ \A x \in c : <<x, x>> \notin R
      /\ \A x, y, z \in c : <<x, y>> \in R /\ <<y, z>> \in R => <<x, z>> \in R
      /\ \A x, y \in c : x # y => <<x, y>> \in R \/ <<y, x>> \in R
  <2>1. c \subseteq CubesOver(I)
    OBVIOUS
  <2>2. \A x \in c : ~Earlier(x, x)
    BY <2>1, EarlierIsAnOrder
  <2>3. \A x, y, z \in c : Earlier(x, y) /\ Earlier(y, z) => Earlier(x, z)
    BY <2>1, EarlierIsAnOrder, Zenon
  <2>4. \A x, y \in c : x # y => Earlier(x, y) \/ Earlier(y, x)
    BY <2>1, EarlierIsAnOrder, Zenon
  <2> QED BY <1>2, <2>2, <2>3, <2>4, Zenon
<1>4. \A i \in 1..Cardinality(c) : \E x \in c : Cardinality({y \in c : <<y, x>> \in R}) = i - 1
  BY <1>1, <1>3, EveryRankIsTaken
<1>5. ASSUME NEW x \in c PROVE {y \in c : <<y, x>> \in R} = {y \in c : Earlier(y, x)}
  BY <1>2
<1>6. \A i \in 1..Cardinality(c) : \E x \in c : Cardinality({y \in c : Earlier(y, x)}) = i - 1
  BY <1>4, <1>5, Zenon
<1>7. f \in [1..Cardinality(c) -> c]
  BY <1>6
<1> HIDE DEF f
<1>8. f \in Seq(c)
  BY <1>1, <1>7, FromFunction
<1> QED BY <1>8 DEF f, CoverOrder, InOrder

LEMMA MintermOrderIs ==
    ASSUME NEW I \in SUBSET Nat, IsFiniteSet(I), NEW ms \in SUBSET SUBSET I
    PROVE  MintermOrder(ms) \in Seq(ms)
<1> DEFINE R == {u \in ms \X ms : Below(u[1], u[2])}
           f == [i \in 1..Cardinality(ms) |-> CHOOSE x \in ms : Cardinality({y \in ms : Below(y, x)}) = i - 1]
<1>1. IsFiniteSet(ms) /\ Cardinality(ms) \in Nat
  BY FS_SUBSET, FS_Subset, FS_CardinalityType
<1>2. \A x, y \in ms : <<x, y>> \in R <=> Below(x, y)
  OBVIOUS
<1> HIDE DEF R
<1>3. /\ \A x \in ms : <<x, x>> \notin R
      /\ \A x, y, z \in ms : <<x, y>> \in R /\ <<y, z>> \in R => <<x, z>> \in R
      /\ \A x, y \in ms : x # y => <<x, y>> \in R \/ <<y, x>> \in R
  <2>1. ms \subseteq SUBSET I
    OBVIOUS
  <2>2. \A x \in ms : ~Below(x, x)
    BY <2>1, BelowIsAnOrder
  <2>3. \A x, y, z \in ms : Below(x, y) /\ Below(y, z) => Below(x, z)
    BY <2>1, BelowIsAnOrder, Zenon
  <2>4. \A x, y \in ms : x # y => Below(x, y) \/ Below(y, x)
    BY <2>1, BelowIsAnOrder, Zenon
  <2> QED BY <1>2, <2>2, <2>3, <2>4, Zenon
<1>4. \A i \in 1..Cardinality(ms) : \E x \in ms : Cardinality({y \in ms : <<y, x>> \in R}) = i - 1
  BY <1>1, <1>3, EveryRankIsTaken
<1>5. ASSUME NEW x \in ms PROVE {y \in ms : <<y, x>> \in R} = {y \in ms : Below(y, x)}
  BY <1>2
<1>6. \A i \in 1..Cardinality(ms) : \E x \in ms : Cardinality({y \in ms : Below(y, x)}) = i - 1
  BY <1>4, <1>5, Zenon
<1>7. f \in [1..Cardinality(ms) -> ms]
  BY <1>6
<1> HIDE DEF f
<1>8. f \in Seq(ms)
  BY <1>1, <1>7, FromFunction
<1> QED BY <1>8 DEF f, MintermOrder, InOrder

LEMMA UnitOrderIs ==
    ASSUME NEW I \in SUBSET Nat, IsFiniteSet(I), NEW p \in CubesOver(I)
    PROVE  UnitOrder(p) \in Seq(TrueClauses(p))
<1> DEFINE S == TrueClauses(p)
           sign(v) == IF v \in p.value THEN 1 ELSE -1
           R == {u \in S \X S : VarOf(u[1]) < VarOf(u[2])}
           f == [i \in 1..Cardinality(S) |-> CHOOSE x \in S : Cardinality({y \in S : VarOf(y) < VarOf(x)}) = i - 1]
<1>1. S = {{<<v + 1, sign(v)>>} : v \in p.mask}
  BY DEF TrueClauses
<1>2. p.mask \subseteq Nat /\ IsFiniteSet(p.mask)
  BY CubeType, FS_Subset
<1>3. ASSUME NEW v \in p.mask PROVE VarOf({<<v + 1, sign(v)>>}) = v + 1
  <2> DEFINE t == <<v + 1, sign(v)>>
  <2>1. t[1] = v + 1
    OBVIOUS
  <2> HIDE DEF t
  <2>2. (CHOOSE l \in {t} : TRUE) = t
    OBVIOUS
  <2>3. VarOf({t}) = v + 1
    BY <2>1, <2>2 DEF VarOf
  <2> QED BY <2>3 DEF t
<1> HIDE DEF sign
<1>4. IsFiniteSet(S) /\ Cardinality(S) \in Nat
  <2>1. IsFiniteSet({{<<v + 1, sign(v)>>} : v \in p.mask})
    <3> DEFINE g == [v \in p.mask |-> {<<v + 1, sign(v)>>}]
    <3>1. g \in Surjection(p.mask, {{<<v + 1, sign(v)>>} : v \in p.mask})
      BY DEF Surjection
    <3> QED BY <1>2, <3>1, FS_Surjection
  <2> HIDE DEF S
  <2> QED BY <1>1, <2>1, FS_CardinalityType
<1>5. ASSUME NEW x \in S PROVE \E v \in p.mask : x = {<<v + 1, sign(v)>>} /\ VarOf(x) = v + 1
  <2>1. PICK v \in p.mask : x = {<<v + 1, sign(v)>>}
    BY <1>1
  <2> QED BY <1>3, <2>1
<1>6. \A x \in S : VarOf(x) \in Nat
  BY <1>2, <1>5
<1>7. ASSUME NEW x \in S, NEW y \in S, VarOf(x) = VarOf(y) PROVE x = y
  <2>1. PICK v \in p.mask : x = {<<v + 1, sign(v)>>} /\ VarOf(x) = v + 1
    BY <1>5
  <2>2. PICK w \in p.mask : y = {<<w + 1, sign(w)>>} /\ VarOf(y) = w + 1
    BY <1>5
  <2>3. v + 1 = w + 1 /\ v \in Nat /\ w \in Nat
    BY <1>2, <1>7, <2>1, <2>2
  <2>4. v = w
    BY <2>3
  <2> QED BY <2>1, <2>2, <2>4
<1> HIDE DEF S
<1>8. \A x, y \in S : <<x, y>> \in R <=> VarOf(x) < VarOf(y)
  OBVIOUS
<1> HIDE DEF R
<1>9. /\ \A x \in S : <<x, x>> \notin R
      /\ \A x, y, z \in S : <<x, y>> \in R /\ <<y, z>> \in R => <<x, z>> \in R
      /\ \A x, y \in S : x # y => <<x, y>> \in R \/ <<y, x>> \in R
  <2>1. \A x, y \in S : x # y => VarOf(x) # VarOf(y)
    BY <1>7
  <2>2. \A x \in S : ~(VarOf(x) < VarOf(x))
    BY <1>6
  <2>3. \A x, y, z \in S : VarOf(x) < VarOf(y) /\ VarOf(y) < VarOf(z) => VarOf(x) < VarOf(z)
    BY <1>6
  <2>4. \A x, y \in S : x # y => VarOf(x) < VarOf(y) \/ VarOf(y) < VarOf(x)
    BY <1>6, <2>1
  <2> QED BY <1>8, <2>2, <2>3, <2>4, Zenon
<1>10. \A i \in 1..Cardinality(S) : \E x \in S : Cardinality({y \in S : <<y, x>> \in R}) = i - 1
  BY <1>4, <1>9, EveryRankIsTaken
<1>11. ASSUME NEW x \in S PROVE {y \in S : <<y, x>> \in R} = {y \in S : VarOf(y) < VarOf(x)}
  BY <1>8
<1>12. \A i \in 1..Cardinality(S) : \E x \in S : Cardinality({y \in S : VarOf(y) < VarOf(x)}) = i - 1
  BY <1>10, <1>11, Zenon
<1>13. f \in [1..Cardinality(S) -> S]
  BY <1>12
<1> HIDE DEF f
<1>14. f \in Seq(S)
  BY <1>4, <1>13, FromFunction
<1> QED BY <1>14 DEF f, S, UnitOrder, InOrder

LEMMA MappedIs ==
    ASSUME NEW S, NEW s \in Seq(S), NEW G, NEW g, \A x \in S : g[x] \in G
    PROVE  [i \in DOMAIN s |-> g[s[i]]] \in Seq(G)
<1>1. Len(s) \in Nat /\ DOMAIN s = 1..Len(s) /\ \A i \in 1..Len(s) : s[i] \in S
  OBVIOUS
<1>2. [i \in 1..Len(s) |-> g[s[i]]] \in [1..Len(s) -> G]
  BY <1>1
<1>3. [i \in 1..Len(s) |-> g[s[i]]] \in Seq(G)
  BY <1>1, <1>2, FromFunction
<1> QED BY <1>1, <1>3

\* What only a term covers satisfies the formula that looks for such an input.
LEMMA OwnMintermIsModel ==
    ASSUME RequestOK(request), GoodCover(request, cover), NEW p \in cover
    PROVE  /\ WellFormed(TermFormula(p)) /\ \E a : ModelFor(TermFormula(p), a)
           /\ TermFormula(p).vars = n
<1>1. /\ IsFiniteSet(Inputs) /\ Inputs \in SUBSET Nat /\ n \in Nat
      /\ Inputs = 0..(n - 1) /\ on = request.on /\ dc = request.dc
  BY RequestInputs DEF RequestOK
<1>2. cover \subseteq CubesOver(Inputs)
  BY ImplicantsAreOverInputs DEF GoodCover
<1>3. on \subseteq SUBSET Inputs /\ dc \subseteq SUBSET Inputs /\ on \cap dc = {}
  BY RequestInputs DEF RequestOK
<1>4. PICK m \in on : \A q \in cover \ {p} : ~Covers(q, m)
  BY <1>1 DEF GoodCover, Irredundant, Complete
<1>5. Covers(p, m)
  BY <1>1, <1>4 DEF GoodCover, Complete
<1> DEFINE a == [v \in 1..n |-> IF v - 1 \in m THEN 1 ELSE -1]
           G == {c \in SUBSET LiteralsOf(n) : \E l \in c : a[l[1]] = l[2]}
<1>6. ASSUME NEW v \in Inputs
      PROVE  /\ <<v + 1, 1>> \in LiteralsOf(n) /\ <<v + 1, -1>> \in LiteralsOf(n)
             /\ a[v + 1] = IF v \in m THEN 1 ELSE -1
  <2>1. v \in Int /\ v + 1 \in 1..n /\ (v + 1) - 1 = v
    BY <1>1
  <2> QED BY <2>1 DEF LiteralsOf, Signs
<1>7. a \in [1..n -> Signs]
  BY DEF Signs
<1> HIDE DEF a
<1>8. ASSUME NEW S \in SUBSET Inputs, NEW sign, \A v \in S : sign[v] \in {1, -1},
             \E v \in S : sign[v] = IF v \in m THEN 1 ELSE -1
      PROVE  {<<v + 1, sign[v]>> : v \in S} \in G
  <2> DEFINE c == {<<v + 1, sign[v]>> : v \in S}
  <2>1. c \subseteq LiteralsOf(n)
    BY <1>6, <1>8
  <2>2. PICK v \in S : sign[v] = IF v \in m THEN 1 ELSE -1
    BY <1>8
  <2>3. <<v + 1, sign[v]>> \in c /\ a[v + 1] = sign[v]
    BY <1>6, <2>2
  <2>4. \E l \in c : a[l[1]] = l[2]
    BY <2>3
  <2> QED BY <2>1, <2>4
<1>9. ASSUME NEW c \in TrueClauses(p) PROVE c \in G
  <2>1. PICK v \in p.mask : c = {<<v + 1, IF v \in p.value THEN 1 ELSE -1>>}
    BY DEF TrueClauses
  <2>2. v \in Inputs /\ (v \in p.value <=> v \in m)
    BY <1>2, <1>5, <2>1, CubeType DEF Covers
  <2>3. <<v + 1, IF v \in p.value THEN 1 ELSE -1>> \in LiteralsOf(n)
    BY <1>6, <2>2
  <2>4. a[v + 1] = IF v \in p.value THEN 1 ELSE -1
    BY <1>6, <2>2
  <2> QED BY <2>1, <2>3, <2>4
<1>10. ASSUME NEW q \in cover \ {p} PROVE FalseClause(q) \in G
  <2> DEFINE sign == [v \in q.mask |-> IF v \in q.value THEN -1 ELSE 1]
  <2>1. q.mask \in SUBSET Inputs /\ q.value \subseteq q.mask
    BY <1>2, CubeType
  <2>2. PICK v \in q.mask : ~(v \in q.value <=> v \in m)
    BY <1>4, <2>1 DEF Covers
  <2>3. \A u \in q.mask : sign[u] \in {1, -1}
    OBVIOUS
  <2>4. sign[v] = IF v \in m THEN 1 ELSE -1
    BY <2>2
  <2>5. FalseClause(q) = {<<u + 1, sign[u]>> : u \in q.mask}
    BY DEF FalseClause
  <2> HIDE DEF sign, G
  <2> QED BY <1>8, <2>1, <2>2, <2>3, <2>4, <2>5
<1>11. ASSUME NEW d \in dc PROVE ForbidClause(d) \in G
  <2> DEFINE sign == [v \in Inputs |-> IF v \in d THEN -1 ELSE 1]
  <2>1. d \in SUBSET Inputs /\ m \in SUBSET Inputs /\ d # m
    BY <1>3
  <2>2. PICK v \in Inputs : ~(v \in d <=> v \in m)
    BY <2>1
  <2>3. \A u \in Inputs : sign[u] \in {1, -1}
    OBVIOUS
  <2>4. sign[v] = IF v \in m THEN 1 ELSE -1
    BY <2>2
  <2>5. ForbidClause(d) = {<<u + 1, sign[u]>> : u \in Inputs}
    BY DEF ForbidClause
  <2> HIDE DEF sign, G
  <2> QED BY <1>8, <2>2, <2>3, <2>4, <2>5
<1> HIDE DEF G
<1>12. UnitOrder(p) \in Seq(G)
  <2>1. UnitOrder(p) \in Seq(TrueClauses(p)) /\ TrueClauses(p) \subseteq G
    BY <1>1, <1>2, <1>9, UnitOrderIs
  <2> QED BY <2>1
<1>13. Mapped(CoverOrder(cover \ {p}), FalseClause) \in Seq(G)
  <2> DEFINE g == [q \in cover \ {p} |-> FalseClause(q)]
             s == CoverOrder(cover \ {p})
  <2>1. s \in Seq(cover \ {p})
    <3>1. cover \ {p} \in SUBSET CubesOver(Inputs)
      BY <1>2
    <3> QED BY <1>1, <3>1, CoverOrderIs
  <2> HIDE DEF s
  <2>2. \A q \in cover \ {p} : g[q] \in G
    BY <1>10
  <2>3. [i \in DOMAIN s |-> g[s[i]]] \in Seq(G)
    BY <2>1, <2>2, MappedIs
  <2>4. \A i \in DOMAIN s : g[s[i]] = FalseClause(s[i])
    <3>1. \A i \in DOMAIN s : s[i] \in cover \ {p}
      BY <2>1
    <3> QED BY <3>1
  <2> HIDE DEF g
  <2>5. [i \in DOMAIN s |-> FalseClause(s[i])] = [i \in DOMAIN s |-> g[s[i]]]
    BY <2>4
  <2> QED BY <2>3, <2>5 DEF Mapped, s
<1>14. Mapped(MintermOrder(dc), ForbidClause) \in Seq(G)
  <2> DEFINE g == [d \in dc |-> ForbidClause(d)]
             s == MintermOrder(dc)
  <2>1. s \in Seq(dc)
    BY <1>1, <1>3, MintermOrderIs
  <2> HIDE DEF s
  <2>2. \A d \in dc : g[d] \in G
    BY <1>11
  <2>3. [i \in DOMAIN s |-> g[s[i]]] \in Seq(G)
    BY <2>1, <2>2, MappedIs
  <2>4. \A i \in DOMAIN s : g[s[i]] = ForbidClause(s[i])
    <3>1. \A i \in DOMAIN s : s[i] \in dc
      BY <2>1
    <3> QED BY <3>1
  <2> HIDE DEF g
  <2>5. [i \in DOMAIN s |-> ForbidClause(s[i])] = [i \in DOMAIN s |-> g[s[i]]]
    BY <2>4
  <2> QED BY <2>3, <2>5 DEF Mapped, s
<1>15. /\ TermFormula(p).clauses \in Seq(G) /\ TermFormula(p).vars = n
       /\ TermFormula(p) = [vars |-> n, clauses |-> TermFormula(p).clauses]
  BY <1>12, <1>13, <1>14 DEF TermFormula
<1>16. WellFormed(TermFormula(p))
  <2>1. G \subseteq SUBSET LiteralsOf(n)
    BY DEF G
  <2>2. TermFormula(p).clauses \in Seq(SUBSET LiteralsOf(n))
    BY <1>15, <2>1
  <2> QED BY <1>1, <1>15, <2>2 DEF WellFormed
<1>17. ModelFor(TermFormula(p), a)
  <2>1. \A i \in DOMAIN TermFormula(p).clauses : TermFormula(p).clauses[i] \in G
    BY <1>15
  <2>2. \A i \in DOMAIN TermFormula(p).clauses : \E l \in TermFormula(p).clauses[i] : a[l[1]] = l[2]
    BY <2>1 DEF G
  <2> QED BY <1>7, <1>15, <2>2 DEF ModelFor
<1> QED BY <1>15, <1>16, <1>17

\* The term that is looked at next is one of those not looked at yet.
LEMMA NextTermIs ==
    ASSUME NEW I \in SUBSET Nat, IsFiniteSet(I), unchecked \in SUBSET CubesOver(I), unchecked # {}
    PROVE  NextTerm \in unchecked
<1> DEFINE S == unchecked
           R == {u \in S \X S : Earlier(u[1], u[2])}
<1>1. IsFiniteSet(S) /\ Cardinality(S) \in Nat
  BY LiteralsType
<1>2. \A x, y \in S : <<x, y>> \in R <=> Earlier(x, y)
  OBVIOUS
<1> HIDE DEF R
<1>3. S \subseteq CubesOver(I)
  OBVIOUS
<1>4. /\ \A x \in S : ~Earlier(x, x)
      /\ \A x, y, z \in S : Earlier(x, y) /\ Earlier(y, z) => Earlier(x, z)
      /\ \A x, y \in S : x # y => Earlier(x, y) \/ Earlier(y, x)
  <2>1. \A x \in S : ~Earlier(x, x)
    BY <1>3, EarlierIsAnOrder
  <2>2. \A x, y, z \in S : Earlier(x, y) /\ Earlier(y, z) => Earlier(x, z)
    BY <1>3, EarlierIsAnOrder, Zenon
  <2>3. \A x, y \in S : x # y => Earlier(x, y) \/ Earlier(y, x)
    BY <1>3, EarlierIsAnOrder, Zenon
  <2> QED BY <2>1, <2>2, <2>3
<1>5. /\ \A x \in S : <<x, x>> \notin R
      /\ \A x, y, z \in S : <<x, y>> \in R /\ <<y, z>> \in R => <<x, z>> \in R
      /\ \A x, y \in S : x # y => <<x, y>> \in R \/ <<y, x>> \in R
  BY <1>2, <1>4, Zenon
<1>6. \A i \in 1..Cardinality(S) : \E x \in S : Cardinality({y \in S : <<y, x>> \in R}) = i - 1
  BY <1>1, <1>5, EveryRankIsTaken
<1>7. 1 \in 1..Cardinality(S)
  <2>1. Cardinality(S) # 0
    BY <1>1, FS_EmptySet
  <2> QED BY <1>1, <2>1
<1>8. PICK x \in S : Cardinality({y \in S : <<y, x>> \in R}) = 0
  BY <1>6, <1>7
<1>9. {y \in S : <<y, x>> \in R} = {}
  <2>1. {y \in S : <<y, x>> \in R} \in SUBSET S
    OBVIOUS
  <2>2. IsFiniteSet({y \in S : <<y, x>> \in R})
    BY <1>1, <2>1, FS_Subset
  <2> QED BY <1>8, <2>2, FS_EmptySet
<1>10. \A q \in S \ {x} : ~Earlier(q, x)
  BY <1>2, <1>9
<1>11. \A q \in S \ {x} : Earlier(x, q)
  BY <1>4, <1>10
<1> QED BY <1>11 DEF NextTerm

(***************************************************************************)
(* The costs are numbers, so that "better" is an order.                    *)
(***************************************************************************)

LEMMA AtLeast1Is ==
    ASSUME NEW k \in Nat
    PROVE  AtLeast1(k) \in Nat /\ AtLeast1(k) >= 1
<1>1. {1, k} \in SUBSET Nat /\ {1, k} # {} /\ k + 1 \in Nat /\ \A s \in {1, k} : s <= k + 1
  OBVIOUS
<1>2. Max({1, k}) \in {1, k} /\ \A s \in {1, k} : s <= Max({1, k})
  BY <1>1, MaxProperty
<1> QED BY <1>1, <1>2 DEF AtLeast1

LEMMA CeilLog2Is ==
    ASSUME NEW k \in Nat
    PROVE  CeilLog2(k) \in Nat
<1> DEFINE S == {b \in 0..k : 2 ^ b < k}
<1>1. 0 \in Int /\ k \in Int
  OBVIOUS
<1>2. IsFiniteSet(0..k)
  BY <1>1, FS_Interval
<1>3. S \in SUBSET (0..k)
  OBVIOUS
<1> HIDE DEF S
<1>4. IsFiniteSet(S)
  BY <1>2, <1>3, FS_Subset
<1> QED BY <1>4, FS_CardinalityType DEF S, CeilLog2

LEMMA SumIs ==
    ASSUME NEW c, IsFiniteSet(c), NEW w, \A p \in c : w[p] \in Nat
    PROVE  Sum(c, w) \in Nat
<1> DEFINE part(p) == {p} \X (1..w[p])
           parts == {part(p) : p \in c}
           f == [p \in c |-> part(p)]
<1>1. ASSUME NEW p \in c PROVE IsFiniteSet(part(p))
  <2>1. 1 \in Int /\ w[p] \in Int
    OBVIOUS
  <2> QED BY <2>1, FS_Singleton, FS_Interval, FS_Product
<1> HIDE DEF part
<1>2. f \in Surjection(c, parts)
  BY DEF Surjection
<1>3. IsFiniteSet(parts)
  BY <1>2, FS_Surjection
<1>4. \A x \in parts : IsFiniteSet(x)
  BY <1>1
<1> HIDE DEF parts
<1>5. IsFiniteSet(UNION parts)
  BY <1>3, <1>4, FS_UNION
<1> QED BY <1>5, FS_CardinalityType DEF parts, part, Sum

LEMMA CostIs ==
    ASSUME NEW I, IsFiniteSet(I), NEW c \in SUBSET CubesOver(I), NEW o \in Options_
    PROVE  Cost(c, o) \in Int /\ Literals(c) \in Nat /\ Cardinality(c) \in Nat
<1>1. IsFiniteSet(c) /\ Literals(c) \in Nat /\ Cardinality(c) \in Nat
  BY LiteralsType
<1>2. \A p \in c : LiteralCount(p) \in Nat
  BY CubesAreFinite
<1>3. \A p \in c : AtLeast1(LiteralCount(p)) \in Nat /\ AtLeast1(LiteralCount(p)) >= 1
  BY <1>2, AtLeast1Is
<1>4. AtLeast1(Cardinality(c)) \in Nat
  BY <1>1, AtLeast1Is
<1>5. And2(c) \in Int
  <2> DEFINE w == [p \in c |-> AtLeast1(LiteralCount(p)) - 1]
  <2>1. \A p \in c : w[p] \in Nat
    BY <1>3
  <2> HIDE DEF w
  <2>2. Sum(c, w) \in Nat
    BY <1>1, <2>1, SumIs
  <2> QED BY <1>4, <2>2 DEF And2, w
<1>6. Cardinality(Negated(c)) \in Nat
  <2>1. Negated(c) \in SUBSET I
    BY CubeType DEF Negated
  <2>2. IsFiniteSet(Negated(c))
    BY <2>1, FS_Subset
  <2> QED BY <2>2, FS_CardinalityType
<1>7. ASSUME NEW b PROVE OutputLevels(c, b) \in Int
  <2> DEFINE S == {0} \cup {TermLevels(p, b) : p \in c}
             f == [p \in c |-> TermLevels(p, b)]
  <2>1. \A p \in c : TermLevels(p, b) \in Nat
    BY <1>2, <1>3, CeilLog2Is DEF TermLevels
  <2>2. f \in Surjection(c, {TermLevels(p, b) : p \in c})
    BY DEF Surjection
  <2>3. IsFiniteSet({TermLevels(p, b) : p \in c})
    BY <1>1, <2>2, FS_Surjection
  <2>4. IsFiniteSet(S)
    BY <2>3, FS_Singleton, FS_Union
  <2>5. S \in SUBSET Nat /\ S # {}
    BY <2>1
  <2> HIDE DEF S
  <2>6. PICK bound \in Nat : \A s \in S : s <= bound
    BY <2>4, <2>5, FiniteIsBounded
  <2>7. Max(S) \in S
    BY <2>5, <2>6, MaxProperty
  <2>8. Max(S) \in Nat
    BY <2>5, <2>7
  <2>9. (IF Cardinality(c) <= 1 THEN 0
         ELSE IF b THEN CeilLog2(Cardinality(c)) ELSE Cardinality(c) - 1) \in Int
    BY <1>1, CeilLog2Is
  <2> QED BY <2>8, <2>9 DEF S, OutputLevels
<1>8. ASSUME NEW k \in {4, 6} PROVE Luts(c, k) \in Int
  <2> DEFINE w == [p \in c |-> CeilDiv(AtLeast1(LiteralCount(p)), k)]
  <2>1. \A a \in Nat : CeilDiv(a, k) \in Nat
    BY DEF CeilDiv
  <2>2. \A p \in c : w[p] \in Nat
    BY <1>3, <2>1
  <2> HIDE DEF w
  <2>3. Sum(c, w) \in Nat
    BY <1>1, <2>2, SumIs
  <2>4. CeilDiv(Cardinality(c), k) \in Nat
    BY <1>1, <2>1
  <2> QED BY <2>3, <2>4 DEF Luts, w
<1>9. Luts(c, 4) \in Int /\ Luts(c, 6) \in Int /\ OutputLevels(c, o.balancing) \in Int
  BY <1>7, <1>8
<1>10. o.objective \in Objectives
  BY DEF Options_
<1>11. Cost(c, o) \in Int
  BY <1>1, <1>5, <1>6, <1>9, <1>10, SMT DEF Cost, Objectives
<1> QED BY <1>1, <1>11

LEMMA NotWorseIsAnOrder ==
    ASSUME NEW r, RequestOK(r), NEW c \in SUBSET ImplicantsFor(r), NEW d \in SUBSET ImplicantsFor(r),
           NEW e \in SUBSET ImplicantsFor(r)
    PROVE  /\ NotWorse(c, c, r)
           /\ NotWorse(c, d, r) /\ NotWorse(d, e, r) => NotWorse(c, e, r)
           /\ NotWorse(c, d, r) \/ NotWorse(d, c, r)
           /\ IsBetter(c, d, r.options) => NotWorse(c, d, r)
<1> DEFINE o == r.options
<1>1. /\ Cost(c, o) \in Int /\ Literals(c) \in Nat /\ Cardinality(c) \in Nat
      /\ Cost(d, o) \in Int /\ Literals(d) \in Nat /\ Cardinality(d) \in Nat
      /\ Cost(e, o) \in Int /\ Literals(e) \in Nat /\ Cardinality(e) \in Nat
  <2>1. /\ c \in SUBSET CubesOver(0..(r.n - 1)) /\ d \in SUBSET CubesOver(0..(r.n - 1))
        /\ e \in SUBSET CubesOver(0..(r.n - 1))
    BY DEF ImplicantsFor, ImplicantsOf
  <2>2. IsFiniteSet(0..(r.n - 1)) /\ o \in Options_
    BY InputsAreFinite DEF RequestOK
  <2> QED BY <2>1, <2>2, CostIs
<1> HIDE DEF o
<1>2. /\ ~IsBetter(c, c, o)
      /\ ~IsBetter(d, c, o) /\ ~IsBetter(e, d, o) => ~IsBetter(e, c, o)
      /\ ~IsBetter(d, c, o) \/ ~IsBetter(c, d, o)
  BY <1>1 DEF IsBetter
<1> QED BY <1>2 DEF NotWorse, o

(***************************************************************************)
(* The steps.                                                              *)
(***************************************************************************)

\* The request is a problem for the exact minimizer where the options allow that one.
LEMMA RequestIsAProblem ==
    ASSUME RequestOK(request), n <= options.exactInputs
    PROVE  Problem(Inputs, on, dc)
<1>1. Cardinality(on) < Unbounded
  BY RequestInputs DEF RequestOK
<1>2. on \subseteq SUBSET Inputs /\ dc \subseteq SUBSET Inputs /\ IsFiniteSet(Inputs)
  BY RequestInputs DEF RequestOK
<1> QED BY <1>1, <1>2 DEF Problem

LEMMA CoverKept ==
    ASSUME CoverInv(Inputs, on, dc), UNCHANGED <<coverVars, request>>
    PROVE  CoverInv(Inputs, on, dc)'
<1>1. UNCHANGED coverVars /\ request' = request
  OBVIOUS
<1>2. PICK i, o, d : i = Inputs /\ o = on /\ d = dc
  OBVIOUS
<1>3. i = Inputs' /\ o = on' /\ d = dc'
  BY <1>1, <1>2 DEF Inputs, n, on, dc
<1>4. CoverInv(i, o, d)'
  BY <1>1, <1>2, CoverStutterInv
<1> QED BY <1>3, <1>4

\* The exact cover, once it is done, is a good one.
LEMMA ExactIsGood ==
    ASSUME RequestOK(request), n <= options.exactInputs, CoverInv(Inputs, on, dc), phase = "done"
    PROVE  GoodCover(request, best.selected)
<1>1. Problem(Inputs, on, dc)
  BY RequestIsAProblem
<1>2. /\ best.selected \in SUBSET ImplicantsOf(Inputs, on \cup dc)
      /\ \A m \in on : \E p \in best.selected : Covers(p, m)
      /\ best.terms = Cardinality(best.selected) /\ best.terms \in Nat
      /\ \A d \in SUBSET ImplicantsOf(Inputs, on \cup dc) :
             (\A m \in on : \E p \in d : Covers(p, m)) => best.terms <= Cardinality(d)
  BY <1>1, DoneIsMinimum
<1>3. best.selected \subseteq ImplicantsFor(request) /\ IsFiniteSet(best.selected)
  BY <1>2, ImplicantsAreOverInputs, InputsAreFinite, FS_Subset
<1>4. Complete(best.selected, request.on)
  BY <1>2, RequestInputs DEF Complete
<1>5. ASSUME NEW p \in best.selected, Complete(best.selected \ {p}, request.on)
      PROVE  FALSE
  <2>1. best.selected \ {p} \in SUBSET ImplicantsOf(Inputs, on \cup dc)
    BY <1>2
  <2>2. \A m \in on : \E q \in best.selected \ {p} : Covers(q, m)
    BY <1>5, RequestInputs DEF Complete
  <2>3. best.terms <= Cardinality(best.selected \ {p})
    BY <1>2, <2>1, <2>2
  <2>4. Cardinality(best.selected \ {p}) = Cardinality(best.selected) - 1
    BY <1>3, FS_RemoveElement
  <2> QED BY <1>2, <2>3, <2>4
<1> QED BY <1>3, <1>4, <1>5 DEF GoodCover, Irredundant

\* What the steps of a flow have in common: the cover gets better or stays.
LEMMA FlowStep ==
    ASSUME AdvancedInv, UNCHANGED <<coverVars, request, heuristic>>,
           stage \in {"espresso", "pick", "trim", "rewrite", "prune", "check"},
           stage' \in {"espresso", "pick", "trim", "rewrite", "prune", "check"},
           caller' \in {"espresso", "rewrite"},
           stage' = "espresso" => ~ExactStarted, ExactStarted /\ stage' \in {"pick", "trim"} => caller' = "rewrite",
           GoodCover(request, cover'), NotWorse(cover', cover, request),
           unchecked' \subseteq cover', stage' \notin {"prune", "check"} => unchecked' = {},
           GreedyOK', CheckOK', SatInv'
    PROVE  AdvancedInv'
<1>1. request' = request /\ heuristic' = heuristic /\ UNCHANGED coverVars
  OBVIOUS
<1>2. phase' = phase /\ best' = best /\ ExactStarted' = ExactStarted
  BY <1>1 DEF coverVars, ExactStarted
<1>3. RequestOK(request) /\ request.on # {} /\ GoodCover(request, cover)
  BY DEF AdvancedInv, StageOK
<1>4. StageOK'
  <2>1. RequestOK(request') /\ request'.on # {}
    BY <1>1, <1>3
  <2> QED BY <2>1 DEF StageOK
<1>5. GoodCover(request', cover')
  BY <1>1
<1>6. n' <= options'.exactInputs <=> n <= options.exactInputs
  BY <1>1 DEF n, options
<1>7. ExactStarted => /\ CoverInv(Inputs, on, dc) /\ n <= options.exactInputs /\ phase = "done"
                      /\ GoodCover(request, heuristic)
  BY DEF AdvancedInv, SeedOK
<1>8. ExactStarted => CoverInv(Inputs, on, dc)'
  BY <1>1, <1>7, CoverKept
<1>9. GoodCover(request', heuristic') <=> GoodCover(request, heuristic)
  BY <1>1
<1>10. SeedOK'
  BY <1>2, <1>6, <1>7, <1>8, <1>9 DEF SeedOK
<1>11. /\ MintermsFor(request) \in SUBSET ImplicantsFor(request) /\ cover \in SUBSET ImplicantsFor(request)
       /\ cover' \in SUBSET ImplicantsFor(request)
  BY <1>3, MintermsAreGood DEF GoodCover
<1>12. ~ExactStarted => NotWorse(cover', MintermsFor(request), request)
  <2>1. ~ExactStarted => NotWorse(cover, MintermsFor(request), request)
    BY DEF AdvancedInv, CostOK
  <2>2. PICK c : c = cover'
    OBVIOUS
  <2>3. c \in SUBSET ImplicantsFor(request) /\ NotWorse(c, cover, request)
    BY <1>11, <2>2
  <2>4. NotWorse(cover, MintermsFor(request), request) => NotWorse(c, MintermsFor(request), request)
    BY <1>3, <1>11, <2>3, NotWorseIsAnOrder
  <2> QED BY <2>1, <2>2, <2>4
<1>13. ExactStarted => NotWorse(cover', best.selected, request)
  <2> SUFFICES ASSUME ExactStarted PROVE NotWorse(cover', best.selected, request)
    OBVIOUS
  <2>1. NotWorse(cover, best.selected, request)
    BY DEF AdvancedInv, CostOK
  <2>2. PICK c : c = cover'
    OBVIOUS
  <2>3. c \in SUBSET ImplicantsFor(request) /\ NotWorse(c, cover, request)
    BY <1>11, <2>2
  <2>4. best.selected \in SUBSET ImplicantsFor(request)
    BY <1>3, <1>7, ExactIsGood DEF GoodCover
  <2>5. NotWorse(c, best.selected, request)
    BY <1>3, <1>11, <2>1, <2>3, <2>4, NotWorseIsAnOrder
  <2> QED BY <2>2, <2>5
<1>14. ExactStarted => NotWorse(heuristic, MintermsFor(request), request)
  BY DEF AdvancedInv, CostOK
<1>15. CostOK'
  <2>1. ~ExactStarted' => NotWorse(cover', MintermsFor(request'), request')
    BY <1>1, <1>2, <1>12
  <2>2. ExactStarted' => NotWorse(heuristic', MintermsFor(request'), request')
    BY <1>1, <1>2, <1>14
  <2>3. ExactStarted' => NotWorse(cover', best'.selected, request')
    BY <1>1, <1>2, <1>13
  <2>4. stage' # "done"
    OBVIOUS
  <2> QED BY <2>1, <2>2, <2>3, <2>4 DEF CostOK
<1> QED BY <1>4, <1>5, <1>10, <1>15 DEF AdvancedInv

LEMMA FlowFacts ==
    ASSUME AdvancedInv, stage \in {"espresso", "pick", "trim", "rewrite", "prune", "check"}
    PROVE  /\ RequestOK(request) /\ request.on # {} /\ GoodCover(request, cover) /\ SatInv
           /\ cover \in SUBSET ImplicantsFor(request) /\ Complete(cover, request.on)
           /\ NotWorse(cover, cover, request) /\ caller \in {"espresso", "rewrite"}
           /\ ExactStarted => stage # "espresso" /\ (stage \in {"pick", "trim"} => caller = "rewrite")
           /\ unchecked \subseteq cover /\ (stage \notin {"prune", "check"} => unchecked = {})
<1>1. RequestOK(request) /\ request.on # {} /\ GoodCover(request, cover) /\ SatInv
  BY DEF AdvancedInv, StageOK
<1>2. cover \in SUBSET ImplicantsFor(request) /\ Complete(cover, request.on)
  BY <1>1 DEF GoodCover
<1>3. NotWorse(cover, cover, request)
  BY <1>1, <1>2, NotWorseIsAnOrder
<1>4. /\ caller \in {"espresso", "rewrite"}
      /\ unchecked \subseteq cover /\ (stage \notin {"prune", "check"} => unchecked = {})
  BY DEF AdvancedInv, StageOK
<1>5. ExactStarted => stage # "espresso" /\ (stage \in {"pick", "trim"} => caller = "rewrite")
  BY DEF AdvancedInv, SeedOK
<1> QED BY <1>1, <1>2, <1>3, <1>4, <1>5

\* greedy_cover is called with a pool that covers the function.
LEMMA GreedyStarts ==
    ASSUME RequestOK(request), request.on # {}, request' = request,
           NEW from \in SUBSET ImplicantsFor(request), Complete(from, request.on),
           NEW by, Greedy(from, by)
    PROVE  stage' = "pick" /\ caller' = by /\ GreedyOK'
<1>1. from # {}
  BY DEF Complete
<1>2. pool' = from /\ picks' = <<>> /\ trimNo' = 1 /\ caller' = by /\ stage' = "pick"
  BY <1>1 DEF Greedy
<1>3. <<>> \in Seq(from) /\ DOMAIN <<>> = {}
  OBVIOUS
<1>4. PicksOK(request, from, <<>>)
  BY <1>3 DEF PicksOK
<1>5. PicksOK(request', pool', picks')
  BY <1>2, <1>4
<1> QED BY <1>2, <1>5 DEF GreedyOK

\* A step that leaves the cover alone.
LEMMA CoverStays ==
    ASSUME RequestOK(request), GoodCover(request, cover), cover' = cover
    PROVE  GoodCover(request, cover') /\ NotWorse(cover', cover, request)
<1>1. cover \in SUBSET ImplicantsFor(request)
  BY DEF GoodCover
<1>2. NotWorse(cover, cover, request)
  BY <1>1, NotWorseIsAnOrder
<1> QED BY <1>2

LEMMA EspressoRoundStep ==
    ASSUME AdvancedInv, EspressoRound
    PROVE  AdvancedInv'
<1>1. /\ stage = "espresso" /\ UNCHANGED <<coverVars, request, heuristic>> /\ UNCHANGED satVars
      /\ cover' = cover /\ unchecked' = unchecked
  BY DEF EspressoRound
<1>2. /\ RequestOK(request) /\ request.on # {} /\ GoodCover(request, cover) /\ SatInv
      /\ cover \in SUBSET ImplicantsFor(request) /\ Complete(cover, request.on)
      /\ ~ExactStarted /\ unchecked = {}
  BY <1>1, FlowFacts
<1> DEFINE cubes == cover \cup {Expansion[p] : p \in cover}
<1>3. Greedy(WithoutAbsorbed(WithMerges(cubes)), "espresso")
  BY DEF EspressoRound
<1>4. cubes \in SUBSET ImplicantsFor(request) /\ cover \subseteq cubes
  BY <1>2, ExpansionIsImplicant
<1> HIDE DEF cubes
<1>5. WithMerges(cubes) \in SUBSET ImplicantsFor(request) /\ cubes \subseteq WithMerges(cubes)
  BY <1>2, <1>4, MergesAreImplicants
<1>6. Complete(WithMerges(cubes), request.on)
  BY <1>2, <1>4, <1>5, CompleteGrows
<1>7. /\ WithoutAbsorbed(WithMerges(cubes)) \in SUBSET ImplicantsFor(request)
      /\ Complete(WithoutAbsorbed(WithMerges(cubes)), request.on)
  BY <1>2, <1>5, <1>6, WithoutAbsorbedIs
<1>8. stage' = "pick" /\ caller' = "espresso" /\ GreedyOK'
  BY <1>1, <1>2, <1>3, <1>7, GreedyStarts
<1>9. CheckOK'
  BY <1>8 DEF CheckOK
<1>10. SatInv'
  BY <1>1, <1>2, SatStutterInv
<1>11. GoodCover(request, cover') /\ NotWorse(cover', cover, request)
  BY <1>1, <1>2, CoverStays
<1>12. unchecked' \subseteq cover' /\ unchecked' = {}
  BY <1>1, <1>2
<1> QED BY <1>1, <1>2, <1>8, <1>9, <1>10, <1>11, <1>12, FlowStep

LEMMA ToSetIs ==
    ASSUME NEW S, NEW s \in Seq(S)
    PROVE  ToSet(s) = {s[j] : j \in DOMAIN s} /\ ToSet(s) \subseteq S
<1>1. DOMAIN s = 1..Len(s)
  OBVIOUS
<1>2. ToSet(s) = {s[j] : j \in DOMAIN s}
  BY DEF ToSet
<1> QED BY <1>1, <1>2

\* As long as a minterm is missed there is a term in the pool that gains it.
LEMMA PickStep ==
    ASSUME AdvancedInv, Pick
    PROVE  AdvancedInv'
<1>1. /\ stage = "pick" /\ UNCHANGED <<coverVars, request, heuristic>> /\ UNCHANGED satVars
      /\ cover' = cover /\ unchecked' = unchecked /\ caller' = caller /\ pool' = pool /\ trimNo' = trimNo
  BY DEF Pick
<1>2. /\ RequestOK(request) /\ request.on # {} /\ GoodCover(request, cover) /\ SatInv
      /\ unchecked = {} /\ caller \in {"espresso", "rewrite"} /\ (ExactStarted => caller = "rewrite")
  BY <1>1, FlowFacts
<1>3. PicksOK(request, pool, picks) /\ trimNo = 1
  BY <1>1 DEF AdvancedInv, GreedyOK
<1> DEFINE missed == Missed(ToSet(picks))
           useful == {p \in pool \ ToSet(picks) : Hits(p, missed) > 0}
<1>4. /\ stage' = IF missed = {} THEN "trim" ELSE IF useful = {} THEN "failed" ELSE "pick"
      /\ IF missed = {} \/ useful = {} THEN picks' = picks
         ELSE \E p \in useful : picks' = Append(picks, p)
  BY DEF Pick
<1>5. /\ pool \subseteq ImplicantsFor(request) /\ Complete(pool, request.on)
      /\ picks \in Seq(pool) /\ \A i, j \in DOMAIN picks : picks[i] = picks[j] => i = j
  BY <1>3 DEF PicksOK
<1>6. ToSet(picks) = {picks[j] : j \in DOMAIN picks} /\ ToSet(picks) \subseteq pool
  BY <1>5, ToSetIs
<1>7. ASSUME missed # {} PROVE useful # {}
  <2>1. PICK m \in missed : m \in request.on /\ \A p \in ToSet(picks) : ~Covers(p, m)
    BY <1>7, MissedMeans
  <2>2. PICK p \in pool : Covers(p, m)
    BY <1>5, <2>1 DEF Complete
  <2>3. missed \in SUBSET request.on
    BY MissedMeans
  <2> HIDE DEF missed
  <2>4. {x \in missed : Covers(p, x)} \in SUBSET request.on /\ {x \in missed : Covers(p, x)} # {}
    BY <2>1, <2>2, <2>3
  <2>5. IsFiniteSet(request.on)
    BY <1>2, InputsAreFinite
  <2>6. IsFiniteSet({x \in missed : Covers(p, x)})
    BY <2>4, <2>5, FS_Subset
  <2>7. Hits(p, missed) \in Nat /\ Hits(p, missed) # 0
    BY <2>4, <2>6, FS_EmptySet, FS_CardinalityType DEF Hits
  <2>8. p \in pool \ ToSet(picks)
    BY <2>1, <2>2
  <2>9. Hits(p, missed) > 0
    BY <2>7
  <2> QED BY <2>8, <2>9
<1>8. useful \subseteq pool \ ToSet(picks)
  OBVIOUS
<1>9. missed = {} => Complete(ToSet(picks), request.on)
  BY MissedMeans
<1> HIDE DEF missed, useful
<1>10. CASE missed = {}
  <2>1. stage' = "trim" /\ picks' = picks
    BY <1>4, <1>10
  <2>2. TrimOK(request, picks, 1)
    <3>1. Complete({picks[j] : j \in DOMAIN picks}, request.on)
      BY <1>6, <1>9, <1>10
    <3>2. \A i \in DOMAIN picks : ~(i < 1)
      BY <1>5
    <3> QED BY <3>1, <3>2 DEF TrimOK
  <2>3. PicksOK(request', pool', picks') /\ TrimOK(request', picks', trimNo')
    BY <1>1, <1>3, <2>1, <2>2
  <2>4. GreedyOK' /\ CheckOK'
    BY <2>1, <2>3 DEF GreedyOK, CheckOK
  <2> QED BY <1>1, <1>2, <2>1, <2>4, CoverStays, SatStutterInv, FlowStep
<1>11. CASE missed # {}
  <2>1. PICK p \in useful : picks' = Append(picks, p)
    BY <1>4, <1>7, <1>11
  <2>2. stage' = "pick"
    BY <1>4, <1>7, <1>11
  <2>3. p \in pool /\ \A j \in DOMAIN picks : picks[j] # p
    BY <1>6, <1>8, <2>1
  <2> DEFINE s == Append(picks, p)
  <2>4. s \in Seq(pool) /\ \A i, j \in DOMAIN s : s[i] = s[j] => i = j
    <3>1. Len(picks) \in Nat /\ DOMAIN picks = 1..Len(picks)
      BY <1>5
    <3>2. /\ s \in Seq(pool) /\ DOMAIN s = 1..(Len(picks) + 1)
          /\ s[Len(picks) + 1] = p /\ \A i \in 1..Len(picks) : s[i] = picks[i]
      BY <1>5, <2>3
    <3> HIDE DEF s
    <3>3. \A i \in DOMAIN s : i = Len(picks) + 1 \/ i \in DOMAIN picks
      BY <3>1, <3>2
    <3>4. \A i, j \in DOMAIN s : s[i] = s[j] => i = j
      BY <1>5, <2>3, <3>1, <3>2, <3>3
    <3> QED BY <3>2, <3>4
  <2>5. PicksOK(request, pool, s)
    BY <1>5, <2>4 DEF PicksOK
  <2> HIDE DEF s
  <2>6. picks' = s
    BY <2>1 DEF s
  <2>7. PicksOK(request', pool', picks')
    BY <1>1, <2>5, <2>6
  <2>8. GreedyOK' /\ CheckOK'
    BY <1>1, <1>3, <2>2, <2>7 DEF GreedyOK, CheckOK
  <2> QED BY <1>1, <1>2, <2>2, <2>8, CoverStays, SatStutterInv, FlowStep
<1> QED BY <1>10, <1>11

LEMMA AtOfRight ==
    ASSUME NEW S, NEW a \in Seq(S), NEW b \in Seq(S), NEW j \in Int, j > Len(a), j <= Len(a) + Len(b)
    PROVE  (a \o b)[j] = b[j - Len(a)]
<1>1. Len(a) \in Nat /\ Len(b) \in Nat
  OBVIOUS
<1>2. j \in 1..(Len(a) + Len(b)) /\ ~(j <= Len(a))
  BY <1>1
<1> QED BY <1>2

LEMMA RemoveAtIs ==
    ASSUME NEW S, NEW s \in Seq(S), NEW i \in DOMAIN s
    PROVE  /\ RemoveAt(s, i) \in Seq(S) /\ DOMAIN RemoveAt(s, i) = 1..(Len(s) - 1)
           /\ \A j \in 1..(Len(s) - 1) : RemoveAt(s, i)[j] = IF j < i THEN s[j] ELSE s[j + 1]
<1>1. Len(s) \in Nat /\ i \in 1..Len(s) /\ i \in Nat
  OBVIOUS
<1> DEFINE a == SubSeq(s, 1, i - 1)
           b == SubSeq(s, i + 1, Len(s))
<1>2. a \in Seq(S) /\ Len(a) = i - 1 /\ \A j \in 1..(i - 1) : a[j] = s[j]
  <2>1. 1 \in Int /\ i - 1 \in Int /\ \A j \in 1..(i - 1) : s[j] \in S
    BY <1>1
  <2>2. a \in Seq(S) /\ Len(a) = i - 1
    BY <1>1
  <2>3. \A j \in 1..(i - 1) : a[j] = s[j]
    BY <1>1
  <2> QED BY <2>2, <2>3
<1>3. b \in Seq(S) /\ Len(b) = Len(s) - i /\ \A j \in 1..(Len(s) - i) : b[j] = s[i + j]
  <2>1. b \in Seq(S) /\ Len(b) = Len(s) - i
    BY <1>1
  <2>2. \A j \in 1..(Len(s) - i) : b[j] = s[i + j]
    BY <1>1
  <2> QED BY <2>1, <2>2
<1> HIDE DEF a, b
<1>4. a \o b \in Seq(S) /\ Len(a \o b) = Len(s) - 1
  BY <1>1, <1>2, <1>3
<1>5. \A j \in 1..(Len(s) - 1) : (a \o b)[j] = IF j < i THEN s[j] ELSE s[j + 1]
  <2> SUFFICES ASSUME NEW j \in 1..(Len(s) - 1)
               PROVE  (a \o b)[j] = IF j < i THEN s[j] ELSE s[j + 1]
    OBVIOUS
  <2>1. CASE j < i
    BY <1>1, <1>2, <1>3, <2>1
  <2>2. CASE ~(j < i)
    <3>1. (a \o b)[j] = b[j - (i - 1)]
      <4>1. Len(a) = i - 1 /\ Len(b) = Len(s) - i /\ a \in Seq(S) /\ b \in Seq(S)
        BY <1>2, <1>3
      <4>2. j \in Int /\ j > Len(a) /\ j <= Len(a) + Len(b)
        BY <1>1, <2>2, <4>1
      <4>3. (a \o b)[j] = b[j - Len(a)]
        BY <4>1, <4>2, AtOfRight
      <4> QED BY <4>1, <4>3
    <3>2. j - (i - 1) \in 1..(Len(s) - i) /\ i + (j - (i - 1)) = j + 1
      BY <1>1, <2>2
    <3> QED BY <1>3, <2>2, <3>1, <3>2
  <2> QED BY <2>1, <2>2
<1>6. RemoveAt(s, i) = a \o b
  BY DEF RemoveAt, a, b
<1>7. DOMAIN (a \o b) = 1..(Len(s) - 1)
  BY <1>4
<1> QED BY <1>4, <1>5, <1>6, <1>7

\* Without the pick that may be dropped the others are left; those before it are needed
\* for what is left as well.
LEMMA OthersAfterRemoval ==
    ASSUME NEW S, NEW s \in Seq(S), NEW i \in DOMAIN s, \A j, k \in DOMAIN s : s[j] = s[k] => j = k
    PROVE  /\ ToSet(RemoveAt(s, i)) = OtherPicks(s, i)
           /\ \A j \in DOMAIN RemoveAt(s, i) :
                  j < i => j \in DOMAIN s /\ OtherPicks(RemoveAt(s, i), j) \subseteq OtherPicks(s, j)
           /\ \A j, k \in DOMAIN RemoveAt(s, i) : RemoveAt(s, i)[j] = RemoveAt(s, i)[k] => j = k
<1> DEFINE t == RemoveAt(s, i)
           from(j) == IF j < i THEN j ELSE j + 1
<1>1. /\ t \in Seq(S) /\ DOMAIN t = 1..(Len(s) - 1)
      /\ \A j \in 1..(Len(s) - 1) : t[j] = IF j < i THEN s[j] ELSE s[j + 1]
  BY RemoveAtIs
<1>2. Len(s) \in Nat /\ DOMAIN s = 1..Len(s) /\ i \in 1..Len(s)
  OBVIOUS
<1> HIDE DEF t
<1>3. \A j \in DOMAIN t : /\ j \in Nat /\ from(j) \in DOMAIN s /\ from(j) # i /\ t[j] = s[from(j)]
                          /\ j < i => from(j) = j
  BY <1>1, <1>2
<1>4. \A k \in DOMAIN s : k # i => \E j \in DOMAIN t : from(j) = k
  <2> SUFFICES ASSUME NEW k \in DOMAIN s, k # i PROVE \E j \in DOMAIN t : from(j) = k
    OBVIOUS
  <2>1. CASE k < i
    BY <1>1, <1>2, <2>1
  <2>2. CASE k > i
    <3>1. k - 1 \in DOMAIN t /\ from(k - 1) = k
      BY <1>1, <1>2, <2>2
    <3> QED BY <3>1
  <2> QED BY <1>2, <2>1, <2>2
<1>5. \A j, k \in DOMAIN t : from(j) = from(k) => j = k
  BY <1>1, <1>2
<1> HIDE DEF from
<1>6. {t[j] : j \in DOMAIN t} = OtherPicks(s, i)
  BY <1>3, <1>4 DEF OtherPicks
<1>7. ToSet(t) = {t[j] : j \in DOMAIN t}
  BY <1>1, ToSetIs
<1>8. ASSUME NEW j \in DOMAIN t, j < i
      PROVE  j \in DOMAIN s /\ OtherPicks(t, j) \subseteq OtherPicks(s, j)
  <2>1. from(j) = j /\ j \in DOMAIN s
    BY <1>3, <1>8
  <2>2. ASSUME NEW k \in (DOMAIN t) \ {j} PROVE t[k] \in OtherPicks(s, j)
    <3>1. from(k) # j /\ from(k) \in DOMAIN s /\ t[k] = s[from(k)]
      BY <1>3, <1>5, <2>1
    <3> QED BY <3>1 DEF OtherPicks
  <2> QED BY <2>1, <2>2 DEF OtherPicks
<1>9. \A j, k \in DOMAIN t : t[j] = t[k] => j = k
  BY <1>3, <1>5
<1> QED BY <1>6, <1>7, <1>8, <1>9 DEF t

LEMMA TrimStep ==
    ASSUME AdvancedInv, Trim
    PROVE  AdvancedInv'
<1>1. /\ stage = "trim" /\ stage' = "trim" /\ trimNo <= Len(picks)
      /\ UNCHANGED <<coverVars, request, heuristic>> /\ UNCHANGED satVars
      /\ cover' = cover /\ unchecked' = unchecked /\ caller' = caller /\ pool' = pool
      /\ IF Missed(ToSet(RemoveAt(picks, trimNo))) = {}
         THEN picks' = RemoveAt(picks, trimNo) /\ trimNo' = trimNo
         ELSE trimNo' = trimNo + 1 /\ picks' = picks
  BY DEF Trim
<1>2. /\ RequestOK(request) /\ request.on # {} /\ GoodCover(request, cover) /\ SatInv
      /\ unchecked = {} /\ caller \in {"espresso", "rewrite"} /\ (ExactStarted => caller = "rewrite")
  BY <1>1, FlowFacts
<1>3. PicksOK(request, pool, picks) /\ TrimOK(request, picks, trimNo)
  BY <1>1 DEF AdvancedInv, GreedyOK
<1>4. /\ pool \subseteq ImplicantsFor(request) /\ Complete(pool, request.on)
      /\ picks \in Seq(pool) /\ \A i, j \in DOMAIN picks : picks[i] = picks[j] => i = j
  BY <1>3 DEF PicksOK
<1>5. /\ trimNo \in Nat \ {0} /\ Complete({picks[j] : j \in DOMAIN picks}, request.on)
      /\ \A i \in DOMAIN picks : i < trimNo => ~Complete(OtherPicks(picks, i), request.on)
  BY <1>3 DEF TrimOK
<1>6. trimNo \in DOMAIN picks /\ DOMAIN picks \subseteq Nat
  BY <1>1, <1>4, <1>5
<1> DEFINE t == RemoveAt(picks, trimNo)
<1>7. /\ t \in Seq(pool) /\ ToSet(t) = OtherPicks(picks, trimNo) /\ ToSet(t) = {t[j] : j \in DOMAIN t}
      /\ \A j \in DOMAIN t : j < trimNo => j \in DOMAIN picks /\ OtherPicks(t, j) \subseteq OtherPicks(picks, j)
      /\ \A j, k \in DOMAIN t : t[j] = t[k] => j = k
  BY <1>4, <1>6, OthersAfterRemoval, RemoveAtIs, ToSetIs
<1>8. Missed(ToSet(t)) = {} <=> Complete(ToSet(t), request.on)
  BY MissedMeans
<1> HIDE DEF t
<1>9. CASE Missed(ToSet(t)) = {}
  <2>1. picks' = t /\ trimNo' = trimNo
    BY <1>1, <1>9 DEF t
  <2>2. PicksOK(request, pool, t)
    BY <1>4, <1>7 DEF PicksOK
  <2>3. \A j \in DOMAIN t : j < trimNo => ~Complete(OtherPicks(t, j), request.on)
    BY <1>5, <1>7, CompleteGrows
  <2>4. TrimOK(request, t, trimNo)
    BY <1>5, <1>7, <1>8, <1>9, <2>3 DEF TrimOK
  <2>5. PicksOK(request', pool', picks') /\ TrimOK(request', picks', trimNo')
    BY <1>1, <2>1, <2>2, <2>4
  <2>6. GreedyOK' /\ CheckOK'
    BY <1>1, <2>5 DEF GreedyOK, CheckOK
  <2> QED BY <1>1, <1>2, <2>6, CoverStays, SatStutterInv, FlowStep
<1>10. CASE Missed(ToSet(t)) # {}
  <2>1. picks' = picks /\ trimNo' = trimNo + 1
    BY <1>1, <1>10 DEF t
  <2>2. ~Complete(OtherPicks(picks, trimNo), request.on)
    BY <1>7, <1>8, <1>10
  <2>3. \A j \in DOMAIN picks : j < trimNo + 1 => ~Complete(OtherPicks(picks, j), request.on)
    BY <1>5, <1>6, <2>2
  <2>4. TrimOK(request, picks, trimNo + 1)
    BY <1>5, <2>3 DEF TrimOK
  <2>5. PicksOK(request', pool', picks') /\ TrimOK(request', picks', trimNo')
    BY <1>1, <1>3, <2>1, <2>4
  <2>6. GreedyOK' /\ CheckOK'
    BY <1>1, <2>5 DEF GreedyOK, CheckOK
  <2> QED BY <1>1, <1>2, <2>6, CoverStays, SatStutterInv, FlowStep
<1> QED BY <1>9, <1>10

\* What is left of the picks is a cover of which no term can be left out.
LEMMA TrimmedIsGood ==
    ASSUME NEW r, NEW from, NEW s, NEW next, PicksOK(r, from, s), TrimOK(r, s, next), next > Len(s)
    PROVE  GoodCover(r, ToSet(s))
<1>1. /\ from \subseteq ImplicantsFor(r) /\ s \in Seq(from)
      /\ \A i, j \in DOMAIN s : s[i] = s[j] => i = j
  BY DEF PicksOK
<1>2. /\ next \in Nat \ {0} /\ Complete({s[j] : j \in DOMAIN s}, r.on)
      /\ \A i \in DOMAIN s : i < next => ~Complete(OtherPicks(s, i), r.on)
  BY DEF TrimOK
<1>3. ToSet(s) = {s[j] : j \in DOMAIN s} /\ ToSet(s) \subseteq from
  BY <1>1, ToSetIs
<1>4. \A i \in DOMAIN s : i < next
  BY <1>1, <1>2
<1>5. ASSUME NEW p \in ToSet(s) PROVE ~Complete(ToSet(s) \ {p}, r.on)
  <2>1. PICK i \in DOMAIN s : p = s[i]
    BY <1>3
  <2>2. OtherPicks(s, i) = ToSet(s) \ {p}
    BY <1>1, <1>3, <2>1 DEF OtherPicks
  <2> QED BY <1>2, <1>4, <2>2
<1> QED BY <1>1, <1>2, <1>3, <1>5 DEF GoodCover, Irredundant

LEMMA GreedyReturnsStep ==
    ASSUME AdvancedInv, GreedyReturns
    PROVE  AdvancedInv'
<1> DEFINE next == ToSet(picks)
<1>1. /\ stage = "trim" /\ trimNo > Len(picks)
      /\ UNCHANGED <<coverVars, request, heuristic>> /\ UNCHANGED satVars /\ caller' = caller
      /\ cover' = IF IsBetter(next, cover, options) THEN next ELSE cover
      /\ IF caller = "espresso" THEN stage' = "espresso" /\ unchecked' = unchecked
         ELSE stage' = "prune" /\ (unchecked' = cover' \/ unchecked' = {})
  BY DEF GreedyReturns, BeginPruning, greedyVars
<1>2. /\ RequestOK(request) /\ request.on # {} /\ GoodCover(request, cover) /\ SatInv
      /\ unchecked = {} /\ caller \in {"espresso", "rewrite"} /\ (ExactStarted => caller = "rewrite")
      /\ cover \in SUBSET ImplicantsFor(request) /\ NotWorse(cover, cover, request)
  BY <1>1, FlowFacts
<1>3. PicksOK(request, pool, picks) /\ TrimOK(request, picks, trimNo)
  BY <1>1 DEF AdvancedInv, GreedyOK
<1>4. GoodCover(request, next)
  BY <1>1, <1>3, TrimmedIsGood
<1> HIDE DEF next
<1>5. next \in SUBSET ImplicantsFor(request)
  BY <1>4 DEF GoodCover
<1>6. IsBetter(next, cover, options) => NotWorse(next, cover, request)
  BY <1>2, <1>5, NotWorseIsAnOrder DEF options
<1>7. GoodCover(request, cover') /\ NotWorse(cover', cover, request)
  <2>1. CASE IsBetter(next, cover, options)
    BY <1>1, <1>4, <1>6, <2>1
  <2>2. CASE ~IsBetter(next, cover, options)
    BY <1>1, <1>2, <2>2
  <2> QED BY <2>1, <2>2
<1>8. GreedyOK' /\ CheckOK'
  BY <1>1 DEF GreedyOK, CheckOK
<1>9. SatInv'
  BY <1>1, <1>2, SatStutterInv
<1> QED BY <1>1, <1>2, <1>7, <1>8, <1>9, FlowStep

LEMMA EspressoDoneStep ==
    ASSUME AdvancedInv, EspressoDone
    PROVE  AdvancedInv'
<1>1. /\ stage = "espresso" /\ stage' = "rewrite"
      /\ UNCHANGED <<coverVars, request, heuristic>> /\ UNCHANGED satVars
      /\ cover' = cover /\ unchecked' = unchecked /\ caller' = caller
  BY DEF EspressoDone, greedyVars
<1>2. /\ RequestOK(request) /\ GoodCover(request, cover) /\ SatInv
      /\ unchecked = {} /\ caller \in {"espresso", "rewrite"}
  BY <1>1, FlowFacts
<1>3. GreedyOK' /\ CheckOK'
  BY <1>1 DEF GreedyOK, CheckOK
<1> QED BY <1>1, <1>2, <1>3, CoverStays, SatStutterInv, FlowStep

\* Nothing is absorbed, and the merged terms join those of the cover.
LEMMA RewriteStep ==
    ASSUME AdvancedInv, Rewrite
    PROVE  AdvancedInv'
<1>1. /\ stage = "rewrite" /\ UNCHANGED <<coverVars, request, heuristic>> /\ UNCHANGED satVars
  BY DEF Rewrite
<1>2. /\ RequestOK(request) /\ request.on # {} /\ GoodCover(request, cover) /\ SatInv
      /\ cover \in SUBSET ImplicantsFor(request) /\ Complete(cover, request.on)
      /\ unchecked = {} /\ caller \in {"espresso", "rewrite"}
  BY <1>1, FlowFacts
<1>3. WithoutAbsorbed(cover) = cover
  BY <1>2, WithoutAbsorbedIs
<1>4. /\ cover' = cover
      /\ \/ Greedy(WithoutAbsorbed(WithMerges(cover)), "rewrite") /\ unchecked' = unchecked
         \/ /\ stage' = "prune" /\ (unchecked' = cover \/ unchecked' = {})
            /\ caller' = caller
  BY <1>3 DEF Rewrite, BeginPruning, greedyVars
<1>5. GoodCover(request, cover') /\ NotWorse(cover', cover, request)
  BY <1>2, <1>4, CoverStays
<1>6. SatInv'
  BY <1>1, <1>2, SatStutterInv
<1>7. CASE Greedy(WithoutAbsorbed(WithMerges(cover)), "rewrite") /\ unchecked' = unchecked
  <2>1. WithMerges(cover) \in SUBSET ImplicantsFor(request) /\ cover \subseteq WithMerges(cover)
    BY <1>2, MergesAreImplicants
  <2>2. Complete(WithMerges(cover), request.on)
    BY <1>2, <2>1, CompleteGrows
  <2>3. /\ WithoutAbsorbed(WithMerges(cover)) \in SUBSET ImplicantsFor(request)
        /\ Complete(WithoutAbsorbed(WithMerges(cover)), request.on)
    BY <1>2, <2>1, <2>2, WithoutAbsorbedIs
  <2>4. stage' = "pick" /\ caller' = "rewrite" /\ GreedyOK'
    BY <1>1, <1>2, <1>7, <2>3, GreedyStarts
  <2>5. CheckOK'
    BY <2>4 DEF CheckOK
  <2>6. unchecked' = {} /\ unchecked' \subseteq cover'
    BY <1>2, <1>7
  <2> QED BY <1>1, <1>5, <1>6, <2>4, <2>5, <2>6, FlowStep
<1>8. CASE stage' = "prune" /\ (unchecked' = cover \/ unchecked' = {}) /\ caller' = caller
  <2>1. GreedyOK' /\ CheckOK'
    BY <1>8 DEF GreedyOK, CheckOK
  <2> QED BY <1>1, <1>2, <1>4, <1>5, <1>6, <1>8, <2>1, FlowStep
<1> QED BY <1>4, <1>7, <1>8

LEMMA UncheckedAreCubes ==
    ASSUME RequestOK(request), GoodCover(request, cover), unchecked \subseteq cover, unchecked # {}
    PROVE  NextTerm \in unchecked /\ NextTerm \in cover
<1>1. Inputs \in SUBSET Nat /\ IsFiniteSet(Inputs)
  BY RequestInputs
<1>2. unchecked \in SUBSET CubesOver(Inputs)
  BY ImplicantsAreOverInputs DEF GoodCover
<1> QED BY <1>1, <1>2, NextTermIs

LEMMA CheckTermStep ==
    ASSUME AdvancedInv, CheckTerm
    PROVE  AdvancedInv'
<1>1. /\ stage = "prune" /\ unchecked # {} /\ Solve(TermFormula(NextTerm)) /\ stage' = "check"
      /\ UNCHANGED <<coverVars, request, heuristic>>
      /\ cover' = cover /\ unchecked' = unchecked /\ caller' = caller
  BY DEF CheckTerm, greedyVars
<1>2. /\ RequestOK(request) /\ GoodCover(request, cover)
      /\ unchecked \subseteq cover /\ caller \in {"espresso", "rewrite"}
  BY <1>1, FlowFacts
<1>3. PICK f : f = TermFormula(NextTerm)
  OBVIOUS
<1>4. WellFormed(f) /\ \E m : ModelFor(f, m)
  BY <1>1, <1>2, <1>3, UncheckedAreCubes, OwnMintermIsModel
<1>5. SatInv'
  BY <1>1, <1>3, <1>4, SolveInv
<1>6. formula' = f
  BY <1>1, <1>3 DEF Solve
<1>7. GreedyOK' /\ CheckOK'
  BY <1>1, <1>4, <1>6 DEF GreedyOK, CheckOK
<1> QED BY <1>1, <1>2, <1>5, <1>7, CoverStays, FlowStep

LEMMA SatRunsStep ==
    ASSUME AdvancedInv, SatRuns
    PROVE  AdvancedInv'
<1>1. /\ stage = "check" /\ SatStep /\ stage' = stage
      /\ UNCHANGED <<coverVars, request, heuristic>>
      /\ cover' = cover /\ unchecked' = unchecked /\ caller' = caller
  BY DEF SatRuns, ownVars, greedyVars
<1>2. /\ RequestOK(request) /\ GoodCover(request, cover) /\ SatInv
      /\ unchecked \subseteq cover /\ caller \in {"espresso", "rewrite"}
  BY <1>1, FlowFacts
<1>3. unchecked # {} /\ \E m : ModelFor(formula, m)
  BY <1>1 DEF AdvancedInv, CheckOK
<1>4. formula' = formula
  BY <1>1 DEF SatStep, SkipClause, AssignUnit, Backtrack, NextPass, Decide, Satisfy
<1>5. SatInv'
  BY <1>1, <1>2, SatStepInv
<1>6. GreedyOK' /\ CheckOK'
  BY <1>1, <1>3, <1>4 DEF GreedyOK, CheckOK
<1> QED BY <1>1, <1>2, <1>5, <1>6, CoverStays, FlowStep

\* A formula with a model is not found unsatisfiable.
LEMMA NeverRedundant ==
    ASSUME AdvancedInv, stage = "check"
    PROVE  sat # "unsat"
<1>1. PICK m : ModelFor(formula, m)
  BY DEF AdvancedInv, CheckOK
<1>2. IsModel(m) /\ m \in [1..formula.vars -> Signs]
  BY <1>1 DEF ModelFor, IsModel
<1> QED BY <1>2 DEF AdvancedInv, SatInv, SearchKeepsAModel

LEMMA TermCheckedStep ==
    ASSUME AdvancedInv, TermChecked
    PROVE  AdvancedInv'
<1>1. /\ stage = "check" /\ stage' = "prune" /\ UNCHANGED satVars
      /\ UNCHANGED <<coverVars, request, heuristic>>
      /\ cover' = (IF sat = "unsat" THEN cover \ {NextTerm} ELSE cover)
      /\ unchecked' = unchecked \ {NextTerm} /\ caller' = caller
  BY DEF TermChecked, greedyVars
<1>2. cover' = cover
  BY <1>1, NeverRedundant
<1>3. /\ RequestOK(request) /\ GoodCover(request, cover) /\ SatInv
      /\ unchecked \subseteq cover /\ caller \in {"espresso", "rewrite"}
  BY <1>1, FlowFacts
<1>4. unchecked' \subseteq cover'
  BY <1>1, <1>2, <1>3
<1>5. GreedyOK' /\ CheckOK'
  BY <1>1 DEF GreedyOK, CheckOK
<1> QED BY <1>1, <1>2, <1>3, <1>4, <1>5, CoverStays, SatStutterInv, FlowStep

LEMMA SeedExactStep ==
    ASSUME AdvancedInv, SeedExact
    PROVE  AdvancedInv'
<1>1. /\ stage = "prune" /\ unchecked = {} /\ n <= options.exactInputs /\ ~ExactStarted
      /\ heuristic' = cover /\ Minimize(Inputs, on, dc) /\ stage' = "exact" /\ UNCHANGED satVars
      /\ request' = request /\ cover' = cover /\ unchecked' = unchecked /\ caller' = caller
  BY DEF SeedExact, UsesExact, greedyVars
<1>2. /\ RequestOK(request) /\ request.on # {} /\ GoodCover(request, cover) /\ SatInv
      /\ caller \in {"espresso", "rewrite"}
  BY <1>1, FlowFacts
<1>3. NotWorse(cover, MintermsFor(request), request)
  BY <1>1 DEF AdvancedInv, CostOK
<1>4. PICK i, o, d : i = Inputs /\ o = on /\ d = dc
  OBVIOUS
<1>5. i = Inputs' /\ o = on' /\ d = dc'
  BY <1>1, <1>4 DEF Inputs, n, on, dc
<1>6. Problem(i, o, d) /\ Minimize(i, o, d)
  BY <1>1, <1>2, <1>4, RequestIsAProblem
<1>7. CoverInv(i, o, d)'
  BY <1>6, MinimizeInv
<1>8. phase' # "idle"
  BY <1>6 DEF Minimize
<1>9. CoverInv(Inputs, on, dc)'
  BY <1>5, <1>7
<1>10. n' <= options'.exactInputs
  BY <1>1 DEF n, options
<1>11. RequestOK(request') /\ request'.on # {} /\ GoodCover(request', cover') /\ GoodCover(request', heuristic')
  BY <1>1, <1>2
<1>12. SeedOK'
  BY <1>1, <1>8, <1>9, <1>10, <1>11 DEF SeedOK, ExactStarted
<1>13. NotWorse(heuristic', MintermsFor(request'), request')
  BY <1>1, <1>3
<1>14. CostOK'
  BY <1>1, <1>8, <1>13 DEF CostOK, ExactStarted
<1>15. StageOK'
  BY <1>1, <1>2, <1>11 DEF StageOK
<1>16. GreedyOK' /\ CheckOK'
  BY <1>1 DEF GreedyOK, CheckOK
<1>17. SatInv'
  BY <1>1, <1>2, SatStutterInv
<1> QED BY <1>11, <1>12, <1>14, <1>15, <1>16, <1>17 DEF AdvancedInv

\* What holds while the exact cover is under way.
LEMMA ExactFacts ==
    ASSUME AdvancedInv, stage = "exact"
    PROVE  /\ RequestOK(request) /\ request.on # {} /\ GoodCover(request, cover) /\ SatInv
           /\ caller \in {"espresso", "rewrite"} /\ unchecked = {}
           /\ ExactStarted /\ n <= options.exactInputs
           /\ CoverInv(Inputs, on, dc) /\ Problem(Inputs, on, dc)
           /\ GoodCover(request, heuristic) /\ NotWorse(heuristic, MintermsFor(request), request)
<1>1. /\ RequestOK(request) /\ request.on # {} /\ GoodCover(request, cover) /\ SatInv
      /\ caller \in {"espresso", "rewrite"} /\ unchecked = {}
  BY DEF AdvancedInv, StageOK
<1>2. /\ ExactStarted /\ n <= options.exactInputs /\ CoverInv(Inputs, on, dc)
      /\ GoodCover(request, heuristic)
  BY DEF AdvancedInv, SeedOK
<1>3. NotWorse(heuristic, MintermsFor(request), request)
  BY <1>2 DEF AdvancedInv, CostOK
<1> QED BY <1>1, <1>2, <1>3, RequestIsAProblem

LEMMA ExactRunsStep ==
    ASSUME AdvancedInv, ExactRuns
    PROVE  AdvancedInv'
<1>1. /\ stage = "exact" /\ stage' = stage /\ CoverStep /\ UNCHANGED satVars
      /\ request' = request /\ cover' = cover /\ unchecked' = unchecked /\ caller' = caller
      /\ heuristic' = heuristic
  BY DEF ExactRuns, ownVars, greedyVars
<1>2. /\ RequestOK(request) /\ request.on # {} /\ GoodCover(request, cover) /\ SatInv
      /\ caller \in {"espresso", "rewrite"} /\ unchecked = {}
      /\ ExactStarted /\ n <= options.exactInputs
      /\ CoverInv(Inputs, on, dc) /\ Problem(Inputs, on, dc)
      /\ GoodCover(request, heuristic) /\ NotWorse(heuristic, MintermsFor(request), request)
  BY <1>1, ExactFacts
<1>3. PICK i, o, d : i = Inputs /\ o = on /\ d = dc
  OBVIOUS
<1>4. i = Inputs' /\ o = on' /\ d = dc'
  BY <1>1, <1>3 DEF Inputs, n, on, dc
<1>5. Problem(i, o, d) /\ CoverInv(i, o, d)
  BY <1>2, <1>3
<1>6. CoverInv(i, o, d)'
  BY <1>1, <1>5, CoverStepInv
<1>7. phase' # "idle"
  BY <1>6 DEF CoverInv, CoverTypeOK
<1>8. CoverInv(Inputs, on, dc)'
  BY <1>4, <1>6
<1>9. n' <= options'.exactInputs
  BY <1>1, <1>2 DEF n, options
<1>10. RequestOK(request') /\ request'.on # {} /\ GoodCover(request', cover') /\ GoodCover(request', heuristic')
  BY <1>1, <1>2
<1>11. SeedOK'
  BY <1>1, <1>7, <1>8, <1>9, <1>10 DEF SeedOK, ExactStarted
<1>12. NotWorse(heuristic', MintermsFor(request'), request')
  BY <1>1, <1>2
<1>13. CostOK'
  BY <1>1, <1>7, <1>12 DEF CostOK, ExactStarted
<1>14. StageOK'
  BY <1>1, <1>2, <1>10 DEF StageOK
<1>15. GreedyOK' /\ CheckOK'
  BY <1>1 DEF GreedyOK, CheckOK
<1>16. SatInv'
  BY <1>1, <1>2, SatStutterInv
<1> QED BY <1>10, <1>11, <1>13, <1>14, <1>15, <1>16 DEF AdvancedInv

LEMMA ExactReadyStep ==
    ASSUME AdvancedInv, ExactReady
    PROVE  AdvancedInv'
<1>1. /\ stage = "exact" /\ phase \in {"done", "failed"} /\ UNCHANGED satVars /\ UNCHANGED coverVars
      /\ stage' = (IF phase = "done" THEN "rewrite" ELSE "failed")
      /\ request' = request /\ cover' = best.selected /\ unchecked' = unchecked /\ caller' = caller
      /\ heuristic' = heuristic
  BY DEF ExactReady, greedyVars
<1>2. /\ RequestOK(request) /\ request.on # {} /\ SatInv
      /\ caller \in {"espresso", "rewrite"} /\ unchecked = {}
      /\ ExactStarted /\ n <= options.exactInputs /\ CoverInv(Inputs, on, dc)
      /\ GoodCover(request, heuristic) /\ NotWorse(heuristic, MintermsFor(request), request)
  BY <1>1, ExactFacts
<1>3. phase = "done"
  BY <1>1, <1>2 DEF CoverInv, CoverTypeOK
<1>4. GoodCover(request, best.selected)
  BY <1>2, <1>3, ExactIsGood
<1>5. NotWorse(best.selected, best.selected, request)
  BY <1>2, <1>4, NotWorseIsAnOrder DEF GoodCover
<1>6. stage' = "rewrite" /\ phase' = "done" /\ best' = best
  BY <1>1, <1>3 DEF coverVars
<1>7. CoverInv(Inputs, on, dc)'
  BY <1>1, <1>2, CoverKept
<1>8. n' <= options'.exactInputs
  BY <1>1, <1>2 DEF n, options
<1>9. RequestOK(request') /\ request'.on # {} /\ GoodCover(request', cover') /\ GoodCover(request', heuristic')
  BY <1>1, <1>2, <1>4
<1>10. SeedOK'
  BY <1>6, <1>7, <1>8, <1>9 DEF SeedOK, ExactStarted
<1>11. /\ NotWorse(heuristic', MintermsFor(request'), request')
       /\ NotWorse(cover', best'.selected, request')
  BY <1>1, <1>2, <1>5, <1>6
<1>12. CostOK'
  BY <1>6, <1>11 DEF CostOK, ExactStarted
<1>13. StageOK'
  BY <1>1, <1>2, <1>6, <1>9 DEF StageOK
<1>14. GreedyOK' /\ CheckOK'
  BY <1>6 DEF GreedyOK, CheckOK
<1>15. SatInv'
  BY <1>1, <1>2, SatStutterInv
<1> QED BY <1>9, <1>10, <1>12, <1>13, <1>14, <1>15 DEF AdvancedInv

\* Of the two candidates the one is taken that is no worse than the other, and so no
\* worse than what the other is no worse than.
LEMMA ChosenIs ==
    ASSUME AdvancedInv, stage = "prune"
    PROVE  /\ GoodCover(request, Chosen) /\ NotWorse(Chosen, MintermsFor(request), request)
           /\ ExactStarted => NotWorse(Chosen, best.selected, request)
<1>1. RequestOK(request) /\ GoodCover(request, cover) /\ cover \in SUBSET ImplicantsFor(request)
  BY FlowFacts
<1>2. MintermsFor(request) \in SUBSET ImplicantsFor(request)
  BY <1>1, MintermsAreGood DEF GoodCover
<1>3. CASE ~ExactStarted
  <2>1. NotWorse(cover, MintermsFor(request), request)
    BY <1>3 DEF AdvancedInv, CostOK
  <2> QED BY <1>1, <1>3, <2>1 DEF Chosen
<1>4. CASE ExactStarted
  <2>1. /\ CoverInv(Inputs, on, dc) /\ n <= options.exactInputs /\ phase = "done"
        /\ GoodCover(request, heuristic)
    BY <1>4 DEF AdvancedInv, SeedOK
  <2>2. /\ NotWorse(heuristic, MintermsFor(request), request)
        /\ NotWorse(cover, best.selected, request)
    BY <1>4 DEF AdvancedInv, CostOK
  <2>3. best.selected \in SUBSET ImplicantsFor(request) /\ heuristic \in SUBSET ImplicantsFor(request)
    BY <1>1, <2>1, ExactIsGood DEF GoodCover
  <2>4. CASE IsBetter(cover, heuristic, options)
    <3>1. NotWorse(cover, heuristic, request)
      BY <1>1, <2>3, <2>4, NotWorseIsAnOrder DEF options
    <3>2. NotWorse(cover, MintermsFor(request), request)
      BY <1>1, <1>2, <2>2, <2>3, <3>1, NotWorseIsAnOrder
    <3> QED BY <1>1, <2>2, <2>4, <3>2 DEF Chosen
  <2>5. CASE ~IsBetter(cover, heuristic, options)
    <3>1. NotWorse(heuristic, cover, request)
      BY <2>5 DEF NotWorse, options
    <3>2. NotWorse(heuristic, best.selected, request)
      BY <1>1, <2>2, <2>3, <3>1, NotWorseIsAnOrder
    <3> QED BY <1>4, <2>1, <2>2, <2>5, <3>2 DEF Chosen
  <2> QED BY <2>4, <2>5
<1> QED BY <1>3, <1>4

LEMMA ChooseStep ==
    ASSUME AdvancedInv, Choose
    PROVE  AdvancedInv'
<1>1. /\ stage = "prune" /\ unchecked = {} /\ UNCHANGED satVars /\ UNCHANGED coverVars
      /\ cover' = Chosen /\ stage' = (IF Missed(Chosen) = {} THEN "done" ELSE "failed")
      /\ request' = request /\ unchecked' = unchecked /\ caller' = caller /\ heuristic' = heuristic
  BY DEF Choose, greedyVars
<1>2. /\ RequestOK(request) /\ SatInv /\ caller \in {"espresso", "rewrite"}
  BY <1>1, FlowFacts
<1>3. /\ GoodCover(request, Chosen) /\ NotWorse(Chosen, MintermsFor(request), request)
      /\ ExactStarted => NotWorse(Chosen, best.selected, request)
  BY <1>1, ChosenIs
<1>4. stage' = "done"
  BY <1>1, <1>3, MissedMeans DEF GoodCover
<1>5. phase' = phase /\ best' = best
  BY <1>1 DEF coverVars
<1>6. ExactStarted => /\ CoverInv(Inputs, on, dc) /\ n <= options.exactInputs /\ phase = "done"
                      /\ GoodCover(request, heuristic)
  BY <1>1 DEF AdvancedInv, SeedOK
<1>7. ExactStarted => CoverInv(Inputs, on, dc)'
  BY <1>1, <1>6, CoverKept
<1>8. n' = n /\ options' = options
  BY <1>1 DEF n, options
<1>9. RequestOK(request') /\ GoodCover(request', cover') /\ (ExactStarted => GoodCover(request', heuristic'))
  BY <1>1, <1>2, <1>3, <1>6
<1>10. SeedOK'
  BY <1>4, <1>5, <1>6, <1>7, <1>8, <1>9 DEF SeedOK, ExactStarted
<1>11. ExactStarted => NotWorse(heuristic, MintermsFor(request), request)
  BY DEF AdvancedInv, CostOK
<1>12. /\ NotWorse(cover', MintermsFor(request'), request')
       /\ ExactStarted => /\ NotWorse(heuristic', MintermsFor(request'), request')
                          /\ NotWorse(cover', best'.selected, request')
  BY <1>1, <1>3, <1>5, <1>11
<1>13. CostOK'
  BY <1>4, <1>5, <1>12 DEF CostOK, ExactStarted
<1>14. StageOK'
  BY <1>1, <1>2, <1>4, <1>9 DEF StageOK
<1>15. GreedyOK' /\ CheckOK'
  BY <1>4 DEF GreedyOK, CheckOK
<1>16. SatInv'
  BY <1>1, <1>2, SatStutterInv
<1> QED BY <1>9, <1>10, <1>13, <1>14, <1>15, <1>16 DEF AdvancedInv

\* Only the search for a model moves, or nothing does.
LEMMA OthersStay ==
    ASSUME AdvancedInv, UNCHANGED <<coverVars, ownVars>>, stage = "check" => formula' = formula, SatInv'
    PROVE  AdvancedInv'
<1>1. /\ stage' = stage /\ request' = request /\ cover' = cover /\ unchecked' = unchecked
      /\ caller' = caller /\ heuristic' = heuristic /\ pool' = pool /\ picks' = picks /\ trimNo' = trimNo
      /\ phase' = phase /\ best' = best /\ UNCHANGED coverVars
  BY DEF ownVars, greedyVars, coverVars
<1>2. RequestOK(request') <=> RequestOK(request)
  BY <1>1
<1>3. StageOK'
  BY <1>1, <1>2 DEF AdvancedInv, StageOK
<1>4. GoodCover(request', cover')
  BY <1>1 DEF AdvancedInv
<1>5. GreedyOK'
  <2>1. /\ PicksOK(request', pool', picks') <=> PicksOK(request, pool, picks)
        /\ TrimOK(request', picks', trimNo') <=> TrimOK(request, picks, trimNo)
    BY <1>1
  <2> QED BY <1>1, <2>1 DEF AdvancedInv, GreedyOK
<1>6. CheckOK'
  BY <1>1 DEF AdvancedInv, CheckOK
<1>7. n' = n /\ options' = options
  BY <1>1 DEF n, options
<1>8. ExactStarted => CoverInv(Inputs, on, dc)'
  BY <1>1, CoverKept DEF AdvancedInv, SeedOK
<1>9. GoodCover(request', heuristic') <=> GoodCover(request, heuristic)
  BY <1>1
<1>10. SeedOK'
  BY <1>1, <1>7, <1>8, <1>9 DEF AdvancedInv, SeedOK, ExactStarted
<1>11. /\ NotWorse(cover', MintermsFor(request'), request') <=> NotWorse(cover, MintermsFor(request), request)
       /\ NotWorse(heuristic', MintermsFor(request'), request')
              <=> NotWorse(heuristic, MintermsFor(request), request)
       /\ NotWorse(cover', best'.selected, request') <=> NotWorse(cover, best.selected, request)
  BY <1>1
<1>12. CostOK'
  BY <1>1, <1>11 DEF AdvancedInv, CostOK, ExactStarted
<1> QED BY <1>3, <1>4, <1>5, <1>6, <1>10, <1>12 DEF AdvancedInv

LEMMA AdvancedInit ==
    ASSUME Init
    PROVE  AdvancedInv
<1>1. /\ stage = "idle" /\ request = NoRequest /\ cover = {} /\ unchecked = {} /\ caller = "espresso"
      /\ phase = "idle" /\ SatInit
  BY DEF Init, CoverInit
<1>2. NoRequest.options \in Options_ /\ NoRequest.n = 0 /\ NoRequest.on = {} /\ NoRequest.dc = {}
  BY DEF NoRequest, Options_, Objectives
<1>3. Cardinality({}) < Unbounded
  BY FS_EmptySet, SMT DEF Unbounded
<1>4. RequestOK(request)
  BY <1>1, <1>2, <1>3 DEF RequestOK
<1>5. GoodCover(request, cover)
  BY <1>1, <1>2 DEF GoodCover, Complete, Irredundant
<1>6. StageOK
  BY <1>1, <1>4 DEF StageOK
<1>7. GreedyOK /\ CheckOK /\ SeedOK /\ CostOK
  BY <1>1 DEF GreedyOK, CheckOK, SeedOK, CostOK, ExactStarted
<1>8. SatInv
  BY <1>1, SatInitInv
<1> QED BY <1>5, <1>6, <1>7, <1>8 DEF AdvancedInv

LEMMA BeginStep ==
    ASSUME AdvancedInv, NEW c \in Calls, Begin(c)
    PROVE  AdvancedInv'
<1>1. /\ stage = "idle" /\ request' = [c EXCEPT !.dc = c.dc \ c.on]
      /\ cover' = {Minterm(m, 0..(c.n - 1)) : m \in c.on}
      /\ stage' = (IF c.on = {} THEN "done" ELSE "espresso")
      /\ UNCHANGED satVars /\ unchecked' = unchecked /\ caller' = caller /\ phase' = phase
  BY DEF Begin, greedyVars, coverVars
<1>2. /\ unchecked = {} /\ caller \in {"espresso", "rewrite"} /\ phase = "idle" /\ SatInv
  BY <1>1 DEF AdvancedInv, StageOK, SeedOK, ExactStarted
<1>3. PICK r : r = [c EXCEPT !.dc = c.dc \ c.on]
  OBVIOUS
<1>4. /\ c.n \in Nat /\ c.options \in Options_
      /\ c.on \subseteq SUBSET (0..(c.n - 1)) /\ c.dc \subseteq SUBSET (0..(c.n - 1))
      /\ c.n <= c.options.exactInputs => Cardinality(c.on) < Unbounded
  BY CallAssumption
<1>5. r.n = c.n /\ r.options = c.options /\ r.on = c.on /\ r.dc = c.dc \ c.on
  <2>1. c \in [n : Nat, on : SUBSET SUBSET Nat, dc : SUBSET SUBSET Nat, options : Options_]
    BY CallAssumption
  <2> QED BY <1>3, <2>1
<1>6. RequestOK(r)
  BY <1>4, <1>5 DEF RequestOK
<1>7. cover' = MintermsFor(r) /\ request' = r
  BY <1>1, <1>3, <1>5 DEF MintermsFor
<1>8. GoodCover(r, MintermsFor(r))
  BY <1>6, MintermsAreGood
<1>9. NotWorse(MintermsFor(r), MintermsFor(r), r)
  BY <1>6, <1>8, NotWorseIsAnOrder DEF GoodCover
<1>10. RequestOK(request') /\ GoodCover(request', cover')
       /\ NotWorse(cover', MintermsFor(request'), request')
  BY <1>6, <1>7, <1>8, <1>9
<1>11. StageOK'
  BY <1>1, <1>2, <1>5, <1>7, <1>10 DEF StageOK
<1>12. GreedyOK' /\ CheckOK'
  BY <1>1 DEF GreedyOK, CheckOK
<1>13. SeedOK' /\ CostOK'
  BY <1>1, <1>2, <1>10 DEF SeedOK, CostOK, ExactStarted
<1>14. SatInv'
  BY <1>1, <1>2, SatStutterInv
<1> QED BY <1>10, <1>11, <1>12, <1>13, <1>14 DEF AdvancedInv

LEMMA OtherCallers ==
    ASSUME AdvancedInv, (\E f \in Formulas : SolveOther(f)) \/ OtherRuns
    PROVE  AdvancedInv'
<1>1. SatInv
  BY DEF AdvancedInv
<1>2. CASE \E f \in Formulas : SolveOther(f)
  <2>1. PICK f \in Formulas : SolveOther(f)
    BY <1>2
  <2>2. WellFormed(f)
    BY FormulaAssumption
  <2>3. stage = "idle" /\ Solve(f) /\ UNCHANGED <<coverVars, ownVars>>
    BY <2>1 DEF SolveOther
  <2>4. SatInv'
    BY <2>2, <2>3, SolveInv
  <2> QED BY <2>3, <2>4, OthersStay
<1>3. CASE OtherRuns
  <2>1. stage = "idle" /\ SatStep /\ UNCHANGED <<coverVars, ownVars>>
    BY <1>3 DEF OtherRuns
  <2>2. SatInv'
    BY <1>1, <2>1, SatStepInv
  <2> QED BY <2>1, <2>2, OthersStay
<1> QED BY <1>2, <1>3

LEMMA AdvancedStutter ==
    ASSUME AdvancedInv, UNCHANGED vars
    PROVE  AdvancedInv'
<1>1. UNCHANGED <<coverVars, ownVars>> /\ UNCHANGED satVars
  BY DEF vars
<1>2. formula' = formula
  BY <1>1 DEF satVars
<1>3. SatInv'
  BY <1>1, SatStutterInv DEF AdvancedInv
<1> QED BY <1>1, <1>2, <1>3, OthersStay

\* In every state: what is under way is about the request, every cover that is kept is
\* one of its function of which no term can be left out, and none is worse than it was.
THEOREM AdvancedInvariant == Spec => []AdvancedInv
<1>1. Init => AdvancedInv
  BY AdvancedInit
<1>2. AdvancedInv /\ [Next]_vars => AdvancedInv'
  <2> SUFFICES ASSUME AdvancedInv, [Next]_vars PROVE AdvancedInv'
    OBVIOUS
  <2>1. ASSUME NEW c \in Calls, Begin(c) PROVE AdvancedInv'
    BY <2>1, BeginStep
  <2>2. CASE (\E f \in Formulas : SolveOther(f)) \/ OtherRuns
    BY <2>2, OtherCallers
  <2>3. CASE EspressoRound
    BY <2>3, EspressoRoundStep
  <2>4. CASE Pick
    BY <2>4, PickStep
  <2>5. CASE Trim
    BY <2>5, TrimStep
  <2>6. CASE GreedyReturns
    BY <2>6, GreedyReturnsStep
  <2>7. CASE EspressoDone
    BY <2>7, EspressoDoneStep
  <2>8. CASE Rewrite
    BY <2>8, RewriteStep
  <2>9. CASE CheckTerm
    BY <2>9, CheckTermStep
  <2>10. CASE SatRuns
    BY <2>10, SatRunsStep
  <2>11. CASE TermChecked
    BY <2>11, TermCheckedStep
  <2>12. CASE SeedExact
    BY <2>12, SeedExactStep
  <2>13. CASE ExactRuns
    BY <2>13, ExactRunsStep
  <2>14. CASE ExactReady
    BY <2>14, ExactReadyStep
  <2>15. CASE Choose
    BY <2>15, ChooseStep
  <2>16. CASE UNCHANGED vars
    BY <2>16, AdvancedStutter
  <2> QED BY <2>1, <2>2, <2>3, <2>4, <2>5, <2>6, <2>7, <2>8, <2>9, <2>10, <2>11, <2>12, <2>13,
             <2>14, <2>15, <2>16 DEF Next, Step
<1> QED BY <1>1, <1>2, PTL DEF Spec

\* What minimize_advanced returns is the function, and no call fails
\* (advanced.rs:270-306, 583-650, 738-826).
THEOREM CoverCorrect == Spec => []CoverIsTheFunction
<1>1. AdvancedInv => CoverIsTheFunction
  <2> SUFFICES ASSUME AdvancedInv PROVE CoverIsTheFunction
    OBVIOUS
  <2>1. stage # "failed" /\ RequestOK(request) /\ GoodCover(request, cover)
    BY DEF AdvancedInv, StageOK
  <2>2. cover \subseteq ImplicantsOf(Inputs, on \cup dc) /\ Complete(cover, on)
    BY <2>1, ImplicantsAreOverInputs, RequestInputs DEF GoodCover
  <2>3. \A m \in SUBSET Inputs : m \notin on \cup dc => \A p \in cover : ~Covers(p, m)
    BY <2>2 DEF ImplicantsOf
  <2> QED BY <2>1, <2>2, <2>3 DEF CoverIsTheFunction, Complete
<1> QED BY <1>1, AdvancedInvariant, PTL

\* No term of what is returned can be left out, and no check finds a term to drop
\* (advanced.rs:393-407, 652-675).
THEOREM NoTermIsRedundant == Spec => []CoverIsIrredundant
<1>1. AdvancedInv => CoverIsIrredundant
  <2> SUFFICES ASSUME AdvancedInv PROVE CoverIsIrredundant
    OBVIOUS
  <2>1. stage = "check" => sat # "unsat"
    BY NeverRedundant
  <2>2. GoodCover(request, cover)
    BY DEF AdvancedInv
  <2>3. \A p \in cover : Missed(cover \ {p}) # {}
    BY <2>2, MissedMeans DEF GoodCover, Irredundant
  <2> QED BY <2>1, <2>3 DEF CoverIsIrredundant
<1> QED BY <1>1, AdvancedInvariant, PTL

\* What is returned is never worse by the objective asked for than the cover of the
\* exact minimizer, where that one runs, nor than the minterms
\* (advanced.rs:573-577, 710-720, 801).
THEOREM ResultIsNeverWorse == Spec => []NeverWorseThanExact
<1>1. AdvancedInv => NeverWorseThanExact
  <2> SUFFICES ASSUME AdvancedInv, stage = "done"
               PROVE  /\ ExactStarted => ~IsBetter(best.selected, cover, options)
                      /\ ~IsBetter({Minterm(m, Inputs) : m \in on}, cover, options)
    BY DEF NeverWorseThanExact
  <2>1. /\ NotWorse(cover, MintermsFor(request), request)
        /\ ExactStarted => NotWorse(cover, best.selected, request)
    BY DEF AdvancedInv, CostOK
  <2>2. MintermsFor(request) = {Minterm(m, Inputs) : m \in on} /\ options = request.options
    BY DEF MintermsFor, Inputs, n, on, options
  <2> QED BY <2>1, <2>2 DEF NotWorse
<1> QED BY <1>1, AdvancedInvariant, PTL

\* The search for a model is right in the calls of the pruning as well (sat.rs:49-127,
\* advanced.rs:652-675).
THEOREM PruningSearchCorrect == Spec => []SearchKeepsAModel
<1>1. AdvancedInv => SearchKeepsAModel
  BY DEF AdvancedInv, SatInv
<1> QED BY <1>1, AdvancedInvariant, PTL

================================================================================
