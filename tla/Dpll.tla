---------------------------------- MODULE Dpll ----------------------------------
(***************************************************************************)
(* The satisfiability search of zbit-rs/src/sat.rs.  One clause of a pass  *)
(* of unit propagation, the end of a pass, and a decision is a step.       *)
(*                                                                         *)
(* A literal is a variable and the value that makes it true, 1 or -1; a    *)
(* clause is a set of literals; an assignment gives every variable 1, -1,  *)
(* or 0 while it has no value.  The recursion of dpll is the stack of the  *)
(* assignments it has copied and will try if the current one fails.  The   *)
(* literals of a formula are about its variables, as those of every caller *)
(* are; the check of that in eval_lit and assign_lit is left out.          *)
(***************************************************************************)
EXTENDS Integers, Sequences

CONSTANT Formulas     \* the formulas decided: [vars, clauses]

Signs == {1, -1}
LiteralsOf(n) == (1..n) \X Signs

WellFormed(f) == f \in [vars : Nat, clauses : Seq(SUBSET LiteralsOf(f.vars))]

ASSUME FormulaAssumption == \A f \in Formulas : WellFormed(f)

VARIABLES
    sat,        \* idle, propagate, sat or unsat
    formula,    \* the formula to be decided
    assigned,   \* the current assignment
    clauseNo,   \* the next clause of the pass
    changed,    \* whether the pass has assigned a variable
    untried     \* the assignments still to be tried, the next one last

satVars == <<sat, formula, assigned, clauseNo, changed, untried>>

Unassigned(n) == [v \in 1..n |-> 0]
NoFormula == [vars |-> 0, clauses |-> <<>>]

SatInit ==
    /\ sat = "idle" /\ formula = NoFormula /\ assigned = Unassigned(0)
    /\ clauseNo = 1 /\ changed = FALSE /\ untried = <<>>

\* is_satisfiable: without variables the clauses decide.
Solve(f) ==
    /\ formula' = f
    /\ sat' = IF f.vars > 0 THEN "propagate"
              ELSE IF \A i \in DOMAIN f.clauses : f.clauses[i] # {} THEN "sat" ELSE "unsat"
    /\ assigned' = Unassigned(f.vars)
    /\ clauseNo' = 1 /\ changed' = FALSE /\ untried' = <<>>

IsTrue(literal) == assigned[literal[1]] = literal[2]
Satisfied(clause) == \E l \in clause : IsTrue(l)
Open(clause) == {l \in clause : assigned[l[1]] = 0}
Clause == formula.clauses[clauseNo]
InPass == sat = "propagate" /\ clauseNo <= Len(formula.clauses)

\* A clause that is satisfied, or has two literals left, says nothing yet.
SkipClause ==
    /\ InPass
    /\ Satisfied(Clause) \/ \E l, m \in Open(Clause) : l # m
    /\ clauseNo' = clauseNo + 1
    /\ UNCHANGED <<sat, formula, assigned, changed, untried>>

\* The only literal left must be true.
AssignUnit ==
    /\ InPass /\ ~Satisfied(Clause)
    /\ \E l \in Open(Clause) :
           /\ Open(Clause) = {l}
           /\ assigned' = [assigned EXCEPT ![l[1]] = l[2]]
    /\ changed' = TRUE
    /\ clauseNo' = clauseNo + 1
    /\ UNCHANGED <<sat, formula, untried>>

\* Mutant of Backtrack: the whole search ends with the first conflict.
BacktrackNowhere ==
    /\ InPass /\ ~Satisfied(Clause) /\ Open(Clause) = {}
    /\ sat' = "unsat"
    /\ UNCHANGED <<formula, assigned, clauseNo, changed, untried>>

\* No literal is left: dpll returns to the last assignment that is still to be tried.
Backtrack ==
    /\ InPass /\ ~Satisfied(Clause) /\ Open(Clause) = {}
    /\ IF untried = <<>>
       THEN sat' = "unsat" /\ UNCHANGED <<assigned, clauseNo, changed, untried>>
       ELSE /\ assigned' = untried[Len(untried)]
            /\ untried' = SubSeq(untried, 1, Len(untried) - 1)
            /\ clauseNo' = 1 /\ changed' = FALSE /\ UNCHANGED sat
    /\ UNCHANGED formula

\* Mutant of NextPass: the flag is not reset.
NextPassKeepsFlag ==
    /\ sat = "propagate" /\ clauseNo > Len(formula.clauses) /\ changed
    /\ clauseNo' = 1
    /\ UNCHANGED <<sat, formula, assigned, changed, untried>>

\* Passes are repeated until one assigns nothing.
NextPass ==
    /\ sat = "propagate" /\ clauseNo > Len(formula.clauses) /\ changed
    /\ clauseNo' = 1 /\ changed' = FALSE
    /\ UNCHANGED <<sat, formula, assigned, untried>>

FreeVars == {v \in 1..formula.vars : assigned[v] = 0}

\* Then choose_unassigned_var gives the first variable without a value 1, and keeps a
\* copy of the assignment in which it has -1.
Decide ==
    /\ sat = "propagate" /\ clauseNo > Len(formula.clauses) /\ ~changed
    /\ \E v \in FreeVars :
           /\ \A u \in FreeVars : v <= u
           /\ assigned' = [assigned EXCEPT ![v] = 1]
           /\ untried' = Append(untried, [assigned EXCEPT ![v] = -1])
    /\ clauseNo' = 1
    /\ UNCHANGED <<sat, formula, changed>>

\* All variables have values, and no clause objects.
Satisfy ==
    /\ sat = "propagate" /\ clauseNo > Len(formula.clauses) /\ ~changed
    /\ FreeVars = {}
    /\ sat' = "sat"
    /\ UNCHANGED <<formula, assigned, clauseNo, changed, untried>>

SatStep == SkipClause \/ AssignUnit \/ Backtrack \/ NextPass \/ Decide \/ Satisfy

SatSpec ==
    /\ SatInit
    /\ [][(sat # "propagate" /\ \E f \in Formulas : Solve(f)) \/ SatStep]_satVars
    /\ WF_satVars(SatStep)

----------------------------------------------------------------------------
(* Properties.                                                             *)

IsModel(m) ==
    /\ m \in [1..formula.vars -> Signs]
    /\ \A i \in DOMAIN formula.clauses : \E l \in formula.clauses[i] : m[l[1]] = l[2]
Extends(m, a) == \A v \in 1..formula.vars : a[v] # 0 => m[v] = a[v]

\* The search never loses a model: while it runs, every model of the formula agrees with
\* the current assignment or with one still to be tried; and its answer is right, the
\* assignment it ends with being a model (sat.rs:49-127).
Trials == {assigned} \cup {untried[i] : i \in DOMAIN untried}
SearchKeepsAModel ==
    /\ sat = "propagate" =>
           \A m \in [1..formula.vars -> Signs] : IsModel(m) => \E a \in Trials : Extends(m, a)
    /\ sat = "sat" => IsModel(assigned)
    /\ sat = "unsat" => \A m \in [1..formula.vars -> Signs] : ~IsModel(m)

----------------------------------------------------------------------------
(* The invariant the search is proved with.                                *)

Values == {0, 1, -1}

\* Between the calls of unit_propagate the formula is left alone, and every assignment
\* gives each of its variables a value or none.
SatTypeOK ==
    /\ sat \in {"idle", "propagate", "sat", "unsat"}
    /\ WellFormed(formula)
    /\ assigned \in [1..formula.vars -> Values]
    /\ clauseNo \in 1..(Len(formula.clauses) + 1)
    /\ changed \in BOOLEAN
    /\ untried \in Seq([1..formula.vars -> Values])

\* A clause that no unit step applies to, and that is not in conflict.
Settled(clause) == Satisfied(clause) \/ \E l, m \in Open(clause) : l # m

\* What a pass that has assigned nothing has gone over is settled, so that no clause
\* objects once all variables have values.
PassSettles ==
    (sat = "propagate" /\ ~changed) => \A i \in 1..(clauseNo - 1) : Settled(formula.clauses[i])

SatInv == SatTypeOK /\ PassSettles /\ SearchKeepsAModel

================================================================================
