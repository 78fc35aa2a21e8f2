------------------------------- MODULE Router -------------------------------
(***************************************************************************)
(* Rule templates as values: how a router decides from its parents' lifted *)
(* fields, and what publication checks.                                    *)
(*                                                                         *)
(* A template is [ref, slot, branches], a branch [condition, sub], and a   *)
(* condition a sequence of disjuncts that are sequences of clauses         *)
(* [tool, path, op, literal, words].  A clause that is not a comparison    *)
(* has the op None, and the tool None when it names no field; `words` are  *)
(* the words of its text that publication looks for.  A value is [t, x],   *)
(* its type and itself; the type of a literal that is none of the values   *)
(* is None.  A template's digest is the template.                          *)
(***************************************************************************)
EXTENDS Admission

Num(n) == [t |-> "number", x |-> n]
Text(x) == [t |-> "string", x |-> x]
Unsupported == [t |-> None, x |-> None]

Clause(tool, path, op, literal) == [tool |-> tool, path |-> path, op |-> op, literal |-> literal, words |-> {}]

\* What splitting the empty condition leaves: one clause, without text.
NoClause == Clause(None, None, None, Unsupported)

Same(a, b) == a.t = b.t /\ a.x = b.x

\* compare: equality is strict, an order is of numbers or throws.
Compare(a, op, b) ==
    LET truth == CASE op = "==" -> Same(a, b) [] op = "!=" -> ~Same(a, b)
                   [] op = "<" -> a.x < b.x [] op = "<=" -> a.x <= b.x
                   [] op = ">" -> a.x > b.x [] op = ">=" -> a.x >= b.x
    IN IF op \notin {"==", "!="} /\ {a.t, b.t} # {"number"} THEN "error"
       ELSE IF truth THEN "true" ELSE "false"

\* evaluateComparison throws on a clause it cannot parse, on a tool that reported nothing, on a
\* field it did not report and on a literal that parseLiteral does not know.
EvaluateComparison(c, facts) ==
    IF c.op = None \/ c.tool \notin DOMAIN facts THEN "error"
    ELSE IF c.path \notin DOMAIN facts[c.tool] \/ c.literal.t = None THEN "error"
    ELSE Compare(facts[c.tool][c.path], c.op, c.literal)

\* The first outcome that is not `usual`: what some and every stop at.
FirstBut(outcomes, usual) ==
    LET i == SelectInSeq(outcomes, LAMBDA o : o # usual)
    IN IF i = 0 THEN usual ELSE outcomes[i]

EvaluateCondition(condition, facts) ==
    FirstBut([d \in DOMAIN condition |->
                 FirstBut([i \in DOMAIN condition[d] |-> EvaluateComparison(condition[d][i], facts)], "true")],
             "false")

\* evaluateRouter: the first branch whose condition holds; a throw on the way decides nothing.
EvaluateRouter(branches, facts) ==
    LET outcome(i) == EvaluateCondition(branches[i].condition, facts)
        first == SelectInSeq([i \in DOMAIN branches |-> outcome(i)], LAMBDA o : o # "false")
    IN [kind |-> IF first = 0 THEN "no_match"
                 ELSE IF outcome(first) = "error" THEN "evaluation_error" ELSE "matched",
        branch |-> first]

\* summaryFacts: what the last success of each tool among the parents lifted.
SummaryFacts(log, parents) ==
    LET toolOf == [v \in parents |->
                      LET i == SelectInSeq(log, LAMBDA e : e.type = "vertex/created" /\ e.v = v)
                      IN IF i = 0 THEN None ELSE log[i].p.tool]
        told == SelectSeq(log, LAMBDA e : /\ e.type = "vertex/succeeded" /\ e.v \in parents
                                          /\ toolOf[e.v] # None /\ e.p.lifted # <<>>)
    IN [t \in {toolOf[e.v] : e \in ToSet(told)} |->
           told[SelectLastInSeq(told, LAMBDA e : toolOf[e.v] = t)].p.lifted]

\* toSubmittedVertex: a branch is emitted without arguments, keys and references of its own.
Emitted(sub) ==
    [sub EXCEPT !.vertices = [i \in DOMAIN @ |->
        [@[i] EXCEPT !.ref = None, !.confirmed = FALSE, !.key = None, !.arg = None]]]

-----------------------------------------------------------------------------
(* Publication *)

\* IMPURE: a call, a clock or a blob.
Impure == {"now", "Date", "fetch", "require", "import", "blob", "await", "()"}

\* Q5, Q6 and Q1: a condition is not repeated, names no fallback, is pure and reads declared fields
\* only.  Whether it can be parsed is not asked.
ConditionViolations(branches, reg) ==
    LET clauses == UNION {ToSet(d) : d \in UNION {ToSet(b.condition) : b \in ToSet(branches)}}
    IN {"Q5" : i \in {i \in DOMAIN branches : \E j \in 1 .. i - 1 : branches[j].condition = branches[i].condition}}
       \cup (IF branches = <<>> THEN {"Q5"} ELSE {})
       \cup {"Q6" : c \in {c \in clauses : "fallback" \in c.words}}
       \cup {"Q1" : c \in {c \in clauses :
                \/ c.words \cap Impure # {}
                \/ c.tool # None /\ (c.tool \notin DOMAIN reg \/ c.path \notin reg[c.tool].fields)}}

\* Mutant: a branch is published without being checked by itself.
PublishRuleTemplate_NoBranchCheck(draft, reg) ==
    ConditionViolations(draft.branches, reg)
    \cup {"Q2" : b \in {b \in ToSet(draft.branches) : MissingTools(b.sub, reg) # {}}}

\* publishRuleTemplate: Q2 and the conditions first; each branch is then checked by itself (Q4).
PublishRuleTemplate(draft, reg) ==
    LET early == ConditionViolations(draft.branches, reg)
                 \cup {"Q2" : b \in {b \in ToSet(draft.branches) : MissingTools(b.sub, reg) # {}}}
    IN IF early # {} THEN early
       ELSE {"Q4" : b \in {b \in ToSet(draft.branches) : CheckSubDag(b.sub, reg, <<>>) # {}}}

\* The traits are derived, and with them the template's envelope (Q3).
Published(draft, reg) ==
    [draft EXCEPT !.branches = [i \in DOMAIN @ |-> TraitsOf(@[i], reg)]]
=============================================================================
