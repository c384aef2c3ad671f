---------------------------- MODULE Expressions -----------------------------
(***************************************************************************)
(* The expressions of a query: ParseExpr of internal/xsql/parser.go, which *)
(* builds the tree of an expression as it reads it, and ValuerEval of      *)
(* internal/xsql/valuer.go, which evaluates one.                           *)
(*                                                                         *)
(* An expression is read as operands that alternate with operators; what   *)
(* is in parentheses is an operand.  To evaluate, the leaves have values.  *)
(***************************************************************************)
EXTENDS Integers, Sequences, FiniteSets
LOCAL INSTANCE SequencesExt
LOCAL INSTANCE Bitwise

CONSTANTS
    NoValue,          \* no value
    Operators,     \* the operators that are read
    MaxOperators,  \* bound: how many an expression has
    Evaluated,     \* the expressions that are evaluated
    IntBits        \* the width of an integer, 64 in the code

ASSUME ExpressionAssumption == IntBits \in Nat \ {0, 1} /\ MaxOperators \in Nat

VARIABLES
    exprRead,   \* history: <<operator, operand>> of what has been read
    exprTree,   \* root.RHS of ParseExpr
    exprStage,  \* "read", "rejected", "stated" or "done"
    stated,     \* the expression that is evaluated
    evaluated   \* its value

exprVars == <<exprRead, exprTree, exprStage, stated, evaluated>>

Leaf(n)             == [op |-> "leaf", n |-> n]
Binary(op, lhs, rhs) == [op |-> op, lhs |-> lhs, rhs |-> rhs]

-----------------------------------------------------------------------------
(* Reading.                                                                *)

Precedence(op) ==
    CASE op = "OR" -> 1
      [] op = "AND" -> 2
      [] op \in {"=", "!=", "<", "<=", ">", ">=", "IN", "NOT IN",
                 "BETWEEN", "NOT BETWEEN", "LIKE", "NOT LIKE"} -> 3
      [] op \in {"+", "-", "|", "^"} -> 4
      [] op \in {"*", "/", "%", "&", "[]", "->"} -> 5

\* A set of IN, a pattern of LIKE, the bounds of BETWEEN are no binary
\* expressions, and nor is a leaf.
IsBinary(tree) == tree.op # "leaf"

\* What parseUnaryExpr reads behind an operator: a leaf, or a field of a field
\* (a.b or a->b), which parseFieldNameSections reads at once.
OperandsOf(op, n) ==
    {Leaf(n)} \cup IF op \in {"[]", "->", "BETWEEN", "NOT BETWEEN", "LIKE", "NOT LIKE"}
                   THEN {}
                   ELSE {Binary("->", Leaf(n), Leaf(n))}

\* Mutant: the tree is turned the other way for operators of one precedence.
RECURSIVE AttachEqualToTheRight(_, _, _)
AttachEqualToTheRight(tree, op, rhs) ==
    IF ~IsBinary(tree) \/ Precedence(tree.op) > Precedence(op)
    THEN Binary(op, tree, rhs)
    ELSE [tree EXCEPT !.rhs = AttachEqualToTheRight(tree.rhs, op, rhs)]

\* Where an operator and what follows it go: down the right side of the tree,
\* to the first that binds as closely.
RECURSIVE Attach(_, _, _)
Attach(tree, op, rhs) ==
    IF ~IsBinary(tree) \/ Precedence(tree.op) >= Precedence(op)
    THEN Binary(op, tree, rhs)
    ELSE [tree EXCEPT !.rhs = Attach(tree.rhs, op, rhs)]

\* The first operand.
ParseOperand ==
    /\ exprStage = "read" /\ exprRead = <<>>
    /\ \E operand \in OperandsOf("", 0) :
          exprTree' = operand /\ exprRead' = <<<<"", operand>>>>
    /\ UNCHANGED <<exprStage, stated, evaluated>>

\* One turn of the loop.  The bounds of BETWEEN are two operands and the AND
\* between them, here one leaf.
ParseOperator ==
    /\ exprStage = "read"
    /\ Len(exprRead) \in 1..MaxOperators
    /\ \E op \in Operators : \E operand \in OperandsOf(op, Len(exprRead)) :
          /\ exprTree' = Attach(exprTree, op, operand)
          /\ exprRead' = Append(exprRead, <<op, operand>>)
    /\ UNCHANGED <<exprStage, stated, evaluated>>

\* NOT before something else than IN, BETWEEN or LIKE, BETWEEN without AND, and
\* an operator without an operand are errors.
ParseFails ==
    /\ exprStage = "read" /\ exprRead # <<>>
    /\ exprStage' = "rejected"
    /\ UNCHANGED <<exprRead, exprTree, stated, evaluated>>

-----------------------------------------------------------------------------
(* Evaluating.  A number is its kind and a fraction in lowest terms: the   *)
(* rounding of floats is left out, and so are moments in time.             *)

Nil     == [t |-> "nil"]
Error   == [t |-> "error"]
Panic   == [t |-> "panic"]
Bool(b) == [t |-> "bool", b |-> b]
Str(s)  == [t |-> "string", s |-> s]
Arr(a)  == [t |-> "array", a |-> a]
Num(kind, n, d) == [t |-> kind, n |-> n, d |-> d]
Integer(n)  == Num("int", n, 1)
Unsigned(n) == Num("uint", n, 1)

IsNumber(x) == x.t \in {"int", "uint", "float"}

\* An integer that wraps around its width.
Wrapped(n) ==
    LET half == 2 ^ (IntBits - 1) IN ((n + half) % (2 * half)) - half

\* Division of integers as the machine does it, towards zero.
Magnitude(n) == IF n < 0 THEN -n ELSE n
Truncated(n, d) ==
    IF (n < 0) = (d < 0) THEN Magnitude(n) \div Magnitude(d)
                         ELSE -(Magnitude(n) \div Magnitude(d))

RECURSIVE Gcd(_, _)
Gcd(a, b) == IF b = 0 THEN a ELSE Gcd(b, a % b)
Float(n, d) ==
    LET g == Gcd(Magnitude(n), Magnitude(d))
        s == IF d < 0 THEN -1 ELSE 1
    IN  Num("float", s * (n \div g), s * (d \div g))

Relations  == {"=", "!=", "<", "<=", ">", ">="}
Arithmetic == {"+", "-", "*", "/", "%"}

\* Whether a relation holds, given whether the one is less than or equal to the other.
Related(op, less, equal) ==
    CASE op = "="  -> equal
      [] op = "!=" -> ~equal
      [] op = "<"  -> less
      [] op = "<=" -> less \/ equal
      [] op = ">"  -> ~less /\ ~equal
      [] op = ">=" -> ~less

\* Every integer becomes one of 64 bits, also an unsigned one that has no place there.
ConvertNum(x) == IF x.t = "uint" THEN Integer(Wrapped(x.n)) ELSE x

Remainder(n, m) == n - m * Truncated(n, m)

\* Of two integers.
IntegerOp(n, m, op) ==
    LET size == 2 ^ IntBits
    IN  IF op \in Relations THEN Bool(Related(op, n < m, n = m))
        ELSE IF op \notin Arithmetic \cup {"&", "|", "^"} THEN Error
        ELSE IF op \in {"/", "%"} /\ m = 0 THEN Error
        ELSE Integer(Wrapped(CASE op = "+" -> n + m
                           [] op = "-" -> n - m
                           [] op = "*" -> n * m
                           [] op = "/" -> Truncated(n, m)
                           [] op = "%" -> Remainder(n, m)
                           [] op = "&" -> (n % size) & (m % size)
                           [] op = "|" -> (n % size) | (m % size)
                           [] op = "^" -> (n % size) ^^ (m % size)))

\* Of two floats, which have no bits to speak of.
FloatOp(x, y, op) ==
    LET left == x.n * y.d  right == y.n * x.d
    IN  IF op \in Relations THEN Bool(Related(op, left < right, left = right))
        ELSE IF op \notin Arithmetic \/ (op \in {"/", "%"} /\ y.n = 0) THEN Error
        ELSE CASE op = "+" -> Float(left + right, x.d * y.d)
               [] op = "-" -> Float(left - right, x.d * y.d)
               [] op = "*" -> Float(x.n * y.n, x.d * y.d)
               [] op = "/" -> Float(left, right)
               [] op = "%" -> Float(Remainder(left, right), x.d * y.d)

NumberOp(lhs, rhs, op) ==
    IF lhs.t = "int" /\ rhs.t = "int" THEN IntegerOp(lhs.n, rhs.n, op)
                                      ELSE FloatOp(lhs, rhs, op)

BoolOp(b, c, op) ==
    CASE op \in {"AND", "&"} -> Bool(b /\ c)
      [] op \in {"OR", "|"}  -> Bool(b \/ c)
      [] op \in {"^", "!="}  -> Bool(b # c)
      [] op = "="            -> Bool(b = c)
      [] OTHER               -> Error

\* With nil a relation does not hold, and anything else is nil.
NilOp(op) ==
    IF op \in Relations \cup {"AND", "OR", "&", "|", "^"} THEN Bool(FALSE) ELSE Nil

\* The branches of the code for unsigned integers are never taken, for
\* convertNum leaves none; strings are numbered in their order.
SimpleDataEval(x, y, op) ==
    LET lhs == ConvertNum(x)  rhs == ConvertNum(y)
    IN  CASE x.t = "nil" \/ y.t = "nil"               -> NilOp(op)
          [] lhs.t = "bool" /\ rhs.t = "bool"         -> BoolOp(lhs.b, rhs.b, op)
          [] IsNumber(lhs) /\ IsNumber(rhs)           -> NumberOp(lhs, rhs, op)
          [] lhs.t = "string" /\ rhs.t = "string" /\ op \in Relations ->
                 Bool(Related(op, lhs.s < rhs.s, lhs.s = rhs.s))
          [] OTHER                                    -> Error

IsTrue(x)  == x.t = "bool" /\ x.b
IsFalse(x) == x.t = "bool" /\ ~x.b
Negated(x) == IF x.t = "bool" THEN Bool(~x.b) ELSE x

\* lhs [NOT] BETWEEN bounds, of which nil makes nil.
BetweenOf(lhs, lower, higher, not) ==
    LET left  == SimpleDataEval(lhs, lower, ">=")
        right == SimpleDataEval(lhs, higher, "<=")
        both  == SimpleDataEval(left, right, "AND")
    IN  IF Nil \in {lhs, lower, higher} THEN Bool(FALSE)
        ELSE IF Error \in {left, right} THEN Error
        ELSE IF not THEN Negated(both) ELSE both

\* lhs [NOT] IN set: the first element that is equal or that cannot be compared
\* decides.  What is no set has no length, and asking for it panics.
EvalSets(lhs, set, not) ==
    LET Equals(i) == SimpleDataEval(lhs, set.a[i], "=")
        decides   == {i \in DOMAIN set.a : IsTrue(Equals(i)) \/ Equals(i) = Error}
        first     == CHOOSE i \in decides : \A j \in decides : i <= j
    IN  IF set = Nil THEN Bool(not)
        ELSE IF lhs = Nil THEN Bool(FALSE)
        ELSE IF set.t # "array" THEN Panic
        ELSE IF decides = {} THEN Bool(not)
        ELSE IF Equals(first) = Error THEN Error ELSE Bool(~not)

Open == -2147483647 - 1   \* math.MinInt32: a slice without an end

\* Counted from the end of an array if negative.
Position(n, length) == IF n < 0 THEN n + length ELSE n

\* array[start], which is a slice that ends where it starts, and array[start:end].
\* A negative end is not compared with the start: the slice of the array panics.
Subset(array, start, end) ==
    LET length == Len(array)
        from == Position(start, length)
        to   == IF end = Open THEN length ELSE Position(end, length)
    IN  IF from \notin 0..(length - 1) THEN Error
        ELSE IF start = end THEN array[from + 1]
        ELSE IF end # Open /\ end >= 0 /\ (to > length \/ from >= to) THEN Error
        ELSE IF to < 0 THEN Error
        ELSE IF from > to THEN Panic ELSE Arr(SubSeq(array, from + 1, to))

\* CASE: the first WHEN that is equal to the value, or true if there is none,
\* gives the result, unless one before it cannot be evaluated.
EvalCase(value, whens, otherwise) ==
    LET Meets(i) == IF value = NoValue THEN whens[i].when
                                    ELSE SimpleDataEval(value, whens[i].when, "=")
        decides  == {i \in DOMAIN whens : IsTrue(Meets(i)) \/ Meets(i) = Error}
        first    == CHOOSE i \in decides : \A j \in decides : i <= j
    IN  IF decides = {} THEN otherwise
        ELSE IF Meets(first) = Error THEN Error ELSE whens[first].result

\* Eval: what is not evaluated, because AND and OR are decided by what stands
\* on their left, or because it is an error, has no effect.
RECURSIVE Eval(_)
Eval(e) ==
    CASE e.op = "value" -> e.v
      [] e.op = "case"  -> EvalCase(e.value, e.whens, e.otherwise)
      [] e.op \in {"between", "in"} /\ e.lhs.t \in {"array", "error"} -> Error
      [] e.op = "between" -> BetweenOf(e.lhs, e.lower, e.higher, e.not)
      [] e.op = "in"    -> EvalSets(e.lhs, e.set, e.not)
      [] e.op = "[]"    -> IF e.lhs.t = "array" THEN Subset(e.lhs.a, e.start, e.end)
                           ELSE IF e.lhs = Nil THEN Nil ELSE Error
      [] OTHER ->
            LET lhs == Eval(e.lhs)
                rhs == Eval(e.rhs)
            IN  IF lhs = Error THEN Error
                ELSE IF e.op = "AND" /\ IsFalse(lhs) THEN Bool(FALSE)
                ELSE IF e.op = "OR" /\ IsTrue(lhs) THEN Bool(TRUE)
                ELSE IF lhs.t = "array" \/ rhs = Error THEN Error
                ELSE SimpleDataEval(lhs, rhs, e.op)

Evaluate ==
    /\ exprStage = "stated"
    /\ exprStage' = "done"
    /\ evaluated' = Eval(stated)
    /\ UNCHANGED <<exprRead, exprTree, stated>>

-----------------------------------------------------------------------------
ExprInit ==
    /\ exprRead = <<>> /\ exprTree = NoValue /\ evaluated = NoValue
    /\ \/ exprStage = "read" /\ stated = NoValue
       \/ exprStage = "stated" /\ stated \in Evaluated

ExprNext == ParseOperand \/ ParseOperator \/ ParseFails \/ Evaluate

\* Every expression is read and evaluated.
ExprSpec == ExprInit /\ [][ExprNext]_exprVars

-----------------------------------------------------------------------------
(* What holds of reading.                                                  *)

\* The tree of what has been read, where some operators bind more closely than any
\* other: the last operator of the lowest precedence is its root.
RECURSIVE TreeOf(_, _)
TreeOf(items, closest) ==
    LET Bind(k) == IF items[k][1] \in closest THEN 6 ELSE Precedence(items[k][1])
        root    == CHOOSE k \in 2..Len(items) : \A i \in 2..Len(items) :
                       Bind(i) > Bind(k) \/ (Bind(i) = Bind(k) /\ i <= k)
        right   == <<<<"", items[root][2]>>>> \o SubSeq(items, root + 1, Len(items))
    IN  IF Len(items) = 1 THEN items[1][2]
        ELSE Binary(items[root][1], TreeOf(SubSeq(items, 1, root - 1), closest),
                                    TreeOf(right, closest))

\* However the tree was turned while it grew (parser.go:619-627), operators bind by their
\* precedence, and those of the same from the left.
PrecedenceKept == exprRead # <<>> => exprTree = TreeOf(exprRead, {})

\* A field or an element is taken of the operand it stands behind, as in common languages
\* (json_expr.md:76).  (The code does not satisfy this: README, section 8.)
FieldsBindFirst == exprRead # <<>> => exprTree = TreeOf(exprRead, {"[]", "->"})

RECURSIVE KeepsBounds(_)
KeepsBounds(tree) ==
    IsBinary(tree) =>
        /\ KeepsBounds(tree.lhs) /\ KeepsBounds(tree.rhs)
        /\ tree.op \in {"BETWEEN", "NOT BETWEEN"} => ~IsBinary(tree.rhs)

\* The bounds of BETWEEN are expressions (query_language_elements.md:326): an operator behind
\* them belongs to the upper one, and does not take both for its operand (parser.go:619-627, 630-651).
\* (The code does not satisfy this: README, section 8.)
BoundsAreBounds == exprRead # <<>> => KeepsBounds(exprTree)

-----------------------------------------------------------------------------
(* What holds of evaluating.                                               *)

Value(v) == [op |-> "value", v |-> v]

Values == [t : {"int"}, n : -(2 ^ (IntBits - 1))..2 ^ (IntBits - 1) - 1, d : {1}]

\* Every variable has the values it can have; an integer that has been computed
\* fits its width.
ExprTypeOK ==
    /\ exprStage \in {"read", "rejected", "stated", "done"}
    /\ Len(exprRead) <= MaxOperators + 1
    /\ (exprStage = "done") = (evaluated # NoValue)
    /\ exprStage = "done" /\ evaluated.t = "int" => evaluated \in Values

Done(op) == exprStage = "done" /\ stated.op = op

Fits(x) == IsNumber(x) /\ x.n < 2 ^ (IntBits - 1)

\* Whatever the kinds of two numbers are, a relation is that of the numbers they stand for
\* (valuer.go:869-1052), where an integer fits 64 bits.
ComparesTruly ==
    exprStage = "done" /\ stated.op \in Relations =>
        LET x == stated.lhs.v  y == stated.rhs.v
        IN  Fits(x) /\ Fits(y) =>
                evaluated = Bool(Related(stated.op, x.n * y.d < y.n * x.d, x.n * y.d = y.n * x.d))

\* A number is compared as the number it is, also an unsigned one above the largest signed
\* one (valuer.go:1255-1283).  (The code does not satisfy this: README, section 8.)
NumbersAreTheirValues ==
    exprStage = "done" /\ stated.op \in Relations =>
        LET x == stated.lhs.v  y == stated.rhs.v
        IN  IsNumber(x) /\ IsNumber(y) =>
                evaluated = Bool(Related(stated.op, x.n * y.d < y.n * x.d, x.n * y.d = y.n * x.d))

\* The quotient and the remainder of two integers give back the integer, also where signs
\* differ and where the quotient wraps (valuer.go:973-989).
DivisionAddsUp ==
    Done("/") /\ evaluated.t = "int" =>
        SimpleDataEval(SimpleDataEval(evaluated, stated.rhs.v, "*"),
                       SimpleDataEval(stated.lhs.v, stated.rhs.v, "%"), "+")
            = ConvertNum(stated.lhs.v)

\* BETWEEN is what its two comparisons under AND are, and NOT BETWEEN the opposite, where
\* nothing is nil and the upper bound can be compared (valuer.go:614-638).
BetweenIsAnd ==
    Done("between") /\ Nil \notin {stated.lhs, stated.lower, stated.higher}
    /\ SimpleDataEval(stated.lhs, stated.higher, "<=") # Error =>
        LET both == Eval(Binary("AND",
                            Binary(">=", Value(stated.lhs), Value(stated.lower)),
                            Binary("<=", Value(stated.lhs), Value(stated.higher))))
        IN  evaluated = IF stated.not THEN Negated(both) ELSE both

\* x = a OR x = b OR ...
Alternatives(x, elements) ==
    FoldLeft(LAMBDA tree, v : Binary("OR", tree, Binary("=", Value(x), Value(v))),
             Value(Bool(FALSE)), elements)

\* IN is what its equalities under OR are, including which error comes of it, and NOT IN the
\* opposite, unless the left side is nil or an error (valuer.go:727-758).
InIsOr ==
    Done("in") /\ stated.set.t = "array" /\ stated.lhs \notin {Nil, Error} =>
        LET any == Eval(Alternatives(stated.lhs, stated.set.a))
        IN  evaluated = IF stated.not THEN Negated(any) ELSE any

\* IN and NOT IN are nil where the comment above them says so: the left side is nil, or none
\* is equal and the set has a nil (valuer.go:710-726).
\* (The code does not satisfy this: README, section 8.)
InAsCommented ==
    Done("in") /\ stated.set.t = "array" /\ stated.set.a # <<>> /\ stated.lhs = Nil =>
        evaluated = Nil

\* A CASE that asks whether a value is one of several agrees with IN (valuer.go:659-689).
CaseIsIn ==
    Done("case") /\ stated.value # NoValue /\ stated.value # Error =>
        evaluated = EvalSets(stated.value,
                             Arr([i \in DOMAIN stated.whens |-> stated.whens[i].when]), FALSE)

\* An element or a slice is the one asked for, counted from either end, and an error where
\* there is none (valuer.go:788-829).  It says nothing of a slice that ends where it
\* starts, nor of one that ends at a place counted from the end and before its start.
SubsetIsExact ==
    Done("[]") /\ stated.lhs.t = "array" =>
        LET array == stated.lhs.a
            from  == Position(stated.start, Len(array))
            to    == IF stated.end = Open THEN Len(array) ELSE Position(stated.end, Len(array))
            slice == Arr([i \in 1..(to - from) |-> array[from + i]])
        IN  IF stated.start = stated.end
            THEN evaluated = IF from \in 0..(Len(array) - 1) THEN array[from + 1] ELSE Error
            ELSE /\ 0 <= from /\ from < to /\ to <= Len(array) => evaluated = slice
                 /\ from \notin 0..(Len(array) - 1) \/ to \notin 0..Len(array) => evaluated = Error

\* No expression that is evaluated ends the operator (valuer.go:739, 823).
\* (The code does not satisfy this: README, section 8.)
NothingPanics == evaluated # Panic

\* OR holds if either side does, whichever is written first (valuer.go:592-604, 832-840).
\* (The code does not satisfy this: README, section 8.)
OrCommutes == Done("OR") /\ evaluated # Error =>
                 Eval(Binary("OR", stated.rhs, stated.lhs)) \in {evaluated, Error}

\* An expression is read by the precedence of its operators, and its value is that of the
\* operations it is short for, with numbers of any width, nil, errors and empty sets among
\* its operands (parser.go:600-640, valuer.go:700-1283).
ExpressionsSound ==
    /\ ExprTypeOK
    /\ PrecedenceKept
    /\ ComparesTruly /\ DivisionAddsUp
    /\ BetweenIsAnd /\ InIsOr /\ CaseIsIn /\ SubsetIsExact
=============================================================================
