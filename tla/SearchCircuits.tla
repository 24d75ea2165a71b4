---------------------------- MODULE SearchCircuits ----------------------------
(* Grover search over marked bitstrings (algorithms/grover.py) and over the    *)
(* assignments of a boolean expression (algorithms/sat_search.py): the         *)
(* circuits, gate by gate, and the choice of the number of iterations.         *)
EXTENDS Circuits

-------------------------------------------------------------------------------
(* grover.py.                                                                  *)

\* GroverProblem.__post_init__ accepts the problem; 2 stands for any character
\* that is not a digit of a bitstring.
ValidProblem(n, marked) ==
    /\ marked # <<>>
    /\ \A k \in DOMAIN marked : Len(marked[k]) = n /\ ToSet(marked[k]) \subseteq {0, 1}

OptimalIterationsUp(n, m) ==
    Max({k \in 1 .. Pow2[n] : 160000 * (k - 1) * (k - 1) * m <= 98696 * Pow2[n]})

\* max(1, floor(pi/4 sqrt(N/M))), with 98696 for 10000 pi^2.
OptimalIterations(n, m) == Max({1} \cup {k \in 1 .. Pow2[n] : 160000 * k * k * m <= 98696 * Pow2[n]})

MCZ(n) ==
    IF n = 1 THEN <<Gate("z", 0)>>
    ELSE <<Gate("h", n - 1), CX(0 .. n - 2, n - 1), Gate("h", n - 1)>>

ZeroBitsUnreversed(state) == {q \in 0 .. Len(state) - 1 : state[q + 1] = 0}

\* The qubits that read 0 in the state: the enumeration of the reversed string
\* gives character 0 to the rightmost.
ZeroBits(state) == {q \in 0 .. Len(state) - 1 : Character(state, q) = 0}

Oracle(marked, n) ==
    FlattenSeq([k \in DOMAIN marked |->
        Each("x", ZeroBits(marked[k]), n) \o MCZ(n) \o Each("x", ZeroBits(marked[k]), n)])

Diffuser(n) ==
    LET all(op) == Each(op, 0 .. n - 1, n)
    IN  all("h") \o all("x") \o MCZ(n) \o all("x") \o all("h")

Rounds(oracle, n, iterations) ==
    Each("h", 0 .. n - 1, n) \o FlattenSeq([r \in 1 .. iterations |-> oracle \o Diffuser(n)])

GroverCircuit(marked, n, iterations) == Rounds(Oracle(marked, n), n, iterations)

-------------------------------------------------------------------------------
(* sat_search.py.  An expression is given in postfix form, the way Python's    *)
(* eval leaves it on the operators of _Bit: names of variables, "~", "&", "|", *)
(* "^".                                                                        *)

Invert(b) == 1 - b
And(a, b) == a * b
Or(a, b) == a + b - a * b
Xor(a, b) == (a + b) % 2

EvalBooleanExpression(expression, assignment) ==
    LET apply(stack, token) ==
            IF token \in DOMAIN assignment THEN <<assignment[token]>> \o stack
            ELSE IF token = "~" THEN <<Invert(stack[1])>> \o SubSeq(stack, 2, Len(stack))
            ELSE LET b == stack[1]
                     a == stack[2]
                     c == CASE token = "&" -> And(a, b)
                            [] token = "|" -> Or(a, b)
                            [] token = "^" -> Xor(a, b)
                 IN  <<c>> \o SubSeq(stack, 3, Len(stack))
    IN  FoldLeft(LAMBDA st, token : With(st, LAMBDA stack : apply(stack, token)), <<>>, expression)[1] = 1

\* dict(zip(variables, bits)): a name that is listed twice keeps its last bit.
Assignment(variables, bits) ==
    [v \in ToSet(variables) |-> bits[Max({k \in DOMAIN variables : variables[k] = v})]]

\* Every assignment tried, the bitstring read off in reverse; `solutions` is
\* returned sorted, so a set says as much.
CountSolutions(variables, expression) ==
    {Reverse(bits) : bits \in {b \in BitStrings(Len(variables)) :
        EvalBooleanExpression(expression, Assignment(variables, b))}}

\* PhaseOracleGate: negates the basis states whose bits satisfy the expression,
\* variables[0] being qubit 0.
SatOracle(variables, expression) ==
    LET n == Len(variables)
    IN  PhaseOracle({i \in 0 .. Pow2[n] - 1 : EvalBooleanExpression(expression,
            Assignment(variables, [k \in 1 .. n |-> Bit(i, k - 1)]))})

SatCircuit(variables, expression, iterations) ==
    Rounds(<<SatOracle(variables, expression)>>, Len(variables), iterations)
===============================================================================
