------------------------------- MODULE Circuits -------------------------------
(* What the gates of a Qiskit circuit do to a state vector: external code that *)
(* the circuits of quantum_core/algorithms are built from and AerSimulator     *)
(* runs.  The vectors are exact: amplitudes are Gaussian integers and H and RY *)
(* are left without their factor 1/sqrt(2), so a vector is known up to a       *)
(* positive factor.  Rotation angles are multiples of pi/2.                    *)
EXTENDS Integers, SequencesExt

\* 2^n, by the recursion that what is proved about circuits rests on.
Pow2[n \in Nat] == IF n = 0 THEN 1 ELSE 2 * Pow2[n - 1]

\* A gate: its name, its target qubit, its control qubits and, for RY, its angle
\* in units of pi/2 or, for a phase oracle, the set of basis states it negates.
Gate(op, q) == [op |-> op, qubit |-> q, on |-> {}, arg |-> 0]
CX(controls, q) == [op |-> "x", qubit |-> q, on |-> controls, arg |-> 0]
RY(k, q) == [op |-> "ry", qubit |-> q, on |-> {}, arg |-> k]
PhaseOracle(states) == [op |-> "phase", qubit |-> 0, on |-> {}, arg |-> states]

\* The same gate on each qubit of Q, the lowest first.
Each(op, Q, n) ==
    FlattenSeq([k \in 1 .. n |-> IF k - 1 \in Q THEN <<Gate(op, k - 1)>> ELSE <<>>])

-------------------------------------------------------------------------------
(* State vectors: entry i + 1 is the amplitude <<re, im>> of basis state i.    *)

\* Bit q of basis state i, as a number and as a sign, and i with that bit flipped.
Bit(i, q) == (i \div Pow2[q]) % 2
Sign(i, q) == 1 - 2 * Bit(i, q)
Flipped(i, q) == i + Sign(i, q) * Pow2[q]

\* SubSeq makes TLC compute the vector once and not at each of its uses.
Vector(n, Amplitude(_)) == SubSeq([i \in 1 .. Pow2[n] |-> Amplitude(i - 1)], 1, Pow2[n])

Ground(n) == Vector(n, LAMBDA i : <<IF i = 0 THEN 1 ELSE 0, 0>>)

Norm2(a) == a[1] * a[1] + a[2] * a[2]

\* A common factor 2 is dropped: positive factors do not matter.
Halved(psi) ==
    IF \A i \in DOMAIN psi : psi[i][1] % 2 = 0 /\ psi[i][2] % 2 = 0
    THEN [i \in DOMAIN psi |-> <<psi[i][1] \div 2, psi[i][2] \div 2>>] ELSE psi

Scaled(k, a, l, b) == <<k * a[1] + l * b[1], k * a[2] + l * b[2]>>

\* RY(k pi/2), up to 1/sqrt(2): cosine and sine of k pi/4.
Cos(k) == <<1, 1, 0, -1>>[k + 1]
Sin(k) == <<0, 1, 1, 1>>[k + 1]

\* The amplitude of basis state i after gate g.
Amplitude(g, psi, i) ==
    LET a == psi[i + 1]
        b == psi[Flipped(i, g.qubit) + 1]
        s == Sign(i, g.qubit)
    IN  IF \E q \in g.on : Bit(i, q) = 0 THEN a
        ELSE CASE g.op = "phase" -> Scaled(IF i \in g.arg THEN -1 ELSE 1, a, 0, a)
               [] g.op = "x" -> b
               [] g.op = "z" -> Scaled(s, a, 0, a)
               [] g.op = "sdg" -> IF s = 1 THEN a ELSE <<a[2], -a[1]>>
               [] g.op = "ry" -> Scaled(Cos(g.arg), a, -s * Sin(g.arg), b)
               [] g.op = "h" -> Scaled(s, a, 1, b)

\* A bound variable, unlike a parameter, is evaluated once: F(v) for the value v.
With(v, F(_)) == CHOOSE w \in {F(u) : u \in {v}} : TRUE

After(n, psi, g) == With(Vector(n, LAMBDA i : Amplitude(g, psi, i)), Halved)

Through(n, psi, gates) ==
    LET state[k \in 0 .. Len(gates)] ==
            IF k = 0 THEN psi ELSE With(state[k - 1], LAMBDA phi : After(n, phi, gates[k]))
    IN  state[Len(gates)]

Evolve(n, gates) == Through(n, Ground(n), gates)

-------------------------------------------------------------------------------
(* Measurement.                                                                *)

\* The bitstring of basis state i: its leftmost character is qubit n-1.
BitString(i, n) == [p \in 1 .. n |-> Bit(i, n - p)]
BitStrings(n) == [1 .. n -> {0, 1}]

\* The character of a bitstring that belongs to qubit q.
Character(s, q) == s[Len(s) - q]

\* The basis state that a bitstring names.
Number(s) ==
    LET number[i \in 0 .. Len(s)] == IF i = 0 THEN 0 ELSE 2 * number[i - 1] + s[i]
    IN  number[Len(s)]

\* The histogram of measure_all in proportion: each outcome with its weight.
\* Finite samples of it are not modelled.
Histogram(n, psi) ==
    LET weight(s) == Norm2(psi[1 + Number(s)])
    IN  [s \in {t \in BitStrings(n) : weight(t) > 0} |-> weight(s)]

\* Shots in total, and shots that fell into S.
Shots(counts) == FoldFunction(+, 0, counts)
Within(counts, S) == FoldFunctionOnSet(+, 0, counts, S \cap DOMAIN counts)
===============================================================================
