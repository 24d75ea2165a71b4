------------------------------ MODULE VqeCircuits -----------------------------
(* The quantum half of VQE (algorithms/vqe.py) and the Hamiltonians it         *)
(* measures (chemistry/molecules.py).  Coefficients are integers, in           *)
(* ten-thousandths of a Hartree; parameters are multiples of pi/2.             *)
EXTENDS Circuits

-------------------------------------------------------------------------------
(* molecules.py.                                                               *)

\* A coefficient and a Pauli letter for each of some qubits.
PauliTerm(c, qubits) == [coefficient |-> c, qubits |-> qubits]

ValidTerm(term) ==
    /\ \A q \in DOMAIN term.qubits : q >= 0
    /\ \A q \in DOMAIN term.qubits : term.qubits[q] \in {"X", "Y", "Z"}

\* MolecularHamiltonian.__post_init__.
ValidHamiltonian(m) ==
    /\ m.num_qubits >= 1
    /\ m.terms # <<>>
    /\ \A k \in DOMAIN m.terms :
          ValidTerm(m.terms[k]) /\ \A q \in DOMAIN m.terms[k].qubits : q < m.num_qubits
    /\ m.initial_state # <<>> => Len(m.initial_state) = m.num_qubits

TotalEnergyOffset(m) == m.nuclear_repulsion + m.inactive_energy

NoQubits == [q \in {} |-> "Z"]

H2 == [name |-> "h2", num_qubits |-> 2,
       terms |-> <<PauliTerm(-4804, NoQubits),
                   PauliTerm(3435, (0 :> "Z")),
                   PauliTerm(-4347, (1 :> "Z")),
                   PauliTerm(5716, (0 :> "Z") @@ (1 :> "Z")),
                   PauliTerm(910, (0 :> "Y") @@ (1 :> "Y")),
                   PauliTerm(910, (0 :> "X") @@ (1 :> "X"))>>,
       nuclear_repulsion |-> 7056, inactive_energy |-> 0, initial_state |-> <<>>]

\* The factors of an operator's label: its leftmost letter is the highest qubit.
Qubits(label) ==
    [q \in {k \in 0 .. Len(label) - 1 : Character(label, k) # "I"} |-> Character(label, q)]

\* _generate_molecule, given what PySCF and Qiskit Nature computed: the labels
\* of the mapped operator with their coefficients, the scalars left out of it,
\* and the Hartree-Fock occupation of qubits 0, 1, ...
Generated(problem) ==
    [name |-> problem.name, num_qubits |-> Len(problem.operator[1].label),
     terms |-> [k \in DOMAIN problem.operator |->
                   PauliTerm(problem.operator[k].coefficient, Qubits(problem.operator[k].label))],
     nuclear_repulsion |-> problem.nuclear_repulsion,
     inactive_energy |-> problem.inactive_energy,
     initial_state |-> problem.occupation]

-------------------------------------------------------------------------------
(* vqe.py.                                                                     *)

ParameterCount(n) == 2 * n

\* HardwareEfficientAnsatz.build: the initial state, RY on every qubit, CX from
\* each qubit to the next lower one in descending order, RY again.
Ansatz(n, params, initial_state) ==
    Each("x", {q \in 0 .. Len(initial_state) - 1 : initial_state[q + 1]}, n)
    \o [q \in 1 .. n |-> RY(params[q], q - 1)]
    \o [c \in 1 .. n - 1 |-> CX({n - c}, n - c - 1)]
    \o [q \in 1 .. n |-> RY(params[n + q], q - 1)]

BasisRotationSwapped(pauli, q) ==
    CASE pauli = "X" -> <<Gate("h", q)>>
      [] pauli = "Y" -> <<Gate("h", q), Gate("sdg", q)>>
      [] pauli = "Z" -> <<>>

\* What turns the eigenbasis of a Pauli operator into the computational one.
BasisRotation(pauli, q) ==
    CASE pauli = "X" -> <<Gate("h", q)>>
      [] pauli = "Y" -> <<Gate("sdg", q), Gate("h", q)>>
      [] pauli = "Z" -> <<>>

\* build_measurement_circuit.
MeasurementCircuit(params, term, m) ==
    Ansatz(m.num_qubits, params, m.initial_state)
    \o FlattenSeq([k \in 1 .. m.num_qubits |->
           IF k - 1 \in DOMAIN term.qubits THEN BasisRotation(term.qubits[k - 1], k - 1) ELSE <<>>])

\* pauli_expectation_from_counts, before the division by the number of shots:
\* the parity of the term's own bits is the sign, other qubits do not count.
SignedShots(counts, term) ==
    LET odd(s) == Cardinality({q \in DOMAIN term.qubits : Character(s, q) = 1}) % 2 = 1
    IN  Shots(counts) - 2 * Within(counts, {s \in DOMAIN counts : odd(s)})

-------------------------------------------------------------------------------
(* The reference: <psi| P |psi> of a Pauli string on the ansatz state.         *)

\* P maps basis state i to Image(i), times a power of the imaginary unit.
Image(P, i) ==
    i + MapThenSumSet(LAMBDA q : IF P[q] = "Z" THEN 0 ELSE Sign(i, q) * Pow2[q], DOMAIN P)
Quarters(P, i) ==
    MapThenSumSet(LAMBDA q : CASE P[q] = "X" -> 0
                               [] P[q] = "Z" -> 2 * Bit(i, q)
                               [] P[q] = "Y" -> 1 + 2 * Bit(i, q), DOMAIN P) % 4

\* The real part of conj(b) * i^k * a.
RealPart(a, b, k) ==
    CASE k = 0 -> a[1] * b[1] + a[2] * b[2]
      [] k = 1 -> a[1] * b[2] - a[2] * b[1]
      [] k = 2 -> -(a[1] * b[1] + a[2] * b[2])
      [] k = 3 -> a[2] * b[1] - a[1] * b[2]

\* <psi| P |psi>, for a vector psi of 2^n entries that is not normalised.
Expectation(n, psi, P) ==
    MapThenSumSet(LAMBDA i : RealPart(psi[i + 1], psi[Image(P, i) + 1], Quarters(P, i)), 0 .. Pow2[n] - 1)
===============================================================================
