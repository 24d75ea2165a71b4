--------------------------- MODULE PhaseEstimation ----------------------------
(* Quantum phase estimation (algorithms/qpe.py) over the Fourier transform of  *)
(* algorithms/qft.py, for phases that t counting qubits can express: phi =     *)
(* k / 2^t.  Then the counting qubits stay unentangled, and each is a basis    *)
(* state or an equal superposition with a phase, counted in 2^t-ths of a turn. *)
EXTENDS Circuits

\* A qubit |b>, or |0> + exp(2 pi i p / 2^t) |1>.
Basis(b) == [kind |-> "basis", value |-> b]
Phase(p) == [kind |-> "phase", value |-> p]
Entangled == [kind |-> "entangled", value |-> 0]

\* External: Qiskit's gates on such registers; qubit q is entry q + 1.
Turn(t, qubit, p) ==
    IF qubit.kind = "phase" THEN Phase((qubit.value + p) % Pow2[t]) ELSE qubit

Hadamard(t, qubit) ==
    CASE qubit = Basis(0) -> Phase(0)
      [] qubit = Basis(1) -> Phase(Pow2[t - 1])
      [] qubit = Phase(0) -> Basis(0)
      [] qubit = Phase(Pow2[t - 1]) -> Basis(1)
      [] OTHER -> Entangled

\* A controlled phase p turns one qubit when the other is |1>.
ControlledPhase(t, reg, k, j, p) ==
    CASE reg[j + 1].kind = "basis" ->
            [reg EXCEPT ![k + 1] = Turn(t, @, p * reg[j + 1].value)]
      [] reg[k + 1].kind = "basis" ->
            [reg EXCEPT ![j + 1] = Turn(t, @, p * reg[k + 1].value)]
      [] OTHER -> [reg EXCEPT ![j + 1] = Entangled, ![k + 1] = Entangled]

Apply(t, reg, g) ==
    CASE g.op = "h" -> [reg EXCEPT ![g.a + 1] = Hadamard(t, @)]
      [] g.op = "cp" -> ControlledPhase(t, reg, g.a, g.b, g.phase)
      [] g.op = "swap" -> [reg EXCEPT ![g.a + 1] = reg[g.b + 1], ![g.b + 1] = reg[g.a + 1]]

Gates(t, reg, gates) ==
    LET state[i \in 0 .. Len(gates)] ==
            IF i = 0 THEN reg
            ELSE With(state[i - 1], LAMBDA r : Apply(t, r, gates[i]))
    IN  state[Len(gates)]

-------------------------------------------------------------------------------
(* qft.py.  An angle pi / 2^d is 2^(t-1-d) of the 2^t-ths.                      *)

H(j) == [op |-> "h", a |-> j, b |-> j, phase |-> 0]
CP(p, k, j) == [op |-> "cp", a |-> k, b |-> j, phase |-> p]
Swaps(t) ==
    [i \in 1 .. t \div 2 |-> [op |-> "swap", a |-> i - 1, b |-> t - i, phase |-> 0]]

QFT(t) ==
    Swaps(t) \o FlattenSeq([j \in 1 .. t |->
        <<H(j - 1)>> \o [c \in 1 .. t - j |-> CP(Pow2[t - 1 - c], j - 1 + c, j - 1)]])

\* Qubits t-1 .. 0, each H followed by the lower ones with negative angles.
InverseQFT(t) ==
    FlattenSeq([pos \in 1 .. t |->
        <<H(t - pos)>> \o [d \in 1 .. t - pos |-> CP(-Pow2[t - 1 - d], t - pos - d, t - pos)]])
    \o Swaps(t)

-------------------------------------------------------------------------------
(* qpe.py.                                                                     *)

\* A faulty variant, with which the property is tested.
KickbackOneMore(t, k) == [j \in 1 .. t |-> Turn(t, Phase(0), (k * Pow2[j]) % Pow2[t])]

\* H on the counting qubits, then U^(2^j) controlled by qubit j: with the target
\* in the eigenstate |1> of PhaseGate(2 pi k / 2^t) each turns its control.
Kickback(t, k) == [j \in 1 .. t |-> Turn(t, Phase(0), (k * Pow2[j - 1]) % Pow2[t])]

\* The register that is measured.
Measured(t, k) == Gates(t, Kickback(t, k), InverseQFT(t))

\* Its bitstring, leftmost character qubit t-1; <<>> if it were not certain.
PhaseBits(t, k) ==
    LET reg == Measured(t, k)
    IN  IF \A q \in 1 .. t : reg[q].kind = "basis" THEN [p \in 1 .. t |-> reg[t + 1 - p].value]
        ELSE <<>>

\* int(bitstring, 2), the numerator of phi_estimate over 2^t.
Estimate(bits) == Number(bits)
===============================================================================
