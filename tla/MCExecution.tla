------------------------------ MODULE MCExecution -----------------------------
(* Two experiments on one worker whose executor has one thread.  The first may *)
(* be any search on up to two qubits, one for few or for most states of three, *)
(* any phase on up to three counting qubits or two on four, or a VQE run; the  *)
(* second is taken before or after.                                            *)
EXTENDS Execution

CONSTANTS e1, e2

\* The states of a set in the order of their numbers.
Listed(S, n) == SelectSeq([i \in 1 .. 2^n |-> BitString(i - 1, n)], LAMBDA s : s \in S)

Grover(marked) == [algorithm |-> "grover", marked_states |-> marked]
Sat(variables, expression) ==
    [algorithm |-> "sat_grover", variables |-> variables, expression |-> expression]
Qpe(t, k) == [algorithm |-> "qpe", num_counting_qubits |-> t, phi |-> k]
Vqe(molecule) == [algorithm |-> "vqe", molecule |-> molecule]

\* Of three qubits, the sets of one, two, six and seven states are those of each
\* number that lie around some state.
Groveries ==
    UNION {{Grover(Listed(S, n)) : S \in SUBSET BitStrings(n) \ {{}}} : n \in 1 .. 2}
    \cup {Grover(Listed(S, 3)) : S \in
            UNION {{{s}, BitStrings(3) \ {s}} : s \in BitStrings(3)}
            \cup UNION {{{<<1, 1, 0>>, s}, BitStrings(3) \ {<<1, 1, 0>>, s}} :
                          s \in {<<0, 0, 1>>, <<1, 0, 0>>}}
            \cup {BitStrings(3)}}
    \cup {Grover(marked) : marked \in
            {<<>>, << <<>> >>, << <<0, 1>>, <<0, 1>> >>, << <<0, 1>>, <<0>> >>, << <<2>> >>}}

Sats ==
    {Sat(<<"a">>, x) : x \in {<<"a">>, <<"a", "~">>, <<"a", "a", "~", "&">>, <<"a", "a", "~", "|">>}}
    \cup {Sat(<<"a", "b">>, <<"a", "b", op>>) : op \in {"&", "|", "^"}}
    \cup {Sat(<<"a", "b">>, <<"a", "b", "~", op>>) : op \in {"&", "|", "^"}}
    \cup {Sat(<<"a", "b">>, <<"a", "c", "&">>)}
    \cup {Sat(<<"a", "b", "c">>, <<"a", "b", p, "c", "~", q>>) :
            p \in {"|", "^"}, q \in {"&", "^"}}

Qpes == UNION {{Qpe(t, k) : k \in 0 .. 2^t - 1} : t \in 1 .. 3} \cup {Qpe(4, k) : k \in {3, 10}}

\* A molecule generated from labels, its leftmost letter being the highest qubit,
\* with a Hartree-Fock state.
Lih == Generated([name |-> "lih",
    operator |-> <<[label |-> <<"Z", "I", "I">>, coefficient |-> 1500],
                   [label |-> <<"I", "I", "I">>, coefficient |-> -2000],
                   [label |-> <<"I", "Y", "X">>, coefficient |-> 300],
                   [label |-> <<"X", "Z", "Y">>, coefficient |-> 70]>>,
    nuclear_repulsion |-> 9922, inactive_energy |-> -60000, occupation |-> <<TRUE, FALSE, TRUE>>])

ASSUME \A n \in 0 .. 10 : Pow2[n] = 2^n

MCMolecules == "h2" :> H2 @@ "lih" :> Lih

ASSUME \A name \in DOMAIN MCMolecules : ValidHamiltonian(MCMolecules[name])

\* qft.py: the inverse is the adjoint of the forward construction, whose result on
\* a basis state is a product of phases.
ASSUME \A t \in 1 .. 5 : \A bits \in BitStrings(t) :
    LET reg == [q \in 1 .. t |-> Basis(bits[q])]
    IN  Gates(t, reg, QFT(t) \o InverseQFT(t)) = reg

MCPoints ==
    {<<1, 2, 3, 1>>, <<0, 3, 2, 1>>, <<1, 2, 3, 0, 1, 1>>, <<3, 1, 0, 2, 2, 1>>}

\* "beh2" is a molecule whose generation raises here: the toolchain is missing.
MCRequests ==
    e1 :> (Groveries \cup Sats \cup Qpes \cup {Vqe("h2"), Vqe("lih"), Vqe("beh2")})
    @@ e2 :> {Grover(<< <<1>> >>), Vqe("beh2")}
===============================================================================
