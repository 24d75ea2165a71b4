------------------------------- MODULE Canonical ------------------------------
(* canonical_experiment_text (result-indexer/app/canonical.py): the text that  *)
(* stands for an experiment in the semantic index.  A text is the function     *)
(* from the labels of its lines to their values; a line whose value is None is *)
(* dropped.  Parameters and results are records, read by key.  Left out are    *)
(* the lines that repeat the configuration (shots, maximum iterations), the    *)
(* error text, and the branch for an algorithm the API does not admit.         *)
EXTENDS Integers, FiniteSets, SequencesExt

CONSTANT None   \* no value

\* dict.get.
Get(dict, key) == IF key \in DOMAIN dict THEN dict[key] ELSE None

\* `parameters.get(...) or result.get(...)`: the first that is there.
FirstOf(a, b) == IF a # None THEN a ELSE b

Energies(history) == [k \in DOMAIN history |-> history[k].energy]

\* The lines of the algorithm, None included.
Lines(algorithm, parameters, result) ==
    CASE algorithm = "vqe" ->
            "Molecule" :> FirstOf(Get(parameters, "molecule"), FirstOf(Get(result, "molecule"), "h2"))
            @@ "Energy (Ha)" :> Get(result, "energy")
            @@ "Optimizer iterations" :> Get(result, "iterations")
            @@ "Converged" :> Get(result, "converged")
            @@ IF FirstOf(Get(result, "history"), <<>>) = <<>> THEN <<>>
               ELSE LET energies == Energies(result.history)
                    IN  "Initial energy (Ha)" :> energies[1]
                        @@ "Best energy (Ha)" :> Min(ToSet(energies))
                        @@ "Energy trajectory (Ha)" :> energies
      [] algorithm \in {"grover", "sat_grover"} ->
            "Marked states" :> Get(parameters, "marked_states")
            @@ "Boolean expression" :> Get(parameters, "expression")
            @@ "Measurement counts" :> Get(result, "counts")
      [] algorithm = "qpe" ->
            "True phase" :> Get(parameters, "phi")
            @@ "Counting qubits" :> Get(parameters, "num_counting_qubits")
            @@ "Estimated phase" :> Get(result, "estimated_phase")
            @@ "Measurement counts" :> Get(result, "counts")

CanonicalText(algorithm, status, parameters, result) ==
    LET all == "Algorithm" :> algorithm @@ "Status" :> status @@ Lines(algorithm, parameters, result)
    IN  [label \in {l \in DOMAIN all : all[l] # None} |-> all[label]]
===============================================================================
