-------------------------------- MODULE Ranking --------------------------------
(***************************************************************************)
(* The ranking of the models of a problem by the Cairo program             *)
(* (src/prover/verification): every verification of a model is a matrix    *)
(* of its evaluations; a consensus matrix is made of them, and the         *)
(* model's error rate is the distance of the consensus to the real         *)
(* results.                                                                *)
(*                                                                         *)
(* This is about the Cairo functions alone, over a memory that holds a     *)
(* problem as their types say: model_ids, the verifications of every       *)
(* model, real_results.  The repository has no prover that fills memory    *)
(* so: the hints of handle_program_input and get_real_results name what    *)
(* does not exist, and a run of main that comes to rank_models with them   *)
(* fails (CairoProgram, BrokenArms).                                       *)
(***************************************************************************)
EXTENDS Integers, Enumeration

CONSTANT
  Prime            \* the field of the Cairo program

ASSUME RankingAssumption == Prime \in Nat /\ Prime > 2 /\ Prime % 2 = 1

\* Division in the field: half of an odd number is beyond every array.
half(n) == IF n % 2 = 0 THEN n \div 2 ELSE (n + Prime) \div 2

abs_value(x) == IF x < 0 THEN -x ELSE x

\* "TODO: Implement logic": the evaluations of one verification, not a median.
median_source(verifications) == verifications[half(Len(verifications)) + 1]

get_matrix_element_median(verifications, i, j) ==
  median_source(verifications).evaluations[i][j]

\* The size of the matrix is that of the first verification.
build_consensus_matrix(verifications) ==
  [i \in 1..verifications[1].num_test_problems |->
     [j \in 1..verifications[1].class_confidence |->
        get_matrix_element_median(verifications, i, j)]]

\* What the loops add up, of the first of an array to the last.
sums(distances) ==
  LET sum[n \in 0..Len(distances)] == IF n = 0 THEN 0 ELSE sum[n - 1] + distances[n]
  IN  sum

Total(distances) == sums(distances)[Len(distances)]

sum_row_error_distances(row, real) ==
  Total([j \in DOMAIN row |-> abs_value(row[j] - real[j])])

sum_matrix_error_distances(matrix, real_results) ==
  Total([i \in DOMAIN matrix |-> sum_row_error_distances(matrix[i], real_results[i])])

get_model_error_rate(verifications, real_results) ==
  sum_matrix_error_distances(build_consensus_matrix(verifications), real_results)

\* The cells of so many rows and columns are among those of the matrix.
Readable(matrix, rows, columns) ==
  Len(matrix) >= rows /\ \A i \in 1..rows : Len(matrix[i]) >= columns

\* What the functions read of a problem is in it.
ReadsWithin(problem) ==
  \A m \in DOMAIN problem.model_ids :
    LET vs == problem.verifications[m]
    IN  /\ vs # <<>>
        /\ half(Len(vs)) < Len(vs)
        /\ Readable(median_source(vs).evaluations,
                    vs[1].num_test_problems, vs[1].class_confidence)
        /\ Readable(problem.real_results, vs[1].num_test_problems, vs[1].class_confidence)

build_error_rates_array(problem) ==
  [m \in DOMAIN problem.model_ids |->
     get_model_error_rate(problem.verifications[m], problem.real_results)]

\* Sorted, and each rate once.
usort(rates) == Ascending(Elements(rates))

\* The last model of a rate.
find_model_id_last(model_ids, err_rates, err_rate) ==
  model_ids[CHOOSE m \in DOMAIN err_rates :
              err_rates[m] = err_rate /\ \A l \in DOMAIN err_rates : err_rates[l] = err_rate => l <= m]

find_model_id(model_ids, err_rates, err_rate) ==
  model_ids[CHOOSE m \in DOMAIN err_rates :
              err_rates[m] = err_rate /\ \A l \in 1..(m - 1) : err_rates[l] # err_rate]

build_rankings_array(model_ids, err_rates, sorted_err_rates) ==
  [k \in DOMAIN sorted_err_rates |-> find_model_id(model_ids, err_rates, sorted_err_rates[k])]

rank_models(problem) ==
  LET err_rates == build_error_rates_array(problem)
  IN  build_rankings_array(problem.model_ids, err_rates, usort(err_rates))

-----------------------------------------------------------------------------
(***************************************************************************)
(* A ranking names a model before another only if its error rate is        *)
(* smaller, and leaves a model out only for an earlier one of the same     *)
(* rate.                                                                   *)
(***************************************************************************)
RanksFirstOfEachRate(problem) ==
  LET ids   == problem.model_ids
      rates == build_error_rates_array(problem)
      ranks == rank_models(problem)
      rank(m) == {k \in DOMAIN ranks : ranks[k] = ids[m]}
  IN  \A m \in DOMAIN ids :
        /\ rank(m) = {} <=> \E l \in 1..(m - 1) : rates[l] = rates[m]
        /\ \A l \in DOMAIN ids :
             \A k \in rank(m), j \in rank(l) : k < j <=> rates[m] < rates[l]
=============================================================================
