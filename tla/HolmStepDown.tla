----------------------------- MODULE HolmStepDown -----------------------------
(***************************************************************************)
(* compute_holm_step_down (experiments/statistics.py): the adjusted        *)
(* p-values of a pre-registered family of hypotheses and which of them are *)
(* rejected.  A probability is a number of parts of Scale; the rounding of *)
(* floating-point products is left out.                                    *)
(***************************************************************************)
EXTENDS Integers, Sequences, SequencesExt

CONSTANTS
    Scale,           \* the probability 1
    PValues,         \* raw p-values a comparison may have, in 0..Scale
    FamilyAlphas,    \* significance levels of a family
    MaxHypotheses    \* bound: comparisons in a family

VARIABLES
    raw,       \* the raw p-values, in the order of the comparisons
    alpha,     \* the significance level of the family
    family     \* the computed family, <<>> before

vars == <<raw, alpha, family>>

-----------------------------------------------------------------------------
\* The comparisons by raw p-value, those with equal ones in their own order.
Ascending(p) ==
    SetToSortSeq(DOMAIN p, LAMBDA i, j : p[i] < p[j] \/ (p[i] = p[j] /\ i < j))

\* The backward pass: from the largest p-value down, each rank takes the larger of its
\* own product and of what the rank after it has.
Adjusted(p, order) ==
    LET m == Len(order)
        product(k) == p[order[k]] * (m - k + 1)
        pass[k \in 1..m] == IF k = m THEN p[order[m]] ELSE Max({pass[k + 1], product(k)})
    IN pass

HolmFamily(p, level) ==
    LET order == Ascending(p)
        value(k) == Min({Adjusted(p, order)[k], Scale})
    IN [k \in 1..Len(p) |-> [of |-> order[k], rank |-> k, raw |-> p[order[k]],
                             adjusted |-> value(k), rejected |-> value(k) <= level]]

Init ==
    /\ raw \in UNION {[1..m -> PValues] : m \in 1..MaxHypotheses}
    /\ alpha \in FamilyAlphas
    /\ family = <<>>

Compute ==
    /\ family = <<>>
    /\ family' = HolmFamily(raw, alpha)
    /\ UNCHANGED <<raw, alpha>>

Spec == Init /\ [][Compute]_vars

-----------------------------------------------------------------------------
\* The adjusted value of a rank is the largest of min(1, (m - j + 1) p(j)) over the ranks
\* j up to it (the development specification, section 11.10.5).
AdjustedAsSpecified ==
    \A k \in DOMAIN family :
        family[k].adjusted
          = Max({Min({Scale, (Len(family) - j + 1) * family[j].raw}) : j \in 1..k})
===============================================================================
