------------------------------- MODULE MCGiven -------------------------------
(***************************************************************************)
(* GivenClause on the clauses over two constants a > b, the predicate P    *)
(* and the propositions Q:                                                 *)
(*   "E" a=b   "EQ" a=b|Q   "Pa" "Pb" "Px" P(a), P(b), P(x)                *)
(*   "Na" "Nb" -P(a), -P(b)   "PaQ" "PbQ" P(a)|Q, P(b)|Q   "Q" "NQ" Q, -Q  *)
(*   "PP" P(x)|P(y), which has the factor P(x)                             *)
(*   "PaNb" P(a)|-P(b), which a=b makes a tautology, "True"                *)
(* with some of the inferences between them.                               *)
(***************************************************************************)
EXTENDS GivenClause

Bodies  == {"Empty", "E", "EQ", "Pa", "Pb", "Px", "Na", "Nb", "PaQ", "PbQ", "Q", "NQ", "PP",
            "PaNb", "True"}
Units   == {"E", "Pa", "Pb", "Px", "Na", "Nb", "Q", "NQ"}
Denials == {"Na", "Nb", "NQ"}
Heavy   == {"PbQ", "Nb"}

Instances == {<<"Px", "Pa">>, <<"Px", "Pb">>}
Longer    == {<<"Pa", "PaQ">>, <<"Pb", "PbQ">>, <<"Px", "PaQ">>, <<"Px", "PbQ">>,
              <<"Q", "PaQ">>, <<"Q", "PbQ">>, <<"Q", "EQ">>, <<"E", "EQ">>, <<"Px", "PP">>,
              <<"Pa", "PaNb">>, <<"Px", "PaNb">>, <<"Nb", "PaNb">>}
Subsumption == Instances \cup Longer \cup {<<b, b>> : b \in Bodies \ {"Empty"}}

Complements == {<<"Pa", "Na">>, <<"Pb", "Nb">>, <<"Px", "Na">>, <<"Px", "Nb">>, <<"Q", "NQ">>}
Opposite    == Complements \cup {<<p[2], p[1]>> : p \in Complements}

\* a is rewritten to b.
Rewriting == {<<"E", "Pa", "Pb">>, <<"E", "Na", "Nb">>, <<"E", "PaQ", "PbQ">>,
               <<"E", "PaNb", "True">>}

\* A literal falls to a unit that subsumes its complement.
Shorter == {<<"NQ", "PaQ", "Pa">>, <<"NQ", "PbQ", "Pb">>, <<"NQ", "EQ", "E">>,
            <<"Na", "PaQ", "Q">>, <<"Nb", "PbQ", "Q">>,
            <<"Na", "PaNb", "Nb">>, <<"Pb", "PaNb", "Pa">>}
Deletion == Shorter \cup {<<p[1], p[2], "Empty">> : p \in {q \in Opposite : q[2] # "Px"}}

Inferred(b, c) ==
  {s[3] : s \in {t \in Shorter : {t[1], t[2]} = {b, c}}}
  \cup {r[3] : r \in {t \in Rewriting : {t[1], t[2]} = {b, c}}}
  \cup (IF {b, c} = {"EQ", "Pa"} THEN {"PbQ"} ELSE {})
  \cup (IF {b, c} = {"EQ", "PaQ"} THEN {"PbQ"} ELSE {})
  \cup (IF <<b, c>> \in Opposite THEN {"Empty"} ELSE {})
Inference == [p \in Bodies \X Bodies |-> Inferred(p[1], p[2])]

Factoring == [b \in Bodies |-> IF b = "PP" THEN {"Px"} ELSE {}]

\* Input lists: one or two clauses in Sos, or the equation, a denial and a third,
\* or two with one clause in Usable.
Start == {"E", "EQ", "Pa", "Px", "Na", "PaQ", "NQ", "PP", "PaNb"}
SosOf(sizes) == {s \in SUBSET Start : Cardinality(s) \in sizes}
Refutable(S) == {s \in S : "E" \in s /\ s \cap Denials # {}}
Inputs == {<<>>} \X (SosOf({1, 2}) \cup Refutable(SosOf({3}))) \cup {<<"PaQ">>} \X SosOf({2})

\* search_loop, restrict_denials, unit_deletion, limits
Settings == BOOLEAN \X BOOLEAN \X BOOLEAN \X {FALSE}
            \cup {<<FALSE, FALSE, FALSE, TRUE>>, <<TRUE, FALSE, FALSE, TRUE>>}

Problem(set, n, in) ==
  [discount |-> set[1], restrict |-> set[2], unitDeletion |-> set[3],
   limits |-> set[4], maxProofs |-> n, usable |-> in[1], sos |-> in[2]]

\* Inputs whose search goes on after a proof: in the first P(a) comes from -Q, is kept
\* against -P(a), and P(x) may be given before it.
LongInputs == {<<"PaQ">>} \X {{"NQ", "Na", "Px"}, {"E", "Na", "Pa"}}

AllProblems == {Problem(set, 1, in) : set \in Settings, in \in Inputs}
                 \cup {Problem(set, 4, in) : set \in Settings, in \in LongInputs}
==============================================================================
