-------------------------- MODULE MC_Substitution --------------------------
(***************************************************************************)
(* Model of Substitution alone: three file texts over the alphabet {, },   *)
(* :, a, b and the quote q, and every list of up to two patterns drawn     *)
(* from "a:b" and "b:a:b" (a value with a ':' in it).                      *)
(***************************************************************************)
EXTENDS Substitution

CONSTANT PE

LB == "{"
RB == "}"
CO == ":"

MCTexts ==
    { <<LB, "a", RB, "b", LB, "a", RB>>,   \* "{a}b{a}"
      <<LB, "b", RB, LB, "a", RB>>,        \* "{b}{a}"
      <<"a", LB, "a", "b", RB>> }          \* "a{ab}"

PatAB   == <<"a", CO, "b">>
PatABA  == <<"b", CO, "a", CO, "b">>       \* a value with a ':' in it

ListsOver(P) == {<<>>} \cup {<<p>> : p \in P} \cup {<<p, q>> : p, q \in P}

MCPatternListsColon == ListsOver({PatAB, PatABA})
=============================================================================
