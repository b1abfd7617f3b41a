---------------------------- MODULE MC_Pipeline ----------------------------
(***************************************************************************)
(* Model of Pipeline: a source file and two extra files, five patterns,    *)
(* and every argument list with one --source-file and up to three other    *)
(* options, in any order.                                                  *)
(*                                                                         *)
(*   src = "{b}{b}"  x1 = "y"  x2 = "{a}"                                  *)
(*   a:x   b:{a} (its value is the placeholder of a:x)   a:q (breaks the   *)
(*   JSON)   ab (no ':')   b:e (turns src into the falsy document)         *)
(*                                                                         *)
(* A valid text denotes a document: "x" and "xx" the one with root v1 and  *)
(* entry k1 with flags, "y" the one with root v2 and entry k1 without      *)
(* "sandbox-flags" (so "y" before "x" makes the merge raise), "ee" the     *)
(* falsy {}, and any other text one with root v2 and no entries.           *)
(***************************************************************************)
EXTENDS Pipeline

CONSTANTS k1, v1, v2, f1, src, x1, x2, PE, EmptyD

LB == "{"
RB == "}"
CO == ":"

E(k, v, f) == [key |-> k, val |-> v, flags |-> f]
Sc(r, m) == [root |-> r, mounts |-> m, links |-> <<>>, fps |-> <<>>, ns |-> <<>>]
BaseDoc(s) ==
    [common |-> <<[switch |-> Absent, base |-> <<s>>, res |-> Absent]>>,
     individual |-> Absent, permission |-> Absent]

DocX == BaseDoc(Sc(v1, <<E(k1, v2, <<f1>>)>>))
DocY == BaseDoc(Sc(v2, <<E(k1, v1, Absent)>>))
DocO == BaseDoc(Sc(v2, <<>>))

MCDocOf(t) ==
    CASE t \in {<<"x">>, <<"x", "x">>} -> DocX
      [] t = <<"y">>                   -> DocY
      [] t = <<"e", "e">>              -> EmptyD
      [] OTHER                         -> DocO

MCContent == (src :> <<LB, "b", RB, LB, "b", RB>>) @@ (x1 :> <<"y">>) @@ (x2 :> <<LB, "a", RB>>)

Opt(o, v) == [opt |-> o, val |-> v]
Src == Opt("--source-file", src)
MCOthers ==
    { Opt("--extra_sandbox_cfg", x1), Opt("--extra_sandbox_cfg", x2),
      Opt("--patterns", <<"a", CO, "x">>), Opt("--patterns", <<"b", CO, LB, "a", RB>>),
      Opt("--patterns", <<"a", CO, "q">>), Opt("--patterns", <<"a", "b">>),
      Opt("--patterns", <<"b", CO, "e">>) }

MCArgvs ==
    UNION { { InsertAt(os, j, Src) : j \in 1..(Len(os) + 1) } :
            os \in UNION {{f \in [1..n -> MCOthers] : IsInjective(f)} : n \in 0..3} }
=============================================================================
