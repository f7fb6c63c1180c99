----------------------------- MODULE MCEptTrace -----------------------------
(***************************************************************************)
(* Model of EptTrace: a hookable page sharing a region with another page,  *)
(* two more regions, and a split pool one table short.                     *)
(***************************************************************************)
EXTENDS EptTrace, TLC

CONSTANTS h, a, b, c

MCPage == {h, a, b, c}
MCRegionOf == (h :> 0) @@ (a :> 0) @@ (b :> 1) @@ (c :> 2)

(* Instructions on one page, with or without an access to another page. *)
MCInsn ==
  {[code |-> {p}, data |-> {}] : p \in MCPage}
    \cup {[code |-> {p}, data |-> {h}] : p \in {a, b}}
=============================================================================
