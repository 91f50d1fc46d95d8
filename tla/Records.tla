------------------------------ MODULE Records ------------------------------
(***************************************************************************)
(* Records put together from parts, as the tables of generated code are.   *)
(***************************************************************************)

(* The fields of two records.  This is @@ of the module TLC, of which no   *)
(* prover knows the definition.                                            *)
fields ++ more ==
  [field \in DOMAIN fields \cup DOMAIN more |->
     IF field \in DOMAIN fields THEN fields[field] ELSE more[field]]

=============================================================================
