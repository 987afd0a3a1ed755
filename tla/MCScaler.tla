-------------------------------- MODULE MCScaler --------------------------------
(***************************************************************************)
(* The scaler with two worker machine sets and one of an extra pool.       *)
(***************************************************************************)
EXTENDS Scaler

Workers == {"worker-a", "worker-b"}
ExtraPools == {"infra-a"}

================================================================================
