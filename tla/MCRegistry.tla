------------------------------ MODULE MCRegistry ------------------------------
(* The instance TLC checks OrderlyRegistry on. *)
EXTENDS OrderlyRegistry, TLC
=============================================================================
