-------------------------- MODULE MCDocumentNumber --------------------------
(* Four requests, two of them on a parent row.  No symmetry: RequestsEnd is *)
(* a liveness property.                                                     *)
EXTENDS DocumentNumber
CONSTANTS t1, t2, t3, t4

MCCaller == {t1, t2, t3, t4}
MCHolder == {t1, t2}

=============================================================================
