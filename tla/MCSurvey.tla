------------------------------ MODULE MCSurvey ------------------------------
(* Three types, two at a time: type 1 has two rows, type 2 one and no       *)
(* enricher, type 3 one.                                                    *)
EXTENDS Survey

Kinds == <<1, 1, 2, 3>>
=============================================================================
