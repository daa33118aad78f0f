--------------------------- MODULE MCHealthCheck --------------------------
(* A small instance of HealthCheck for TLC: one address that never answers,*)
(* whose location does not exist, or has its check off, on, or of an       *)
(* unknown protocol (that one with the down count written as a positive    *)
(* number).                                                                *)
EXTENDS HealthCheck

MCConfigs ==
    {[listed |-> FALSE, enable |-> FALSE, protocol |-> "http", up |-> 1, down |-> -1],
     [listed |-> TRUE, enable |-> FALSE, protocol |-> "http", up |-> 1, down |-> -1],
     [listed |-> TRUE, enable |-> TRUE, protocol |-> "http", up |-> 1, down |-> -1],
     [listed |-> TRUE, enable |-> TRUE, protocol |-> "other", up |-> 1, down |-> 2]}
=============================================================================
