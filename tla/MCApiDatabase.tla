--------------------------- MODULE MCApiDatabase ---------------------------
(* Small instances of ApiDatabase for TLC.                                 *)
EXTENDS ApiDatabase, TLC

CONSTANTS z1, v1, v2, u1, u2

MCImports == {{<<"@", "ns", v1>>, <<"w", "a", v2>>}}

Narrow == {r \in Request :
             /\ "label" \in DOMAIN r => r.label = "w"
             /\ "rtype" \in DOMAIN r => r.rtype = "a"
             /\ "value" \in DOMAIN r =>
                  r.value = (IF r.type = "add_record" THEN v1 ELSE v2)
             /\ "enabled" \in DOMAIN r => r.enabled \/ r.type = "update_zone"}

AllRequests == Narrow
=============================================================================
