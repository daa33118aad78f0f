---------------------------- MODULE EventStream ----------------------------
(***************************************************************************)
(* What replication promises: events are appended in the order of their    *)
(* revisions, and each is delivered once, in that order, with none left    *)
(* out.  Crashes and batches are not visible at this level.                *)
(***************************************************************************)
EXTENDS Naturals

CONSTANT Rev        \* the revisions an event may have, natural numbers

VARIABLES
    log,        \* revisions of the events published so far
    done        \* revisions delivered

streamVars == <<log, done>>

StreamInit == log = {} /\ done = {}

Append(r) ==
    /\ \A q \in log : q < r
    /\ log' = log \cup {r}
    /\ UNCHANGED done

Deliver(r) ==
    /\ r \in log \ done
    /\ \A q \in log : q < r => q \in done
    /\ done' = done \cup {r}
    /\ UNCHANGED log

StreamNext == \E r \in Rev : Append(r) \/ Deliver(r)

StreamSpec == StreamInit /\ [][StreamNext]_streamVars
=============================================================================
