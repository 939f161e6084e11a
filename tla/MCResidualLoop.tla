--------------------------- MODULE MCResidualLoop ---------------------------
(* Threads of the daemon that handle the tool calls of one session.  A thread   *)
(* keeps at most one dictionary alive besides the session's own.                *)
EXTENDS ResidualLoop

CONSTANTS s1, h1, h2

MCLoops == 1..(Cardinality(Sessions) + Cardinality(Handlers))

-------------------------------------------------------------------------------
(* A history variable: the events of a session that ended without a report since*)
(* its last one, whichever of its dictionaries they were counted in, no further *)
(* than the first that is too many.                                             *)
VARIABLE unreported

MostUnreported == Cardinality(Handlers) * MaxIterations + Cardinality(Handlers) - 1

mcvars == <<vars, unreported>>

Ends(h, s) == job[h].session = s /\ job'[h] = Idle
Reports(h, s) == Ends(h, s) /\ job[h].pc = "cleanup"

MCInit == Init /\ unreported = [s \in Sessions |-> 0]

MCNext ==
  /\ Next
  /\ unreported' =
       [s \in Sessions |->
          CASE \E h \in Handlers : Reports(h, s) -> 0
            [] /\ \E h \in Handlers : Ends(h, s) /\ ~Reports(h, s)
               /\ unreported[s] <= MostUnreported -> unreported[s] + 1
            [] OTHER -> unreported[s]]

MCSpec == MCInit /\ [][MCNext]_mcvars /\ \A h \in Handlers : WF_vars(Handle(h))

(* A thread that creates the session's dictionary while another one has done so *)
(* takes the place of it, and the events counted there are forgotten (a lost    *)
(* initialisation, residual_loop_engine.py:145-152).  It happens at most once   *)
(* per other thread between two reports, so that a session is reported after    *)
(* at most max_iterations events of each thread, and the events that found the  *)
(* session's loop deleted under them.                                           *)
ReportedInTime == \A s \in Sessions : unreported[s] <= MostUnreported
=============================================================================
