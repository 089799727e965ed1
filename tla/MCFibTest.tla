------------------------------ MODULE MCFibTest ------------------------------
(* Instances of FibTest with a buffer of MCLength slots.                    *)
EXTENDS FibTest
MCSemaphores == {"full", "empty", "buff_protect"}
MCInitialValue == [s \in MCSemaphores |-> CASE s = "full" -> Length
                                            [] s = "empty" -> 0
                                            [] s = "buff_protect" -> 1]
MCClientOps == {"put", "more", "get", "less", "first", "advance"}
=============================================================================
