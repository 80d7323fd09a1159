-------------------------------- MODULE MCTasks --------------------------------
(* Small instances of EspTasks for TLC.                                    *)
EXTENDS EspTasks

\* A network, and the clock set from a server.
MCCards ==
  {(Cfg :> <<[on |-> TRUE, zone |-> "UTC"]>>) @@ (Nets :> <<[net |-> "net"]>>)}
MCZones == {"UTC"}
=============================================================================
