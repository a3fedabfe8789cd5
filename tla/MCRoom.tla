-------------------------------- MODULE MCRoom --------------------------------
(***************************************************************************)
(* The requests of sounds that TLC explores.                                *)
(***************************************************************************)
EXTENDS RoomAgent

\* Assets, cancelled and listened over.
Assets ==
  {[do |-> "play", kind |-> k] : k \in {"assistant", "critical"}}
    \cup {[do |-> what, kind |-> "none"] : what \in {"cancel", "start_listening"}}
=============================================================================
