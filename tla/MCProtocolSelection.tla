------------------------ MODULE MCProtocolSelection ------------------------
(* Instances of ProtocolSelection for TLC. *)
EXTENDS ProtocolSelection

\* Two configurations that disagree on the first protocol, one of which names
\* the protocol nothing implements.
ServedConfigurations ==
    { [allowed |-> <<"quic", "standard">>, initial |-> "standard"],
      [allowed |-> <<"rev", "standard">>, initial |-> "rev"] }

UsableConfigurations ==
    { [allowed |-> <<"quic", "standard">>, initial |-> "standard"],
      [allowed |-> <<"standard">>, initial |-> "quic"] }
=============================================================================
