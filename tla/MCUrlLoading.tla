---------------------------- MODULE MCUrlLoading ----------------------------
(* Instances of UrlLoading for TLC. *)
EXTENDS UrlLoading

Bare(d) == [host |-> d, url |-> FALSE]
AsUrl(d) == [host |-> d, url |-> TRUE]

\* Two configurations that transport: a black list that wins over the white list and
\* a domain provisioned as a URL; a black list alone and a domain provisioned by its
\* bare name.  And one that only reports, with the lists the other way round.
MCConfigurations ==
    {[mode |-> "transport and report", black |-> {Bare("a")}, internalBlack |-> {},
      provisioned |-> {AsUrl("b")}, white |-> {Bare("a")}],
     [mode |-> "transport", black |-> {}, internalBlack |-> {AsUrl("a")},
      provisioned |-> {Bare("b")}, white |-> {}],
     [mode |-> "report", black |-> {Bare("b")}, internalBlack |-> {},
      provisioned |-> {Bare("a")}, white |-> {}]}
=============================================================================
