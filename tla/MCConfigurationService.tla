----------------------- MODULE MCConfigurationService -----------------------
EXTENDS ConfigurationService

\* One configuration for every draw of the lottery, and one that does not report.
MCPublished ==
    {[mode |-> "transport and report", ratio |-> 50, staleTimeout |-> 1],
     [mode |-> "transport", ratio |-> 0, staleTimeout |-> 2]}
=============================================================================
