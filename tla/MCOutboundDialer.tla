------------------------- MODULE MCOutboundDialer --------------------------
(* Instances of OutboundDialer for TLC.                                    *)
EXTENDS OutboundDialer, TLC

\* Leads and attempts are interchangeable: no action names one.  Used by the
\* runs that check no liveness property.
Symmetry == Permutations(Leads) \cup Permutations(Attempts)
=============================================================================
