--------------------------- MODULE MCImageSessions ---------------------------
(***************************************************************************)
(* Deployments of ImageSessions for TLC.                                    *)
(***************************************************************************)
EXTENDS ImageSessions

\* A cached circuit image with plain state files of the older format, whose
\* sessions may leave out --auth-store.
OlderImage ==
  [direct |-> FALSE, layouts |-> {"plain", "sidecar"}, sealed |-> FALSE, cached |-> TRUE,
   legacy |-> TRUE, forgets |-> TRUE, power |-> FALSE, maxVersion |-> 4, maxBuilds |-> 1]

\* Direct tables that are built over.
DirectTables ==
  [direct |-> TRUE, layouts |-> {"sidecar", "embedded"}, sealed |-> TRUE, cached |-> TRUE,
   legacy |-> FALSE, forgets |-> FALSE, power |-> FALSE, maxVersion |-> 4, maxBuilds |-> 2]

\* A machine that loses power.
PowerLoss ==
  [direct |-> FALSE, layouts |-> {"sidecar", "embedded"}, sealed |-> TRUE, cached |-> TRUE,
   legacy |-> FALSE, forgets |-> FALSE, power |-> TRUE, maxVersion |-> 3, maxBuilds |-> 2]

ThreeDeployments == {OlderImage, DirectTables, PowerLoss}

\* An embedded image whose sessions may leave out --auth-store.
ForgottenFlag ==
  {[direct |-> FALSE, layouts |-> {"embedded"}, sealed |-> TRUE, cached |-> FALSE,
    legacy |-> FALSE, forgets |-> TRUE, power |-> FALSE, maxVersion |-> 3, maxBuilds |-> 1]}
=============================================================================
