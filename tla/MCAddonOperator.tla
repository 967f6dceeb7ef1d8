-------------------------- MODULE MCAddonOperator --------------------------
(* Values for the constants of the two controllers under TLC.               *)
EXTENDS AddonOperator

\* The cluster reports no version, so that a pass gets no further than the
\* Subscription: what is asked here is about the ConfigMap controller.
NotReported == {<<>>}
NoVersions == {}
=============================================================================
