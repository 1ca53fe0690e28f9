----------------------------- MODULE MCCmPanel -----------------------------
(***************************************************************************)
(* Small panels for TLC.                                                   *)
(***************************************************************************)
EXTENDS CmPanel, TLC

CONSTANTS cm1, cm2, t1, t2, d1, a, b

TwoCms == {cm1, cm2}
TwoTopics == {t1, t2}
AnyTopics == [w \in TwoCms |-> (SUBSET TwoTopics) \ {{}}]
OneTopicEach == (cm1 :> {{t1}}) @@ (cm2 :> {{t2}})
NoDevices == {}
OneDevice == {d1}
TwoClients == {a, b}

\* Nothing tells two topics, work orders or clients apart ...
Symmetry == Permutations(WorkOrders) \union Permutations(Topics)
            \union Permutations(Clients)

\* ... and where a work order has its topic, nothing tells the pairs apart.
PairSymmetry == {(cm1 :> cm2) @@ (cm2 :> cm1) @@ (t1 :> t2) @@ (t2 :> t1)}
                \union Permutations(Clients)

TopicRequests == {"create", "pmCreate", "saveReport", "patchTopics", "patchReport",
                  "patchReportDevice", "deleteReport", "cancel", "restore", "reopen"}
DeviceRequests == {"create", "saveReport", "patchDevice", "submit", "APPROVED",
                   "cancel", "NORMAL", "CRITICAL"}
=============================================================================
