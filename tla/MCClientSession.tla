-------------------------- MODULE MCClientSession --------------------------
(* Two connections: one pipelines, the other competes for the batch.       *)
EXTENDS ClientSession

TwoClients == {1, 2}
Workloads ==
    {<<<<"select", "set", "select", "set">>, <<"bigset">>>>,
     <<<<"set", "error", "bigset">>, <<"bigset">>>>,
     <<<<"get", "set", "bad">>, <<"set", "set">>>>,
     <<<<"ping", "bad">>, <<"set">>>>}
=============================================================================
