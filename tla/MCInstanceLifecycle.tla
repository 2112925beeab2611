------------------------ MODULE MCInstanceLifecycle ------------------------
EXTENDS InstanceLifecycle

CONSTANTS i1, i2

\* Sessions while the instance is deleted; watches of what the operator owns are
\* late; two instances and their binding.
MCSettings ==
    {[used |-> {i1}, serving |-> {i1}, lag |-> {"inst", "sandbox", "secret"},
      faults |-> 1, admin |-> 0],
     [used |-> {i1}, serving |-> {}, lag |-> {"inst", "deploy", "hmac"},
      faults |-> 1, admin |-> 0],
     [used |-> {i1, i2}, serving |-> {}, lag |-> {"inst"}, faults |-> 0, admin |-> 1]}

\* Late watches of the Deployment and the server pods.
MCLateServers ==
    {[used |-> {i1}, serving |-> {i1}, lag |-> {"inst", "deploy", "server"},
      faults |-> 0, admin |-> 0]}

=============================================================================
